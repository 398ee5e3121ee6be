------------------------------- MODULE Fetcher -------------------------------
(***************************************************************************)
(* rtl/cpu86/cpu86_fetcher.vhd: the prefetcher.  It requests consecutive    *)
(* words from CS:IP, pairs every answer with the CS:IP it was asked at, and *)
(* on a jump starts again at the target, discarding the answers that are    *)
(* still under way.  Clock is one rising edge; its arguments are the input  *)
(* wires, so that the module can be joined to the instruction cache.        *)
(***************************************************************************)
EXTENDS Integers, Sequences, AxisQueues

CONSTANTS CS,        \* the segment values a jump may load
          IP_SIZE,   \* 2^16 in the code: IP wraps here
          PARA,      \* 16 in the code: bytes per unit of CS
          RESET_IP,  \* x"0400" in the code
          LIMIT      \* 4 in the code: no new request from this many words on

ASSUME SegmentAssumption == 0 \in CS /\ CS \subseteq Nat /\ PARA \in Nat
ASSUME IpAssumption == /\ IP_SIZE \in Nat /\ IP_SIZE > 0 /\ IP_SIZE % 4 = 0
                       /\ RESET_IP \in 0 .. IP_SIZE - 1
ASSUME LimitAssumption == LIMIT \in 1 .. 4

VARIABLES cs_tdata, ip_tdata,                    \* where to fetch next
          cmd_tvalid,                            \* a request is offered to memory
          max_hs_cnt, mem_hs_cnt, skip_hs_cnt,   \* words asked and not consumed; answers awaited; answers to discard
          fifo_0, fifo_1                         \* CS:IP of requests; words with their CS:IP

fetcher_vars == <<cs_tdata, ip_tdata, cmd_tvalid, max_hs_cnt, mem_hs_cnt, skip_hs_cnt, fifo_0, fifo_1>>

DEPTH_0 == 16
DEPTH_1 == 32

Pointer == [cs : CS, ip : 0 .. IP_SIZE - 1]
word_of(p) == (p.cs * PARA + p.ip) \div 4           \* cmd_tdata(19 downto 2)
next_word_ip_17bit(ip) == (ip - (ip % 4)) + 4         \* mutant: the sum keeps its carry
next_word_ip(ip) == ((ip - (ip % 4)) + 4) % IP_SIZE

Here == [cs |-> cs_tdata, ip |-> ip_tdata]

FetcherInit ==
    /\ cs_tdata = 0 /\ ip_tdata = RESET_IP
    /\ cmd_tvalid = FALSE
    /\ max_hs_cnt = 0 /\ mem_hs_cnt = 0 /\ skip_hs_cnt = 0
    /\ fifo_0 = EmptyFifo /\ fifo_1 = EmptyFifo

-----------------------------------------------------------------------------
(* Wires.  Request is the word offered to memory; "rd" is mem_rd as a        *)
(* sequence of at most one word, "jmp" the jump request likewise, "req_rdy"  *)
(* and "data_rdy" the two tready inputs.                                     *)
Request == IF cmd_tvalid THEN <<word_of(Here)>> ELSE <<>>
DataOut    == FifoOut(fifo_1, FALSE)
Tag     == FifoOut(fifo_0, TRUE)

asked(req_rdy)     == cmd_tvalid /\ req_rdy
answered(rd)       == rd # <<>>
consumed(data_rdy) == DataOut # <<>> /\ data_rdy

kept(rd)        == answered(rd) /\ skip_hs_cnt = 0

up_down_leak(n, up, down, size) ==                    \* mutant: up and down on one edge counts up
    IF up THEN (n + 1) % size ELSE IF down THEN (n - 1) % size ELSE n
up_down(n, up, down, size) ==
    IF up /\ ~down THEN (n + 1) % size
    ELSE IF down /\ ~up THEN (n - 1) % size
    ELSE n

below_limit_off(n) == n < LIMIT + 2                      \* mutant: the limit compared late
below_limit(n)     == n < LIMIT

CmdNext(req_rdy) ==
    cmd_tvalid' = (below_limit(max_hs_cnt) \/ (cmd_tvalid /\ ~req_rdy))

in_flight_after_stale(req_rdy, rd) == mem_hs_cnt      \* mutant: this edge's traffic not counted
in_flight_after(req_rdy, rd) ==
    up_down(mem_hs_cnt, asked(req_rdy), answered(rd), 64)

Counters(req_rdy, rd, jmp, data_rdy) ==
    /\ mem_hs_cnt' = up_down(mem_hs_cnt, asked(req_rdy), answered(rd), 32)
    /\ max_hs_cnt' = IF jmp # <<>> THEN 0
                     ELSE up_down(max_hs_cnt, asked(req_rdy), consumed(data_rdy), 32)
    /\ skip_hs_cnt' = IF jmp # <<>> THEN in_flight_after(req_rdy, rd)
                      ELSE IF answered(rd) /\ skip_hs_cnt # 0 THEN skip_hs_cnt - 1
                      ELSE skip_hs_cnt

PointerNext(req_rdy, jmp) ==
    IF jmp # <<>> THEN cs_tdata' = jmp[1].cs /\ ip_tdata' = jmp[1].ip
    ELSE /\ cs_tdata' = cs_tdata
         /\ ip_tdata' = IF asked(req_rdy) THEN next_word_ip(ip_tdata) ELSE ip_tdata

(* The tag is a sequence as well: <<>> would be a pop of an empty fifo_0.     *)
word_in(rd) == IF kept(rd) THEN <<[tag |-> Tag, word |-> rd[1]]>> ELSE <<>>

flush_never(jmp) == FALSE                             \* mutant: jump keeps the FIFOs
flush(jmp)       == jmp # <<>>                        \* fifo_resetn = '0'

Fifos(req_rdy, rd, jmp, data_rdy) ==
    IF flush(jmp) THEN fifo_0' = EmptyFifo /\ fifo_1' = EmptyFifo
    ELSE /\ fifo_0' = FifoStep(fifo_0, DEPTH_0, TRUE, IF asked(req_rdy) THEN <<Here>> ELSE <<>>, kept(rd))
         /\ fifo_1' = FifoStep(fifo_1, DEPTH_1, FALSE, word_in(rd), data_rdy)

FetcherClock(req_rdy, rd, jmp, data_rdy) ==
    /\ CmdNext(req_rdy)
    /\ Counters(req_rdy, rd, jmp, data_rdy)
    /\ PointerNext(req_rdy, jmp)
    /\ Fifos(req_rdy, rd, jmp, data_rdy)

=============================================================================
