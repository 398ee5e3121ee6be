------------------------------ MODULE AxisFifo ------------------------------
(***************************************************************************)
(* rtl/utils/axis_fifo_fwft.vhd and the RAM stage under it,                 *)
(* rtl/utils/axis_fifo_bram.vhd: the fall-through FIFO used by the          *)
(* prefetcher, the instruction cache, the memory interconnect, the execution*)
(* front end and the UART.  One step is one rising edge of clk.             *)
(***************************************************************************)
EXTENDS Integers, Sequences, AxisQueues

CONSTANTS Data,             \* the words
          FIFO_DEPTH,       \* slots of the ring
          REGISTER_OUTPUT   \* generic: TRUE when the output is registered

ASSUME DataAssumption == Data # {}
ASSUME DepthAssumption == FIFO_DEPTH \in Nat /\ FIFO_DEPTH >= 3
ASSUME RegisterAssumption == REGISTER_OUTPUT \in BOOLEAN

VARIABLES
    wr_addr, rd_addr, fifo_cnt, wr_data_tready,   \* the ring's control
    mem,                                          \* the block RAM
    address_b, bram_tdata,                        \* its read port: address and output latches
    bram_tvalid, bram_bypass_en, bram_bypass_data,
    res_tvalid, res_tdata,                        \* the optional output register
    in, out                                       \* what the two ports transferred at the last edge

ring == <<wr_addr, rd_addr, fifo_cnt, wr_data_tready>>
ram_vars  == <<mem, address_b, bram_tdata>>
bram_vars == <<bram_tvalid, bram_bypass_en, bram_bypass_data>>
res_vars  == <<res_tvalid, res_tdata>>
vars == <<ring, ram_vars, bram_vars, res_vars, in, out>>

Slots == 0 .. FIFO_DEPTH - 1
Port  == {<<>>} \cup {<<d>> : d \in Data}

TypeOK ==
    /\ wr_addr \in Slots /\ rd_addr \in Slots /\ fifo_cnt \in Slots
    /\ wr_data_tready \in BOOLEAN
    /\ mem \in [Slots -> Data] /\ address_b \in Slots /\ bram_tdata \in Data
    /\ bram_tvalid \in BOOLEAN /\ bram_bypass_en \in BOOLEAN /\ bram_bypass_data \in Data
    /\ res_tvalid \in BOOLEAN /\ res_tdata \in Data
    /\ in \in Port /\ out \in Port

\* After power-up the RAM is cleared (POWER_UP_UNINITIALIZED = FALSE).
Init ==
    /\ wr_addr = 0 /\ rd_addr = 0 /\ fifo_cnt = 0 /\ wr_data_tready = TRUE
    /\ \E zero \in Data :
          /\ mem = [s \in Slots |-> zero] /\ bram_tdata = zero
          /\ bram_bypass_data = zero /\ res_tdata = zero
    /\ address_b = 0
    /\ bram_tvalid = FALSE /\ bram_bypass_en = FALSE /\ res_tvalid = FALSE
    /\ in = <<>> /\ out = <<>>

-----------------------------------------------------------------------------
(* The combinational wires of a cycle.  "v" is s_axis_fifo_tvalid, "d" its   *)
(* data and "r" is m_axis_fifo_tready.                                       *)
tdata == IF bram_bypass_en THEN bram_bypass_data ELSE bram_tdata

m_tvalid == IF REGISTER_OUTPUT THEN res_tvalid ELSE bram_tvalid
m_tdata  == IF REGISTER_OUTPUT THEN res_tdata ELSE tdata

bram_tready(r) == IF REGISTER_OUTPUT THEN ~res_tvalid \/ r ELSE r
rd_tready(r)   == ~bram_tvalid \/ bram_tready(r)

write_unguarded(v) == v                        \* mutant: tready ignored
write(v)           == v /\ wr_data_tready

rd_on_write_only(v) == write(v)                \* mutant: stored words not offered
rd_data_tvalid(v)   == write(v) \/ fifo_cnt # 0

read(v, r) == rd_data_tvalid(v) /\ rd_tready(r)

bypass_always(v) == write(v)                   \* mutant: overtakes stored words
bypass_never(v)  == FALSE                      \* mutant: reads the RAM too early
use_bypass(v)    == write(v) /\ fifo_cnt = 0

closes_late(n) == n = FIFO_DEPTH               \* mutant: no slot kept free
closes(n)      == n = FIFO_DEPTH - 1

next_slot(a) == (a + 1) % FIFO_DEPTH

\* fifo_throughput_proc, write_proc and read_proc.
RingClock(v, r) ==
    /\ fifo_cnt' = CASE write(v) /\ ~read(v, r) -> fifo_cnt + 1
                     [] ~write(v) /\ read(v, r) -> fifo_cnt - 1
                     [] OTHER -> fifo_cnt
    /\ wr_data_tready' = CASE write(v) /\ ~read(v, r) -> ~closes(fifo_cnt + 1)
                           [] ~write(v) /\ read(v, r) -> TRUE
                           [] OTHER -> wr_data_tready
    /\ wr_addr' = IF write(v) THEN next_slot(wr_addr) ELSE wr_addr
    /\ rd_addr' = IF read(v, r) THEN next_slot(rd_addr) ELSE rd_addr

(* altsyncram in DUAL_PORT mode with OLD_DATA: the read address is latched   *)
(* unless addressstall_b; with rden_b the word at the latched address shows  *)
(* at the output, as it was before this edge's write.                        *)
addressstall_b(r) == bram_tvalid /\ ~bram_tready(r)

RamClock(v, d, r) ==
    LET a == IF addressstall_b(r) THEN address_b ELSE rd_addr
    IN  /\ address_b' = a
        /\ bram_tdata' = IF rd_data_tvalid(v) THEN mem[a] ELSE bram_tdata
        /\ mem' = IF write(v) THEN [mem EXCEPT ![wr_addr] = d] ELSE mem

\* The valid bit, and the word that bypasses the RAM when the ring is empty.
BramClock(v, d, r) ==
    /\ bram_tvalid' = (read(v, r) \/ (bram_tvalid /\ ~bram_tready(r)))
    /\ bram_bypass_en' = IF read(v, r) THEN use_bypass(v) ELSE bram_bypass_en
    /\ bram_bypass_data' = IF read(v, r) THEN d ELSE bram_bypass_data

\* register_output_gen.
ResData(r) ==
    res_tdata' = IF REGISTER_OUTPUT /\ bram_tvalid /\ bram_tready(r) THEN tdata ELSE res_tdata

ResClock(r) ==
    /\ res_tvalid' = (/\ REGISTER_OUTPUT
                      /\ \/ bram_tvalid /\ bram_tready(r)
                         \/ res_tvalid /\ ~r)
    /\ ResData(r)

Clock(v, d, r) ==
    /\ RingClock(v, r) /\ RamClock(v, d, r) /\ BramClock(v, d, r) /\ ResClock(r)
    /\ in'  = IF write(v) THEN <<d>> ELSE <<>>
    /\ out' = IF m_tvalid /\ r THEN <<m_tdata>> ELSE <<>>

(* resetn = '0' at the edge.  The prefetcher pulls it on every jump, so it   *)
(* happens with words in the ring and with both ports active.  The RAM and   *)
(* the data registers have no reset; wr_data_tready is raised.               *)
Reset(v, d, r) ==
    /\ wr_addr' = 0 /\ rd_addr' = 0 /\ fifo_cnt' = 0 /\ wr_data_tready' = TRUE
    /\ bram_tvalid' = FALSE /\ bram_bypass_en' = FALSE
    /\ bram_bypass_data' = IF read(v, r) THEN d ELSE bram_bypass_data
    /\ RamClock(v, d, r)
    /\ res_tvalid' = FALSE /\ ResData(r)
    /\ in' = <<>> /\ out' = <<>>

Next == \E v, r \in BOOLEAN, d \in Data : Clock(v, d, r) \/ Reset(v, d, r)

(* Fairness: the clock runs.  resetn is not held forever only if reset edges *)
(* do not starve the others; the consumer is not assumed to be ready.        *)
ClockRuns == WF_vars(\E v, r \in BOOLEAN, d \in Data : Clock(v, d, r))

Spec     == Init /\ [][Next]_vars
FairSpec == Spec /\ ClockRuns

-----------------------------------------------------------------------------
\* The contents, in the terms of AxisQueues.
Ring == [i \in 1 .. fifo_cnt |-> mem[(rd_addr + (i - 1)) % FIFO_DEPTH]]
Fifo == [q    |-> Ring,
         bram |-> IF bram_tvalid THEN <<tdata>> ELSE <<>>,
         res  |-> IF res_tvalid THEN <<res_tdata>> ELSE <<>>]

Capacity == FIFO_DEPTH + (IF REGISTER_OUTPUT THEN 1 ELSE 0)

Queue == INSTANCE StreamFifo WITH queue <- FifoWords(Fifo)

(* Every word that crosses the sink port crosses the source port exactly     *)
(* once, in order, unless a reset drops it: the ring, the RAM output latch,  *)
(* the bypass and the output register together are one queue.                *)
ImplementsQueue == Queue!Spec

(* The counter, the two addresses and the registered tready agree: the       *)
(* counter never leaves its range, the sink is open iff a slot is spare.     *)
RingConsistent ==
    /\ wr_addr = (rd_addr + fifo_cnt) % FIFO_DEPTH
    /\ wr_data_tready <=> fifo_cnt < FIFO_DEPTH - 1

(* While a word waits at the RAM output its slot is read again at every      *)
(* cycle, although the ring has already given the slot up: the one slot kept *)
(* free is what stops a write from landing on it.                            *)
HeldSlotNotOverwritten ==
    bram_tvalid /\ ~bram_bypass_en =>
        /\ mem[address_b] = bram_tdata
        /\ wr_data_tready => wr_addr # address_b

(* At every edge without reset the FIFO steps exactly as FifoStep says,      *)
(* which is what the composed modules of this project assume of it.          *)
StepsAsFifoStep ==
    [][\/ \E v, r \in BOOLEAN, d \in Data :
            Fifo' = FifoStep(Fifo, FIFO_DEPTH, REGISTER_OUTPUT, IF v THEN <<d>> ELSE <<>>, r)
       \/ Fifo' = EmptyFifo]_vars

(* First-word fall-through: while the clock runs, a stored word reaches the  *)
(* source port without any help from the consumer.                           *)
WordsReachTheOutput == FifoWords(Fifo) # <<>> ~> (m_tvalid \/ FifoWords(Fifo) = <<>>)
=============================================================================
