------------------------------ MODULE DataPath ------------------------------
(***************************************************************************)
(* The path of the program's data: the data cache (cpu86_dcache.vhd), the    *)
(* load-store unit (cpu86_exec_lsu.vhd) with its result slots                *)
(* (cpu86_exec_lsu_fifo.vhd) and the byte-addressed memory behind them.  One *)
(* step is one clock edge.                                                   *)
(*                                                                          *)
(* Memory is made of cells of four bytes; a word may lie across two cells    *)
(* and then takes two requests.  A word is <<low byte, high byte>>.  The     *)
(* bytes of the n-th request of a run are 2n and 2n + 1, so that a read      *)
(* tells which writes it saw.                                                *)
(***************************************************************************)
EXTENDS Naturals, Sequences, FiniteSets, AxisQueues

CONSTANTS SIZE,          \* bytes of memory: 2^20 in the code
          LINES,         \* lines of the data cache: 512
          TAG_SPAN,      \* bytes that share a tag: 2^8
          SLOTS,         \* result slots: 16
          TAG_DEPTH,     \* depth of axis_fifo_inst, the tags of memory reads: 16
          MEM_DEPTH,     \* requests that the memory holds
          Requests,      \* what the program may ask: [cmd, addr, w]
          MaxRequests    \* bound of the runs: requests of one behaviour

ASSUME DataPathAssumption ==
    /\ SIZE \in Nat \ {0} /\ SIZE % 4 = 0 /\ LINES \in Nat \ {0}
    /\ TAG_SPAN % 2 = 0 /\ TAG_SPAN \in 2 .. 2 * LINES
    /\ SLOTS \in Nat \ {0, 1} /\ TAG_DEPTH \in Nat \ {0, 1} /\ MEM_DEPTH \in Nat \ {0}
    /\ MEM_DEPTH + 2 <= TAG_DEPTH         \* nothing stops a read for want of room for its tag
    /\ MaxRequests \in Nat
    /\ Requests \subseteq [cmd : {"read", "write"}, addr : 0 .. SIZE - 1, w : BOOLEAN]

VARIABLES
    cache,                                 \* line -> [vld, tag, word]
    dcache,                                \* the request in the cache's pipeline register
    req_buf, mem_req, mem_req_reg,         \* second half of a word; request; axis_reg_mem_req_inst
    fifo_0,                                \* tags of the reads under way
    upd, upd_lo,                           \* result on its way to a slot; the low byte it keeps
    slot, wr_addr, rd_addr, fifo_cnt, wr_data_tready, rd_data_tvalid,  \* cpu86_exec_lsu_fifo
    store, mem_pending, mem_rd,            \* the memory: bytes, reads accepted, answer
    program, expected, count               \* history: what a memory without delay would hold and answer

slot_vars == <<slot, wr_addr, rd_addr, fifo_cnt, wr_data_tready, rd_data_tvalid>>
vars == <<cache, dcache, req_buf, mem_req, mem_req_reg, fifo_0, upd, upd_lo, slot_vars,
          store, mem_pending, mem_rd, program, expected, count>>

Slots == 0 .. SLOTS - 1

-----------------------------------------------------------------------------
(* Addresses.                                                                *)
s_index(a) == (a \div 2) % LINES
m_tag(a) == a \div TAG_SPAN
cell(a) == a \div 4
next_cell(c) == (c + 1) % (SIZE \div 4)
lane(a) == a % 4
odd(a) == a % 2 = 1
split(r) == r.w /\ lane(r.addr) = 3          \* the word lies across two cells

bytes_of(c, m) == [l \in 0 .. 3 |-> m[4 * c + l]]

-----------------------------------------------------------------------------
(* The data cache.  It is filled by aligned words only, as they are written. *)
cached == IF dcache[1].w THEN dcache[1].q ELSE <<dcache[1].q[1], 0>>
dcache_thit_any_byte(d) ==                   \* mutant: odd addresses hit too
    d.vld /\ d.tag = m_tag(d.addr)
dcache_thit(d) == d.vld /\ d.tag = m_tag(d.addr) /\ ~odd(d.addr)

line_after_keep(r, data) ==                  \* mutant: a byte write leaves the line valid
    IF r.w /\ ~odd(r.addr) THEN [vld |-> TRUE, tag |-> m_tag(r.addr), word |-> data]
    ELSE cache[s_index(r.addr)]
line_after(r, data) ==
    IF r.w /\ ~odd(r.addr) THEN [vld |-> TRUE, tag |-> m_tag(r.addr), word |-> data]
    ELSE [cache[s_index(r.addr)] EXCEPT !.vld = FALSE]

(* Wires between the stages.                                                 *)
mem_req_tready == RegReady(mem_req_reg)
req_buf_tready == mem_req = <<>> \/ mem_req_tready
lsu_req_tready_no_slot == req_buf = <<>> /\ req_buf_tready   \* mutant: a read without a slot
lsu_req_tready == req_buf = <<>> /\ req_buf_tready /\ wr_data_tready
lsu_hs == dcache # <<>> /\ lsu_req_tready
dcache_s_tready == dcache = <<>> \/ lsu_req_tready
req_buf_hs == req_buf # <<>> /\ req_buf_tready

Cache(request, data) ==
    IF request # <<>>
    THEN LET r == request[1]
             line == cache[s_index(r.addr)] IN
         /\ dcache' = <<[cmd |-> r.cmd, addr |-> r.addr, w |-> r.w, data |-> data,
                         vld |-> line.vld, tag |-> line.tag, q |-> line.word]>>
         /\ cache' = IF r.cmd = "write" THEN [cache EXCEPT ![s_index(r.addr)] = line_after(r, data)]
                     ELSE cache
    ELSE /\ dcache' = IF lsu_req_tready THEN <<>> ELSE dcache
         /\ UNCHANGED cache

-----------------------------------------------------------------------------
(* The load-store unit.  A memory request names the bytes it writes.         *)
first_part(d) ==
    [cmd |-> d.cmd, cell |-> cell(d.addr),
     bytes |-> IF d.w /\ lane(d.addr) # 3
               THEN {<<lane(d.addr), d.data[1]>>, <<lane(d.addr) + 1, d.data[2]>>}
               ELSE {<<lane(d.addr), d.data[1]>>}]
second_part(b) == [cmd |-> b.cmd, cell |-> b.cell, bytes |-> {<<0, b.data>>}]

adding == lsu_hs /\ dcache[1].cmd = "read"
missing == adding /\ ~dcache_thit(dcache[1])

tag_offered_once ==                          \* mutant: one tag for the two halves of a word
    IF missing
    THEN <<[slot |-> wr_addr, tail |-> FALSE, w |-> dcache[1].w, lane |-> lane(dcache[1].addr)]>>
    ELSE <<>>
tag_offered ==
    IF req_buf_hs /\ req_buf[1].cmd = "read"
    THEN <<[slot |-> req_buf[1].slot, tail |-> TRUE, w |-> TRUE, lane |-> lane(0)]>>
    ELSE IF missing
    THEN <<[slot |-> wr_addr, tail |-> FALSE, w |-> dcache[1].w, lane |-> lane(dcache[1].addr)]>>
    ELSE <<>>

Issue ==
    /\ req_buf' = IF lsu_hs /\ split(dcache[1])
                  THEN <<[cmd |-> dcache[1].cmd, cell |-> next_cell(cell(dcache[1].addr)),
                          data |-> dcache[1].data[2], slot |-> wr_addr]>>
                  ELSE IF lsu_hs \/ req_buf_tready THEN <<>> ELSE req_buf
    /\ mem_req' = IF req_buf_hs THEN <<second_part(req_buf[1])>>
                  ELSE IF lsu_hs /\ (dcache[1].cmd = "write" \/ missing) THEN <<first_part(dcache[1])>>
                  ELSE IF lsu_hs \/ mem_req_tready THEN <<>> ELSE mem_req
    /\ fifo_0' = FifoErStep(fifo_0, TAG_DEPTH, tag_offered, mem_rd # <<>>)

(* Results: the first half of a split word waits in upd_lo for the second.   *)
answered == IF mem_rd # <<>> THEN fifo_0.res ELSE <<>>   \* the tag of the answer
completes_low_lanes(t) == t.tail \/ t.lane # 3 \* mutant: a byte in the last lane waits for a second half
completes(t) == t.tail \/ ~(t.w /\ t.lane = 3)
loaded(t) ==
    IF t.tail THEN <<upd_lo, mem_rd[1][0]>>
    ELSE <<mem_rd[1][t.lane], IF t.w /\ t.lane # 3 THEN mem_rd[1][t.lane + 1] ELSE 0>>

Results ==
    /\ upd' = IF answered # <<>> /\ completes(answered[1])
              THEN <<[slot |-> answered[1].slot, data |-> loaded(answered[1])]>> ELSE <<>>
    /\ upd_lo' = IF answered # <<>> THEN loaded(answered[1])[1] ELSE upd_lo

(* The result slots (cpu86_exec_lsu_fifo): a hit is complete when added.     *)
dout == IF rd_data_tvalid /\ slot[rd_addr].vld THEN <<slot[rd_addr].data>> ELSE <<>>

ResultSlots(taken) ==
    LET read == dout # <<>> /\ taken
        add == adding
        next(i) == (i + 1) % SLOTS IN
    /\ slot' = [i \in Slots |->
                  IF add /\ i = wr_addr THEN [vld |-> dcache_thit(dcache[1]), data |-> cached]
                  ELSE IF upd # <<>> /\ i = upd[1].slot THEN [vld |-> TRUE, data |-> upd[1].data]
                  ELSE slot[i]]
    /\ wr_addr' = IF add THEN next(wr_addr) ELSE wr_addr
    /\ rd_addr' = IF read THEN next(rd_addr) ELSE rd_addr
    /\ fifo_cnt' = CASE add /\ ~read -> fifo_cnt + 1
                     [] read /\ ~add -> fifo_cnt - 1
                     [] OTHER -> fifo_cnt
    /\ wr_data_tready' = CASE add /\ ~read -> wr_data_tready /\ fifo_cnt + 1 # SLOTS - 1
                           [] read /\ ~add -> TRUE
                           [] OTHER -> wr_data_tready
    /\ rd_data_tvalid' = CASE add /\ ~read -> TRUE
                           [] read /\ ~add -> rd_data_tvalid /\ fifo_cnt - 1 # 0
                           [] OTHER -> rd_data_tvalid

-----------------------------------------------------------------------------
(* The memory takes requests in order and answers reads in order, any number *)
(* of edges later but not on the next one.                                   *)
stored(request) ==
    [a \in 0 .. SIZE - 1 |->
        IF \E v \in 0 .. 2 * MaxRequests + 1 : cell(a) = request.cell /\ <<lane(a), v>> \in request.bytes
        THEN CHOOSE v \in 0 .. 2 * MaxRequests + 1 : <<lane(a), v>> \in request.bytes
        ELSE store[a]]

Memory(ready, answers) ==
    LET request == IF ready THEN RegOut(mem_req_reg) ELSE <<>>
        left == IF answers THEN Tail(mem_pending) ELSE mem_pending IN
    /\ mem_req_reg' = RegStep(mem_req_reg, mem_req, ready)
    /\ store' = IF request # <<>> /\ request[1].cmd = "write" THEN stored(request[1]) ELSE store
    /\ mem_pending' = IF request # <<>> /\ request[1].cmd = "read"
                      THEN Append(left, bytes_of(request[1].cell, store)) ELSE left
    /\ mem_rd' = IF answers THEN <<Head(mem_pending)>> ELSE <<>>

-----------------------------------------------------------------------------
word_at(m, r) == <<m[r.addr], IF r.w THEN m[(r.addr + 1) % SIZE] ELSE 0>>
written(m, r, data) ==
    IF r.w THEN [m EXCEPT ![r.addr] = data[1], ![(r.addr + 1) % SIZE] = data[2]]
    ELSE [m EXCEPT ![r.addr] = data[1]]

History(request, data, taken) ==
    LET left == IF dout # <<>> /\ taken THEN Tail(expected) ELSE expected IN
    IF request = <<>> THEN expected' = left /\ UNCHANGED <<program, count>>
    ELSE /\ count' = count + 1
         /\ IF request[1].cmd = "read"
            THEN expected' = Append(left, word_at(program, request[1])) /\ UNCHANGED program
            ELSE expected' = left /\ program' = written(program, request[1], data)

Init ==
    /\ cache = [l \in 0 .. LINES - 1 |-> [vld |-> FALSE, tag |-> 0, word |-> <<0, 0>>]]
    /\ dcache = <<>> /\ req_buf = <<>> /\ mem_req = <<>> /\ mem_req_reg = <<>>
    /\ fifo_0 = EmptyFifo /\ upd = <<>> /\ upd_lo = 0
    /\ slot = [i \in Slots |-> [vld |-> FALSE, data |-> <<0, 0>>]]
    /\ wr_addr = 0 /\ rd_addr = 0 /\ fifo_cnt = 0 /\ wr_data_tready = TRUE /\ rd_data_tvalid = FALSE
    /\ store = [a \in 0 .. SIZE - 1 |-> 0] /\ mem_pending = <<>> /\ mem_rd = <<>>
    /\ program = store /\ expected = <<>> /\ count = 0

Edge(request, taken, ready, answers) ==
    LET data == <<2 * (count + 1), 2 * (count + 1) + 1>> IN
    /\ Cache(request, data) /\ Issue /\ Results /\ ResultSlots(taken)
    /\ Memory(ready, answers) /\ History(request, data, taken)

Asked == {<<>>} \cup (IF dcache_s_tready /\ count < MaxRequests THEN {<<r>> : r \in Requests} ELSE {})
MemReady == IF mem_req_reg # <<>> /\ Len(mem_pending) < MEM_DEPTH THEN BOOLEAN ELSE {FALSE}
Answers == IF mem_pending # <<>> THEN BOOLEAN ELSE {FALSE}
Taken == IF dout # <<>> THEN BOOLEAN ELSE {TRUE}

Next == \E request \in Asked, taken \in Taken, ready \in MemReady, answers \in Answers :
            Edge(request, taken, ready, answers)

Spec == Init /\ [][Next]_vars

(* An edge on which neither the memory nor the program holds anything back.  *)
FreeEdge == \E request \in Asked :
    Edge(request, TRUE, mem_req_reg # <<>> /\ Len(mem_pending) < MEM_DEPTH, mem_pending # <<>>)
FairSpec == Spec /\ WF_vars(FreeEdge)

-----------------------------------------------------------------------------
Byte == 0 .. 2 * MaxRequests + 1
Pair == Byte \X Byte
TypeOK ==
    /\ \A l \in 0 .. LINES - 1 : cache[l].word \in Pair /\ cache[l].vld \in BOOLEAN
    /\ Len(dcache) <= 1 /\ Len(req_buf) <= 1 /\ Len(mem_req) <= 1 /\ Len(mem_req_reg) <= 2
    /\ \A i \in Slots : slot[i].data \in Pair
    /\ wr_addr \in Slots /\ rd_addr \in Slots /\ fifo_cnt \in 0 .. SLOTS - 1
    /\ {wr_data_tready, rd_data_tvalid} \subseteq BOOLEAN
    /\ store \in [0 .. SIZE - 1 -> Byte] /\ upd_lo \in Byte

(* A read returns what the last writes before it left there, whatever the    *)
(* cache answered and however late the memory is.  It holds for programs     *)
(* that write no word to an odd address: such a write drops the line of its  *)
(* low byte only, and a valid line of its high byte keeps the old word.      *)
ReadsReturnLastWrite == dout # <<>> => dout[1] = Head(expected)

(* A valid line holds what the program last wrote there, although the writes *)
(* themselves may still be on their way to the memory.                       *)
LinesAreCurrent ==
    \A a \in 0 .. SIZE - 2 :
        LET line == cache[s_index(a)] IN
        ~odd(a) /\ line.vld /\ line.tag = m_tag(a) => line.word = <<program[a], program[a + 1]>>

(* Every read has its room, although no ready is looked at.  A slot: for     *)
(* each read of the program not answered yet, unless it waits for one in the *)
(* cache's pipeline register.  A tag: for each read on its way to or from    *)
(* the memory, at the head when the answer arrives; a split word asks twice  *)
(* and takes one slot, so the slots do not bound the tags.                   *)
reads(s) == Cardinality({i \in DOMAIN s : s[i].cmd = "read"})
RoomForEveryRead ==
    /\ Len(expected) = fifo_cnt + reads(dcache)
    /\ wr_addr = (rd_addr + fifo_cnt) % SLOTS
    /\ Len(FifoWords(fifo_0)) = reads(mem_req) + reads(mem_req_reg) + Len(mem_pending) + Len(mem_rd)
    /\ mem_rd # <<>> => fifo_0.res # <<>>

(* Together, with the ranges of the registers: what the data path remembers  *)
(* of lines, slots and tags is true.                                         *)
BooksAreTrue == TypeOK /\ LinesAreCurrent /\ RoomForEveryRead

(* Every read is answered.                                                   *)
ReadsAnswered == expected # <<>> ~> expected = <<>>
=============================================================================
