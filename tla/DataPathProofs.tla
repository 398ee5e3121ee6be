--------------------------- MODULE DataPathProofs ---------------------------
(***************************************************************************)
(* The path of the program's data, for every size of memory, of cache and   *)
(* of queues, any program of any length that writes no word to an odd       *)
(* address, and any delay of the memory: a read returns the last write.     *)
(***************************************************************************)
EXTENDS DataPath, QueueProofs, FiniteSetTheorems

(* What the data cache takes for granted: it clears the line of the first    *)
(* byte of a write only.                                                     *)
NoOddWords == \A r \in Requests : r.cmd = "write" /\ r.w => ~odd(r.addr)

Addr  == 0 .. SIZE - 1
Cells == 0 .. (SIZE \div 4) - 1
Lanes == 0 .. 3
Cmds  == {"read", "write"}
Line  == [vld : BOOLEAN, tag : Nat, word : Pair]
Lookup == [cmd : Cmds, addr : Addr, w : BOOLEAN, data : Pair, vld : BOOLEAN, tag : Nat, q : Pair]
Half   == [cmd : Cmds, cell : Cells, data : Byte, slot : Slots]
Writes == {b \in SUBSET (Lanes \X Byte) : \A x, y \in b : x[1] = y[1] => x = y}
Part   == [cmd : Cmds, cell : Cells, bytes : Writes]
Tag    == [slot : Slots, tail : BOOLEAN, w : BOOLEAN, lane : Lanes]
Result == [slot : Slots, data : Pair]
Quad   == [Lanes -> Byte]

Shapes ==
    /\ cache \in [0 .. LINES - 1 -> Line] /\ AtMostOneOf(Lookup, dcache)
    /\ AtMostOneOf(Half, req_buf) /\ AtMostOneOf(Part, mem_req)
    /\ mem_req_reg \in Seq(Part) /\ Len(mem_req_reg) <= 2 /\ ErShape(fifo_0, Tag)
    /\ AtMostOneOf(Result, upd) /\ upd_lo \in Byte
    /\ slot \in [Slots -> [vld : BOOLEAN, data : Pair]]
    /\ wr_addr \in Slots /\ rd_addr \in Slots
    /\ wr_data_tready \in BOOLEAN /\ rd_data_tvalid \in BOOLEAN
    /\ store \in [Addr -> Byte] /\ program \in [Addr -> Byte]
    /\ mem_pending \in Seq(Quad) /\ AtMostOneOf(Quad, mem_rd)
    /\ Len(mem_pending) + Len(mem_rd) <= MEM_DEPTH
    /\ expected \in Seq(Pair) /\ count \in 0 .. MaxRequests

(* The reads that have a slot are numbered by their age, as in the list of   *)
(* the answers that the program expects.                                     *)
Pos(r, i) == Ahead(SLOTS, r, i)
Live(i)   == Pos(rd_addr, i) <= fifo_cnt
Wanted(i) == expected[Pos(rd_addr, i)]
reading   == dcache # <<>> /\ dcache[1].cmd = "read"

Counters ==
    /\ fifo_cnt \in 0 .. SLOTS - 1 /\ Pos(rd_addr, wr_addr) = fifo_cnt + 1
    /\ wr_data_tready <=> fifo_cnt # SLOTS - 1
    /\ rd_data_tvalid <=> fifo_cnt # 0
    /\ Len(expected) = fifo_cnt + Num(reading)

(* A slot in use is not valid or holds what the program expects.             *)
SlotsHold == \A i \in Slots : Live(i) /\ slot[i].vld => slot[i].data = Wanted(i)

-----------------------------------------------------------------------------
(* The requests on their way to the memory, oldest first, and the memory as  *)
(* the i-th of them will find it.                                            *)
Row == mem_req_reg \o mem_req
Wrote(m, p) ==
    IF p.cmd = "write"
    THEN [a \in Addr |->
            IF \E v \in Byte : cell(a) = p.cell /\ <<lane(a), v>> \in p.bytes
            THEN CHOOSE v \in Byte : <<lane(a), v>> \in p.bytes
            ELSE m[a]]
    ELSE m
Before(i) == IF i = 1 THEN store
             ELSE IF i = 2 THEN Wrote(store, Row[1])
             ELSE IF i = 3 THEN Wrote(Wrote(store, Row[1]), Row[2])
             ELSE Wrote(Wrote(Wrote(store, Row[1]), Row[2]), Row[3])
BehindRow == Before(Len(Row) + 1)
BehindBuf == IF req_buf # <<>> THEN Wrote(BehindRow, second_part(req_buf[1])) ELSE BehindRow

(* The program's memory is what the row, the second half of a word and the   *)
(* write in the cache's register will make of the memory.                    *)
MemoryInOrder ==
    program = IF dcache # <<>> /\ dcache[1].cmd = "write"
              THEN written(BehindBuf, dcache[1], dcache[1].data) ELSE BehindBuf

(* The second half follows the first at once.                                *)
HalfBehind ==
    req_buf # <<>> => mem_req # <<>> /\ mem_req[1].cmd = req_buf[1].cmd

(* What the cache gave its register is current.                              *)
LookupHolds ==
    reading => /\ expected[Len(expected)] = word_at(program, dcache[1])
               /\ dcache_thit(dcache[1]) =>
                    dcache[1].q = <<program[dcache[1].addr], program[dcache[1].addr + 1]>>

-----------------------------------------------------------------------------
(* The reads that the memory owes an answer: the tags, oldest first, and the *)
(* bytes they will be answered with.                                         *)
Tags   == FifoWords(fifo_0)
n_rd   == Len(mem_rd)
n_came == n_rd + Len(mem_pending)
Came(i) == IF i <= n_rd THEN mem_rd[1] ELSE mem_pending[i - n_rd]
IsRead(i) == i <= Len(Row) /\ Row[i].cmd = "read"
Nth(i) == IF i = 0 THEN 0
          ELSE IF i = 1 THEN Num(IsRead(1))
          ELSE IF i = 2 THEN Num(IsRead(1)) + Num(IsRead(2))
          ELSE (Num(IsRead(1)) + Num(IsRead(2))) + Num(IsRead(3))

(* The bytes f complete the word in the way tag t says.                      *)
Gives(t, f, word) ==
    IF t.tail THEN f[0] = word[2]
    ELSE /\ f[t.lane] = word[1]
         /\ t.w /\ t.lane # 3 => f[t.lane + 1] = word[2]
         /\ ~t.w => word[2] = 0
Right(t, f) == Gives(t, f, Wanted(t.slot))
TailOf(i) == [slot |-> i, tail |-> TRUE, w |-> TRUE, lane |-> lane(0)]
AnswersFit ==
    /\ Len(Tags) = n_came + Nth(3)
    /\ \A i \in 1 .. n_came : Right(Tags[i], Came(i))
    /\ \A i \in 1 .. Len(Row) :
          IsRead(i) => Right(Tags[n_came + Nth(i)], bytes_of(Row[i].cell, Before(i)))
    /\ req_buf # <<>> /\ req_buf[1].cmd = "read" =>
          Right(TailOf(req_buf[1].slot), bytes_of(req_buf[1].cell, BehindRow))

(* They have slots in use and still empty, in the order of the program; only *)
(* the two halves of a word share one.                                       *)
Halves(s, t) == ~completes(s) /\ t.tail /\ t.slot = s.slot
Place(i) == Pos(rd_addr, Tags[i].slot)
Waits(i) == Live(i) /\ ~slot[i].vld
Order ==
    /\ \A i \in 1 .. Len(Tags) : Waits(Tags[i].slot)
    /\ \A i, j \in 1 .. Len(Tags) :
          i < j => Place(i) < Place(j) \/ (j = i + 1 /\ Halves(Tags[i], Tags[j]))
    /\ \A i \in 1 .. Len(Tags) : Tags[i].tail =>
          IF i = 1 THEN upd_lo = Wanted(Tags[i].slot)[1] ELSE Halves(Tags[i - 1], Tags[i])
    /\ req_buf # <<>> /\ req_buf[1].cmd = "read" =>
          Halves(Tags[Len(Tags)], TailOf(req_buf[1].slot))
    /\ upd # <<>> => /\ Waits(upd[1].slot) /\ upd[1].data = Wanted(upd[1].slot)
                     /\ \A i \in 1 .. Len(Tags) : Pos(rd_addr, upd[1].slot) < Place(i)

(* A tag goes through the FIFO no slower than its request to the memory.     *)
TagsInTime ==
    /\ fifo_0.bram = <<>> => Len(fifo_0.q) <= Num(mem_req # <<>> /\ mem_req[1].cmd = "read")
    /\ fifo_0.res = <<>> =>
          /\ Len(fifo_0.q) <= Num(mem_req # <<>> /\ mem_req[1].cmd = "read")
          /\ n_came = 0

DataInv == /\ Shapes /\ Counters /\ SlotsHold /\ MemoryInOrder /\ HalfBehind /\ LookupHolds
           /\ LinesAreCurrent /\ AnswersFit /\ Order /\ TagsInTime

-----------------------------------------------------------------------------
LEMMA Constants ==
    /\ SIZE \in Nat /\ SIZE % 4 = 0 /\ SIZE > 0 /\ LINES \in Nat /\ LINES > 0
    /\ TAG_SPAN \in Nat /\ TAG_SPAN >= 2 /\ TAG_SPAN <= 2 * LINES
    /\ SLOTS \in Nat /\ SLOTS >= 2 /\ TAG_DEPTH \in Nat /\ MEM_DEPTH \in Nat /\ MEM_DEPTH > 0
    /\ MEM_DEPTH + 2 <= TAG_DEPTH /\ MaxRequests \in Nat
    /\ Requests \subseteq [cmd : Cmds, addr : Addr, w : BOOLEAN]
  BY DataPathAssumption DEF Cmds, Addr

(* Cells and lanes.                                                          *)
LEMMA CellFacts ==
    ASSUME NEW a \in Addr
    PROVE  cell(a) \in Cells /\ lane(a) \in Lanes /\ a = 4 * cell(a) + lane(a)
<1>1. SIZE = 4 * (SIZE \div 4) /\ SIZE \div 4 \in Nat
  BY Constants
<1>2. a = 4 * (a \div 4) + (a % 4) /\ a % 4 \in 0 .. 3 /\ a \div 4 \in Nat
  BY Constants DEF Addr
<1>3. a < SIZE
  BY Constants DEF Addr
<1> DEFINE c == a \div 4
           n == SIZE \div 4
<1> HIDE DEF c, n
<1>4. c \in 0 .. n - 1
  BY <1>1, <1>2, <1>3 DEF c, n
<1> QED
  BY <1>2, <1>4 DEF c, n, cell, lane, Cells, Lanes

LEMMA LaneFacts ==
    ASSUME NEW c \in Cells, NEW l \in Lanes
    PROVE  4 * c + l \in Addr /\ cell(4 * c + l) = c /\ lane(4 * c + l) = l
<1>1. SIZE = 4 * (SIZE \div 4) /\ SIZE \div 4 \in Nat
  BY Constants
<1>2. c \in Nat /\ c < SIZE \div 4 /\ l \in 0 .. 3
  BY <1>1 DEF Cells, Lanes
<1> QED
  BY <1>1, <1>2 DEF Addr, cell, lane

(* The byte after a, and its place.                                          *)
LEMMA NextByte ==
    ASSUME NEW a \in Addr
    PROVE  /\ (a + 1) % SIZE \in Addr /\ (a + 1) % SIZE # a
           /\ a + 1 \in Addr => (a + 1) % SIZE = a + 1
           /\ lane(a) # 3 => a + 1 \in Addr /\ cell(a + 1) = cell(a) /\ lane(a + 1) = lane(a) + 1
           /\ lane(a) = 3 => /\ next_cell(cell(a)) \in Cells
                             /\ cell((a + 1) % SIZE) = next_cell(cell(a)) /\ lane((a + 1) % SIZE) = 0
<1>1. /\ SIZE = 4 * (SIZE \div 4) /\ SIZE \div 4 \in Nat /\ SIZE \in Nat /\ SIZE >= 4
  BY Constants
<1>2. (a + 1) % SIZE = (IF a = SIZE - 1 THEN 0 ELSE a + 1) /\ (a + 1) % SIZE \in Addr
  <2>1. SIZE \in Nat /\ SIZE >= 2 /\ a \in 0 .. SIZE - 1
    BY <1>1 DEF Addr
  <2>2. (a + 1) % SIZE = (IF a = SIZE - 1 THEN 0 ELSE a + 1) /\ (a + 1) % SIZE \in 0 .. SIZE - 1
    BY <2>1, RingNext
  <2> QED
    BY <2>2 DEF Addr
<1>3. a = 4 * cell(a) + lane(a) /\ cell(a) \in Cells /\ lane(a) \in 0 .. 3
  BY CellFacts DEF Lanes
<1>4. (a + 1) % SIZE # a
  BY <1>1, <1>2 DEF Addr
<1>5. ASSUME lane(a) # 3 PROVE a + 1 \in Addr /\ cell(a + 1) = cell(a) /\ lane(a + 1) = lane(a) + 1
  <2>1. lane(a) + 1 \in Lanes /\ a + 1 = 4 * cell(a) + (lane(a) + 1)
    BY <1>3, <1>5 DEF Lanes, Cells
  <2> QED
    BY <1>3, <2>1, LaneFacts
<1>6. ASSUME lane(a) = 3
      PROVE  /\ next_cell(cell(a)) \in Cells
             /\ cell((a + 1) % SIZE) = next_cell(cell(a)) /\ lane((a + 1) % SIZE) = 0
  <2> DEFINE n == SIZE \div 4
             c == cell(a)
  <2>1. n \in Nat /\ n >= 1 /\ SIZE = 4 * n /\ c \in 0 .. n - 1 /\ a = 4 * c + 3
    BY <1>1, <1>3, <1>6 DEF Cells
  <2>2. next_cell(c) = (c + 1) % n
    BY DEF next_cell
  <2> HIDE DEF n, c
  <2>3. (c + 1) % n = (IF c = n - 1 THEN 0 ELSE c + 1) /\ (c + 1) % n \in 0 .. n - 1
    <3>1. CASE n = 1
      BY <2>1, <3>1
    <3>2. CASE n # 1
      <4>1. n >= 2
        BY <2>1, <3>2
      <4> QED
        BY <2>1, <4>1, RingNext
    <3> QED
      BY <3>1, <3>2
  <2>4. (a + 1) % SIZE = 4 * next_cell(c) + 0
    BY <1>2, <2>1, <2>2, <2>3
  <2>5. next_cell(c) \in Cells /\ 0 \in Lanes
    BY <2>2, <2>3 DEF n, Cells, Lanes
  <2>6. cell(4 * next_cell(c) + 0) = next_cell(c) /\ lane(4 * next_cell(c) + 0) = 0
    BY <2>5, LaneFacts
  <2> QED
    BY <2>4, <2>5, <2>6 DEF c
<1> QED
  BY <1>2, <1>4, <1>5, <1>6 DEF Addr

-----------------------------------------------------------------------------
(* A part of a request and the memory.                                       *)
LEMMA WroteFacts ==
    ASSUME NEW m \in [Addr -> Byte], NEW p \in Part
    PROVE  /\ Wrote(m, p) \in [Addr -> Byte]
           /\ p.cmd = "read" => Wrote(m, p) = m
           /\ p.cmd = "write" =>
                /\ \A a \in Addr, v \in Byte :
                     cell(a) = p.cell /\ <<lane(a), v>> \in p.bytes => Wrote(m, p)[a] = v
                /\ \A a \in Addr :
                     (\A v \in Byte : ~(cell(a) = p.cell /\ <<lane(a), v>> \in p.bytes)) =>
                        Wrote(m, p)[a] = m[a]
<1>1. CASE p.cmd # "write"
  BY <1>1 DEF Wrote, Part, Cmds
<1>2. CASE p.cmd = "write"
  <2> DEFINE b == p.bytes
             Val(a) == CHOOSE v \in Byte : <<lane(a), v>> \in b
             At(a) == IF \E v \in Byte : cell(a) = p.cell /\ <<lane(a), v>> \in b THEN Val(a) ELSE m[a]
  <2>1. Wrote(m, p) = [a \in Addr |-> At(a)]
    BY <1>2 DEF Wrote
  <2>2. b \in SUBSET (Lanes \X Byte) /\ \A x, y \in b : x[1] = y[1] => x = y
    BY DEF Part, Writes
  <2>3. ASSUME NEW a \in Addr, NEW v \in Byte, cell(a) = p.cell, <<lane(a), v>> \in b
        PROVE  At(a) = v
    <3>1. Val(a) \in Byte /\ <<lane(a), Val(a)>> \in b
      BY <2>3
    <3>2. At(a) = Val(a)
      BY <2>3
    <3> HIDE DEF Val, At, b
    <3>3. <<lane(a), Val(a)>> = <<lane(a), v>>
      <4> DEFINE x == <<lane(a), Val(a)>>
                 y == <<lane(a), v>>
      <4>1. x \in b /\ y \in b /\ x[1] = y[1]
        BY <2>3, <3>1
      <4> HIDE DEF x, y
      <4>2. x = y
        BY <2>2, <4>1
      <4> QED
        BY <4>2 DEF x, y
    <3> QED
      BY <3>2, <3>3
  <2>4. ASSUME NEW a \in Addr, \A v \in Byte : ~(cell(a) = p.cell /\ <<lane(a), v>> \in b)
        PROVE  At(a) = m[a]
    BY <2>4
  <2>5. ASSUME NEW a \in Addr PROVE At(a) \in Byte
    <3>1. CASE \E v \in Byte : cell(a) = p.cell /\ <<lane(a), v>> \in b
      <4>1. PICK v \in Byte : cell(a) = p.cell /\ <<lane(a), v>> \in b
        BY <3>1
      <4> HIDE DEF At
      <4> QED
        BY <2>3, <4>1
    <3>2. CASE ~\E v \in Byte : cell(a) = p.cell /\ <<lane(a), v>> \in b
      <4>1. At(a) = m[a]
        BY <3>2, <2>4
      <4> HIDE DEF At
      <4> QED
        BY <4>1
    <3> QED
      BY <3>1, <3>2
  <2> HIDE DEF At
  <2>6. \A a \in Addr : Wrote(m, p)[a] = At(a)
    BY <2>1
  <2>7. Wrote(m, p) \in [Addr -> Byte]
    BY <2>1, <2>5
  <2> QED
    BY <1>2, <2>3, <2>4, <2>6, <2>7
<1> QED
  BY <1>1, <1>2

LEMMA StoredIsWrote == ASSUME NEW p, p.cmd = "write" PROVE stored(p) = Wrote(store, p)
  BY DEF stored, Wrote, Addr, Byte

-----------------------------------------------------------------------------
(* What the load-store unit makes of a request.                              *)
SecondHalf(d, s) == [cmd |-> d.cmd, cell |-> next_cell(cell(d.addr)), data |-> d.data[2], slot |-> s]

LEMMA SecondPartType == ASSUME NEW b \in Half PROVE second_part(b) \in Part /\ second_part(b).cmd = b.cmd
<1>1. {<<0, b.data>>} \in Writes
  <2>1. b.data \in Byte /\ 0 \in Lanes
    BY DEF Half, Lanes
  <2> QED
    BY <2>1 DEF Writes
<1> QED
  BY <1>1 DEF second_part, Part, Half

LEMMA FirstPartType == ASSUME NEW d \in Lookup PROVE first_part(d) \in Part /\ first_part(d).cmd = d.cmd
<1>1. d.data[1] \in Byte /\ d.data[2] \in Byte /\ d.addr \in Addr /\ d.cmd \in Cmds
  BY DEF Lookup, Pair
<1>2. lane(d.addr) \in Lanes /\ cell(d.addr) \in Cells
  BY <1>1, CellFacts
<1>3. first_part(d).bytes \in Writes
  <2>1. {<<lane(d.addr), d.data[1]>>} \in Writes
    BY <1>1, <1>2 DEF Writes
  <2>2. ASSUME lane(d.addr) # 3
        PROVE  {<<lane(d.addr), d.data[1]>>, <<lane(d.addr) + 1, d.data[2]>>} \in Writes
    <3>1. lane(d.addr) + 1 \in Lanes /\ lane(d.addr) + 1 # lane(d.addr)
      BY <1>2, <2>2 DEF Lanes
    <3> QED
      BY <1>1, <1>2, <3>1 DEF Writes
  <2> QED
    BY <2>1, <2>2 DEF first_part
<1> QED
  BY <1>1, <1>2, <1>3 DEF first_part, Part

LEMMA SecondHalfType ==
    ASSUME NEW d \in Lookup, split(d), NEW s \in Slots
    PROVE  SecondHalf(d, s) \in Half
<1>1. d.data[2] \in Byte /\ d.addr \in Addr /\ d.cmd \in Cmds /\ lane(d.addr) = 3
  BY DEF Lookup, Pair, split
<1>2. next_cell(cell(d.addr)) \in Cells
  BY <1>1, NextByte
<1> QED
  BY <1>1, <1>2 DEF SecondHalf, Half

(* One write of the program is the writes of its parts.                      *)
LEMMA WrittenFacts ==
    ASSUME NEW m \in [Addr -> Byte], NEW r, r.addr \in Addr, NEW data \in Pair
    PROVE  /\ written(m, r, data) \in [Addr -> Byte]
           /\ \A x \in Addr :
                written(m, r, data)[x] = IF r.w /\ x = (r.addr + 1) % SIZE THEN data[2]
                                         ELSE IF x = r.addr THEN data[1] ELSE m[x]
<1>1. data[1] \in Byte /\ data[2] \in Byte
  BY DEF Pair
<1>2. (r.addr + 1) % SIZE \in Addr /\ (r.addr + 1) % SIZE # r.addr
  BY NextByte
<1> DEFINE n == (r.addr + 1) % SIZE
<1>3. written(m, r, data) = IF r.w THEN [m EXCEPT ![r.addr] = data[1], ![n] = data[2]]
                            ELSE [m EXCEPT ![r.addr] = data[1]]
  BY DEF written
<1>4. n \in Addr /\ n # r.addr
  BY <1>2
<1> HIDE DEF n
<1>5. /\ written(m, r, data) \in [Addr -> Byte]
      /\ \A x \in Addr : written(m, r, data)[x] = IF r.w /\ x = n THEN data[2]
                                                  ELSE IF x = r.addr THEN data[1] ELSE m[x]
  BY <1>1, <1>3, <1>4
<1> QED
  BY <1>5 DEF n

LEMMA FirstPartWrote ==
    ASSUME NEW m \in [Addr -> Byte], NEW d \in Lookup, d.cmd = "write", NEW x \in Addr
    PROVE  Wrote(m, first_part(d))[x] = IF d.w /\ lane(d.addr) # 3 /\ x = (d.addr + 1) % SIZE THEN d.data[2]
                                        ELSE IF x = d.addr THEN d.data[1] ELSE m[x]
<1> DEFINE p == first_part(d)
           a == d.addr
           n == (d.addr + 1) % SIZE
<1>1. a \in Addr /\ d.data[1] \in Byte /\ d.data[2] \in Byte
  BY DEF Lookup, Pair
<1>2. p \in Part /\ p.cmd = "write" /\ p.cell = cell(a)
  BY FirstPartType DEF first_part
<1>3. p.bytes = IF d.w /\ lane(a) # 3 THEN {<<lane(a), d.data[1]>>, <<lane(a) + 1, d.data[2]>>}
                ELSE {<<lane(a), d.data[1]>>}
  BY DEF first_part
<1>4. /\ n \in Addr /\ n # a
      /\ lane(a) # 3 => n = a + 1 /\ cell(n) = cell(a) /\ lane(n) = lane(a) + 1
  BY <1>1, NextByte
<1>5. a = 4 * cell(a) + lane(a) /\ x = 4 * cell(x) + lane(x) /\ lane(a) \in Lanes /\ lane(x) \in Lanes
      /\ cell(a) \in Cells /\ cell(x) \in Cells
  BY <1>1, CellFacts
<1> DEFINE two == d.w /\ lane(a) # 3
<1>6. CASE two /\ x = n
  <2>1. cell(x) = p.cell /\ <<lane(x), d.data[2]>> \in p.bytes
    BY <1>2, <1>3, <1>4, <1>6
  <2> HIDE DEF p
  <2>2. Wrote(m, p)[x] = d.data[2]
    BY <1>1, <1>2, <2>1, WroteFacts
  <2> QED
    BY <1>6, <2>2 DEF p
<1>7. CASE ~(two /\ x = n) /\ x = a
  <2>1. cell(x) = p.cell /\ <<lane(x), d.data[1]>> \in p.bytes
    BY <1>2, <1>3, <1>7
  <2> HIDE DEF p
  <2>2. Wrote(m, p)[x] = d.data[1]
    BY <1>1, <1>2, <2>1, WroteFacts
  <2> QED
    BY <1>7, <2>2 DEF p
<1>8. CASE ~(two /\ x = n) /\ x # a
  <2>1. ASSUME NEW v \in Byte, cell(x) = p.cell, <<lane(x), v>> \in p.bytes PROVE FALSE
    <3>1. lane(x) = lane(a) \/ (two /\ lane(x) = lane(a) + 1)
      BY <1>3, <2>1
    <3>2. CASE lane(x) = lane(a)
      BY <1>2, <1>5, <1>8, <2>1, <3>2
    <3>3. CASE two /\ lane(x) = lane(a) + 1
      <4>1. x = 4 * cell(a) + (lane(a) + 1)
        BY <1>2, <1>5, <2>1, <3>3
      <4>2. x = a + 1
        BY <1>5, <4>1 DEF Cells, Lanes
      <4> QED
        BY <1>4, <1>8, <3>3, <4>2
    <3> QED
      BY <3>1, <3>2, <3>3
  <2> HIDE DEF p
  <2>2. Wrote(m, p)[x] = m[x]
    BY <1>2, <2>1, WroteFacts
  <2> QED
    BY <1>8, <2>2 DEF p
<1> QED
  BY <1>6, <1>7, <1>8

LEMMA SecondPartWrote ==
    ASSUME NEW m \in [Addr -> Byte], NEW d \in Lookup, d.cmd = "write", split(d), NEW s \in Slots, NEW x \in Addr
    PROVE  Wrote(m, second_part(SecondHalf(d, s)))[x] = IF x = (d.addr + 1) % SIZE THEN d.data[2] ELSE m[x]
<1> DEFINE h == SecondHalf(d, s)
           p == second_part(h)
           n == (d.addr + 1) % SIZE
<1>1. d.addr \in Addr /\ d.data[2] \in Byte /\ lane(d.addr) = 3
  BY DEF Lookup, Pair, split
<1>2. h \in Half /\ h.cell = next_cell(cell(d.addr)) /\ h.data = d.data[2] /\ h.cmd = "write"
  BY SecondHalfType DEF SecondHalf
<1> HIDE DEF h
<1>3. p \in Part /\ p.cmd = "write" /\ p.cell = next_cell(cell(d.addr)) /\ p.bytes = {<<0, d.data[2]>>}
  BY <1>2, SecondPartType DEF second_part
<1>4. n \in Addr /\ cell(n) = next_cell(cell(d.addr)) /\ lane(n) = 0
  BY <1>1, NextByte
<1>5. n = 4 * cell(n) + lane(n) /\ x = 4 * cell(x) + lane(x) /\ lane(x) \in Lanes /\ cell(x) \in Cells
  BY <1>4, CellFacts
<1> HIDE DEF p, n
<1>6. CASE x = n
  <2>1. cell(x) = p.cell /\ <<lane(x), d.data[2]>> \in p.bytes
    BY <1>3, <1>4, <1>6
  <2>2. Wrote(m, p)[x] = d.data[2]
    <3> DEFINE v == d.data[2]
    <3>1. v \in Byte /\ cell(x) = p.cell /\ <<lane(x), v>> \in p.bytes /\ p \in Part /\ p.cmd = "write"
      BY <1>1, <1>3, <2>1
    <3> HIDE DEF v
    <3>2. Wrote(m, p)[x] = v
      BY <3>1, WroteFacts
    <3> QED
      BY <3>2 DEF v
  <2> QED
    BY <1>6, <2>2 DEF p, h, n
<1>7. CASE x # n
  <2>1. ASSUME NEW v \in Byte, cell(x) = p.cell, <<lane(x), v>> \in p.bytes PROVE FALSE
    BY <1>3, <1>4, <1>5, <1>7, <2>1
  <2>2. Wrote(m, p)[x] = m[x]
    BY <1>3, <2>1, WroteFacts
  <2> QED
    BY <1>7, <2>2 DEF p, h, n
<1> QED
  BY <1>6, <1>7

LEMMA WriteInParts ==
    ASSUME NEW m \in [Addr -> Byte], NEW d \in Lookup, d.cmd = "write", NEW s \in Slots
    PROVE  written(m, d, d.data) =
             IF split(d) THEN Wrote(Wrote(m, first_part(d)), second_part(SecondHalf(d, s)))
             ELSE Wrote(m, first_part(d))
<1> DEFINE f == written(m, d, d.data)
           g == Wrote(m, first_part(d))
           h == Wrote(g, second_part(SecondHalf(d, s)))
<1>1. d.addr \in Addr /\ d.data \in Pair /\ first_part(d) \in Part
  BY FirstPartType DEF Lookup
<1>2. f \in [Addr -> Byte]
  BY <1>1, WrittenFacts
<1>3. \A x \in Addr : f[x] = IF d.w /\ x = (d.addr + 1) % SIZE THEN d.data[2]
                             ELSE IF x = d.addr THEN d.data[1] ELSE m[x]
  BY <1>1, WrittenFacts
<1>4. g \in [Addr -> Byte]
  BY <1>1, WroteFacts
<1>5. \A x \in Addr : g[x] = IF d.w /\ lane(d.addr) # 3 /\ x = (d.addr + 1) % SIZE THEN d.data[2]
                             ELSE IF x = d.addr THEN d.data[1] ELSE m[x]
  BY FirstPartWrote
<1> HIDE DEF f, g
<1>6. CASE split(d)
  <2>1. second_part(SecondHalf(d, s)) \in Part
    BY <1>6, SecondHalfType, SecondPartType
  <2>2. h \in [Addr -> Byte]
    BY <1>4, <2>1, WroteFacts
  <2>3. \A x \in Addr : h[x] = IF x = (d.addr + 1) % SIZE THEN d.data[2] ELSE g[x]
    BY <1>4, <1>6, SecondPartWrote
  <2>4. d.w /\ lane(d.addr) = 3
    BY <1>6 DEF split
  <2> HIDE DEF h
  <2>5. \A x \in Addr : f[x] = h[x]
    BY <1>3, <1>5, <2>3, <2>4
  <2>6. f = h
    BY <1>2, <2>2, <2>5
  <2> QED
    BY <1>6, <2>6 DEF f, g, h
<1>7. CASE ~split(d)
  <2>1. d.w => lane(d.addr) # 3
    BY <1>7 DEF split
  <2>2. \A x \in Addr : f[x] = g[x]
    BY <1>3, <1>5, <2>1
  <2>3. f = g
    BY <1>2, <1>4, <2>2
  <2> QED
    BY <1>7, <2>3 DEF f, g
<1> QED
  BY <1>6, <1>7

(* One read is the bytes of its cells.                                       *)
LEMMA BytesOf ==
    ASSUME NEW m \in [Addr -> Byte], NEW c \in Cells
    PROVE  bytes_of(c, m) \in Quad /\ \A l \in Lanes : bytes_of(c, m)[l] = m[4 * c + l]
  BY LaneFacts DEF bytes_of, Quad, Lanes

LEMMA ReadInParts ==
    ASSUME NEW m \in [Addr -> Byte], NEW d \in Lookup
    PROVE  /\ word_at(m, d) \in Pair
           /\ bytes_of(cell(d.addr), m)[lane(d.addr)] = word_at(m, d)[1]
           /\ d.w /\ lane(d.addr) # 3 => bytes_of(cell(d.addr), m)[lane(d.addr) + 1] = word_at(m, d)[2]
           /\ split(d) => bytes_of(next_cell(cell(d.addr)), m)[0] = word_at(m, d)[2]
           /\ ~d.w => word_at(m, d)[2] = 0
<1> DEFINE a == d.addr
           n == (d.addr + 1) % SIZE
<1>1. a \in Addr
  BY DEF Lookup
<1>2. cell(a) \in Cells /\ lane(a) \in Lanes /\ a = 4 * cell(a) + lane(a)
  BY <1>1, CellFacts
<1>3. /\ n \in Addr
      /\ lane(a) # 3 => n = a + 1 /\ lane(a) + 1 \in Lanes /\ n = 4 * cell(a) + (lane(a) + 1)
      /\ lane(a) = 3 => next_cell(cell(a)) \in Cells /\ cell(n) = next_cell(cell(a)) /\ lane(n) = 0
  <2>1. /\ n \in Addr
        /\ lane(a) = 3 => next_cell(cell(a)) \in Cells /\ cell(n) = next_cell(cell(a)) /\ lane(n) = 0
    BY <1>1, NextByte
  <2>2. lane(a) # 3 => lane(a) + 1 \in Lanes /\ a + 1 = 4 * cell(a) + (lane(a) + 1)
    BY <1>2 DEF Lanes, Cells
  <2>3. lane(a) # 3 => n = a + 1
    BY <1>1, NextByte
  <2> QED
    BY <2>1, <2>2, <2>3
<1>4. word_at(m, d) = <<m[a], IF d.w THEN m[n] ELSE 0>>
  BY DEF word_at
<1>5. 0 \in Byte /\ 0 \in Lanes
  BY Constants DEF Byte, Lanes
<1> HIDE DEF a, n
<1>6. m[a] \in Byte /\ m[n] \in Byte
  BY <1>1, <1>3
<1>7. word_at(m, d) \in Pair /\ word_at(m, d)[1] = m[a] /\ word_at(m, d)[2] = IF d.w THEN m[n] ELSE 0
  BY <1>4, <1>5, <1>6 DEF Pair
<1>8. bytes_of(cell(a), m)[lane(a)] = m[a]
  BY <1>2, BytesOf
<1>9. lane(a) # 3 => bytes_of(cell(a), m)[lane(a) + 1] = m[n]
  BY <1>2, <1>3, BytesOf
<1>10. ASSUME split(d) PROVE bytes_of(next_cell(cell(a)), m)[0] = m[n]
  <2>1. lane(a) = 3
    BY <1>10 DEF split, a
  <2>2. n = 4 * next_cell(cell(a)) + 0 /\ next_cell(cell(a)) \in Cells
    BY <1>3, <2>1, CellFacts
  <2> QED
    BY <1>5, <2>2, BytesOf
<1> QED
  BY <1>7, <1>8, <1>9, <1>10 DEF a, split

-----------------------------------------------------------------------------
(* One edge.                                                                 *)
Goes(request, taken, ready, answers) ==
    /\ DataInv /\ request \in Asked /\ taken \in Taken /\ ready \in MemReady /\ answers \in Answers
    /\ Edge(request, taken, ready, answers)

LEMMA Lengths ==
    ASSUME Shapes
    PROVE  /\ Len(dcache) = Num(dcache # <<>>) /\ Len(req_buf) = Num(req_buf # <<>>)
           /\ Len(mem_req) = Num(mem_req # <<>>) /\ Len(upd) = Num(upd # <<>>)
           /\ Len(mem_rd) = Num(mem_rd # <<>>)
           /\ dcache # <<>> => dcache[1] \in Lookup /\ dcache = <<dcache[1]>>
           /\ req_buf # <<>> => req_buf[1] \in Half /\ req_buf = <<req_buf[1]>>
           /\ mem_req # <<>> => mem_req[1] \in Part /\ mem_req = <<mem_req[1]>>
           /\ upd # <<>> => upd[1] \in Result /\ upd = <<upd[1]>>
           /\ mem_rd # <<>> => mem_rd[1] \in Quad /\ mem_rd = <<mem_rd[1]>>
           /\ Len(mem_pending) \in Nat /\ Len(mem_req_reg) \in 0 .. 2
           /\ Tags \in Seq(Tag) /\ Len(Tags) \in Nat
<1>1. Len(dcache) = Num(dcache # <<>>) /\ (dcache # <<>> => dcache[1] \in Lookup /\ dcache = <<dcache[1]>>)
  BY OneIsSeq DEF Shapes
<1>2. Len(req_buf) = Num(req_buf # <<>>) /\ (req_buf # <<>> => req_buf[1] \in Half /\ req_buf = <<req_buf[1]>>)
  BY OneIsSeq DEF Shapes
<1>3. Len(mem_req) = Num(mem_req # <<>>) /\ (mem_req # <<>> => mem_req[1] \in Part /\ mem_req = <<mem_req[1]>>)
  BY OneIsSeq DEF Shapes
<1>4. Len(upd) = Num(upd # <<>>) /\ (upd # <<>> => upd[1] \in Result /\ upd = <<upd[1]>>)
  BY OneIsSeq DEF Shapes
<1>5. Len(mem_rd) = Num(mem_rd # <<>>) /\ (mem_rd # <<>> => mem_rd[1] \in Quad /\ mem_rd = <<mem_rd[1]>>)
  BY OneIsSeq DEF Shapes
<1>6. Len(mem_pending) \in Nat /\ Len(mem_req_reg) \in 0 .. 2
  <2> DEFINE l == Len(mem_req_reg)
  <2>1. Len(mem_pending) \in Nat /\ l \in Nat /\ l <= 2
    BY DEF Shapes
  <2> HIDE DEF l
  <2>2. l \in 0 .. 2
    BY <2>1
  <2> QED
    BY <2>1, <2>2 DEF l
<1>7. Tags \in Seq(Tag) /\ Len(Tags) \in Nat
  <2>1. Tags \in Seq(Tag)
    BY ErWords DEF Shapes, Tags
  <2> QED
    BY <2>1
<1> QED
  BY <1>1, <1>2, <1>3, <1>4, <1>5, <1>6, <1>7

(* The row as a queue.                                                       *)
Entering ==
    IF req_buf_hs THEN <<second_part(req_buf[1])>>
    ELSE IF lsu_hs /\ (dcache[1].cmd = "write" \/ missing) THEN <<first_part(dcache[1])>>
    ELSE <<>>

LEMMA RowShape ==
    ASSUME Shapes
    PROVE  /\ Row \in Seq(Part) /\ Len(Row) \in 0 .. 3 /\ Len(Row) = Len(mem_req_reg) + Num(mem_req # <<>>)
           /\ \A i \in 1 .. Len(Row) : Row[i] \in Part
           /\ mem_req_reg # <<>> => Len(Row) >= 1 /\ Row[1] = mem_req_reg[1]
           /\ mem_req # <<>> => Len(Row) >= 1 /\ Row[Len(Row)] = mem_req[1]
<1>1. mem_req_reg \in Seq(Part) /\ mem_req \in Seq(Part)
  BY OneIsSeq DEF Shapes
<1> DEFINE l == Len(mem_req_reg)
           k == Len(mem_req)
<1>2. l \in 0 .. 2 /\ k = Num(mem_req # <<>>) /\ (mem_req_reg # <<>> => l >= 1)
  <2>1. l \in 0 .. 2 /\ k = Num(mem_req # <<>>)
    BY Lengths
  <2>2. mem_req_reg # <<>> => l >= 1
    BY <1>1
  <2> QED
    BY <2>1, <2>2
<1>3. /\ Row \in Seq(Part) /\ Len(Row) = l + k
      /\ \A i \in 1 .. l + k : Row[i] = IF i <= l THEN mem_req_reg[i] ELSE mem_req[i - l]
  BY <1>1, ConcatProperties DEF Row
<1> HIDE DEF l, k
<1>4. Len(Row) \in 0 .. 3 /\ Len(Row) = l + Num(mem_req # <<>>)
  BY <1>2, <1>3 DEF Num
<1>5. mem_req_reg # <<>> => Len(Row) >= 1 /\ Row[1] = mem_req_reg[1]
  BY <1>2, <1>3 DEF Num
<1>6. mem_req # <<>> => Len(Row) >= 1 /\ Row[Len(Row)] = mem_req[1]
  <2>1. mem_req # <<>> => Len(Row) = l + 1 /\ l + 1 \in 1 .. l + k /\ ~(l + 1 <= l) /\ (l + 1) - l = 1
    BY <1>2, <1>3 DEF Num
  <2> QED
    BY <1>2, <1>3, <2>1
<1>7. \A i \in 1 .. Len(Row) : Row[i] \in Part
  BY <1>3
<1> QED
  BY <1>3, <1>4, <1>5, <1>6, <1>7 DEF l

LEMMA Wires ==
    ASSUME NEW request, NEW taken, NEW ready, NEW answers, Goes(request, taken, ready, answers)
    PROVE  /\ Shapes /\ taken \in BOOLEAN /\ ready \in BOOLEAN /\ answers \in BOOLEAN
           /\ ready => mem_req_reg # <<>> /\ Len(mem_pending) < MEM_DEPTH
           /\ answers => mem_pending # <<>>
           /\ ~(lsu_hs /\ req_buf_hs)
           /\ lsu_hs => dcache # <<>> /\ req_buf = <<>> /\ req_buf_tready /\ wr_data_tready
           /\ req_buf_hs => req_buf # <<>> /\ req_buf_tready
           /\ req_buf_tready <=> mem_req = <<>> \/ Len(mem_req_reg) < 2
           /\ ~req_buf_hs /\ req_buf_tready => req_buf = <<>>
           /\ AtMostOneOf(Part, Entering) /\ (Entering # <<>> => req_buf_tready)
<1>1. Shapes /\ taken \in BOOLEAN /\ ready \in BOOLEAN /\ answers \in BOOLEAN
  BY DEF Goes, DataInv, Taken, MemReady, Answers
<1>2. (ready => mem_req_reg # <<>> /\ Len(mem_pending) < MEM_DEPTH) /\ (answers => mem_pending # <<>>)
  BY DEF Goes, MemReady, Answers
<1>3. /\ ~(lsu_hs /\ req_buf_hs)
      /\ lsu_hs => dcache # <<>> /\ req_buf = <<>> /\ req_buf_tready /\ wr_data_tready
      /\ req_buf_hs => req_buf # <<>> /\ req_buf_tready
      /\ req_buf_tready <=> mem_req = <<>> \/ Len(mem_req_reg) < 2
      /\ ~req_buf_hs /\ req_buf_tready => req_buf = <<>>
  BY DEF lsu_hs, lsu_req_tready, req_buf_hs, req_buf_tready, mem_req_tready, RegReady
<1>4. dcache # <<>> => dcache[1] \in Lookup
  BY <1>1, Lengths
<1>5. req_buf # <<>> => req_buf[1] \in Half
  BY <1>1, Lengths
<1>6. AtMostOneOf(Part, Entering) /\ (Entering # <<>> => req_buf_tready)
  <2>1. req_buf_hs => second_part(req_buf[1]) \in Part
    BY <1>3, <1>5, SecondPartType
  <2>2. lsu_hs => first_part(dcache[1]) \in Part
    BY <1>3, <1>4, FirstPartType
  <2> QED
    BY <1>3, <2>1, <2>2 DEF Entering, AtMostOneOf
<1> QED
  BY <1>1, <1>2, <1>3, <1>6

LEMMA RowStep ==
    ASSUME NEW request, NEW taken, NEW ready, NEW answers, Goes(request, taken, ready, answers)
    PROVE  /\ Row' = Cat(Popped(Row, Num(ready)), Entering)
           /\ MovedOn(Part, Row, Num(ready), Entering, Row')
           /\ mem_req_reg' \in Seq(Part) /\ Len(mem_req_reg') <= 2
           /\ AtMostOneOf(Part, mem_req') /\ (Entering # <<>> => mem_req' = Entering)
           /\ ~req_buf_tready => mem_req' = mem_req
<1> DEFINE s == mem_req_reg
           o == mem_req
           e == IF RegReady(s) THEN o ELSE <<>>
           k == Num(ready)
<1>1. /\ s \in Seq(Part) /\ Len(s) <= 2 /\ AtMostOneOf(Part, o) /\ ready \in BOOLEAN
      /\ ready => s # <<>>
  BY Wires DEF Shapes
<1>2. /\ s' = RegStep(s, o, ready)
      /\ o' = IF req_buf_hs THEN <<second_part(req_buf[1])>>
              ELSE IF lsu_hs /\ (dcache[1].cmd = "write" \/ missing) THEN <<first_part(dcache[1])>>
              ELSE IF lsu_hs \/ mem_req_tready THEN <<>> ELSE mem_req
  BY DEF Goes, Edge, Memory, Issue
<1>3. k = Num(ready /\ s # <<>>) /\ k \in {0, 1}
  BY <1>1 DEF Num
<1>4. Row' = Cat(s', o') /\ Row = Cat(s, o)
  BY DEF Row, Cat
<1>5. /\ req_buf_tready <=> o = <<>> \/ RegReady(s)
      /\ AtMostOneOf(Part, Entering) /\ (Entering # <<>> => req_buf_tready)
      /\ lsu_hs \/ req_buf_hs => req_buf_tready
  BY Wires DEF RegReady
<1>6. /\ req_buf_tready => o' = Entering
      /\ ~req_buf_tready => o' = o /\ Entering = <<>>
  <2>1. CASE req_buf_hs
    BY <1>2, <1>5, <2>1 DEF Entering
  <2>2. CASE ~req_buf_hs /\ lsu_hs
    BY <1>2, <1>5, <2>2 DEF Entering
  <2>3. CASE ~req_buf_hs /\ ~lsu_hs
    <3>1. Entering = <<>> /\ o' = IF mem_req_tready THEN <<>> ELSE o
      BY <1>2, <2>3 DEF Entering
    <3>2. mem_req_tready <=> RegReady(s)
      BY DEF mem_req_tready
    <3> QED
      BY <1>5, <3>1, <3>2
  <2> QED
    BY <2>1, <2>2, <2>3
<1>7. /\ s' = Cat(Popped(s, k), e) /\ s' \in Seq(Part) /\ Len(s') <= 2 /\ AtMostOneOf(Part, e)
  <2> HIDE DEF s, o
  <2>1. LET kk == Num(ready /\ s # <<>>)
            ee == IF RegReady(s) THEN o ELSE <<>>
        IN  /\ RegStep(s, o, ready) = Cat(Popped(s, kk), ee) /\ AtMostOneOf(Part, ee)
            /\ RegStep(s, o, ready) \in Seq(Part) /\ Len(RegStep(s, o, ready)) <= 2
    BY <1>1, SkidStep
  <2> QED
    BY <1>2, <1>3, <2>1
<1>8. o \in Seq(Part) /\ Entering \in Seq(Part) /\ Popped(s, k) \in Seq(Part) /\ <<>> \in Seq(Part)
  <2>1. ready => Tail(s) \in Seq(Part)
    BY <1>1, HeadAndTail
  <2> QED
    BY <1>1, <1>5, <2>1, OneIsSeq DEF Popped, Num
<1>9. Popped(Cat(s, o), k) = Cat(Popped(s, k), o)
  <2>1. CASE ready
    <3>1. Head(s) \in Part /\ Tail(s) \in Seq(Part) /\ Cat(<<Head(s)>>, Tail(s)) = s
      BY <1>1, <2>1, HeadAndTail DEF Cat
    <3> DEFINE h == Head(s)
               t == Tail(s)
    <3>2. h \in Part /\ t \in Seq(Part) /\ s = Cat(<<h>>, t)
      BY <3>1
    <3> HIDE DEF h, t
    <3>3. <<h>> \in Seq(Part)
      BY <3>2
    <3>4. Cat(s, o) = Cat(<<h>>, Cat(t, o)) /\ Cat(t, o) \in Seq(Part)
      <4>1. Cat(Cat(<<h>>, t), o) = Cat(<<h>>, Cat(t, o)) /\ Cat(t, o) \in Seq(Part)
        <5>1. \A a, b, c \in Seq(Part) : Cat(Cat(a, b), c) = Cat(a, Cat(b, c)) /\ Cat(b, c) \in Seq(Part)
          BY CatFacts
        <5>2. o \in Seq(Part)
          BY <1>8
        <5> HIDE DEF s, o, k
        <5> QED
          BY <3>2, <3>3, <5>1, <5>2
      <4> QED
        BY <3>2, <4>1
    <3>5. Tail(Cat(<<h>>, Cat(t, o))) = Cat(t, o)
      BY <3>2, <3>4, CatFacts
    <3> QED
      BY <2>1, <3>4, <3>5 DEF t, Popped, Num
  <2>2. CASE ~ready
    BY <2>2 DEF Popped, Num
  <2> QED
    BY <1>1, <2>1, <2>2
<1>10. Row' = Cat(Popped(Row, k), Entering)
  <2> HIDE DEF s, o, k
  <2>1. CASE req_buf_tready
    <3>1. e = o
      BY <1>5, <2>1
    <3> QED
      BY <1>4, <1>6, <1>7, <1>9, <2>1, <3>1
  <2>2. CASE ~req_buf_tready
    <3>1. e = <<>> /\ Cat(Popped(s, k), <<>>) = Popped(s, k)
      BY <1>5, <1>8, <2>2, CatFacts
    <3>2. Cat(Cat(Popped(s, k), o), <<>>) = Cat(Popped(s, k), o)
      <4>1. Cat(Popped(s, k), o) \in Seq(Part)
        BY <1>8, CatFacts
      <4> QED
        BY <4>1, CatFacts
    <3> QED
      BY <1>4, <1>6, <1>7, <1>9, <2>2, <3>1, <3>2
  <2> QED
    BY <2>1, <2>2
<1>11. MovedOn(Part, Row, k, Entering, Row')
  <2>1. Row \in Seq(Part) /\ (k = 1 => Row # <<>>)
    <3>1. Row \in Seq(Part) /\ (mem_req_reg # <<>> => Len(Row) >= 1)
      BY Wires, RowShape
    <3>2. ready => Len(Row) >= 1
      BY <1>1, <3>1
    <3> QED
      BY <1>1, <3>1, <3>2 DEF Num
  <2> HIDE DEF k
  <2> QED
    BY <1>3, <1>5, <1>10, <2>1, Moved
<1>12. AtMostOneOf(Part, o')
  BY <1>1, <1>5, <1>6
<1> QED
  BY <1>5, <1>6, <1>7, <1>10, <1>11, <1>12

-----------------------------------------------------------------------------
(* What the requests ahead leave of the memory, and how many of them read.   *)
LEMMA BeforeType ==
    ASSUME Shapes
    PROVE  /\ \A i \in 1 .. Len(Row) + 1 : Before(i) \in [Addr -> Byte]
           /\ BehindRow \in [Addr -> Byte] /\ BehindBuf \in [Addr -> Byte]
<1>1. store \in [Addr -> Byte] /\ Len(Row) \in 0 .. 3 /\ \A i \in 1 .. Len(Row) : Row[i] \in Part
  BY RowShape DEF Shapes
<1>2. \A m \in [Addr -> Byte], p \in Part : Wrote(m, p) \in [Addr -> Byte]
  BY WroteFacts
<1> DEFINE l == Len(Row)
           p1 == Row[1]
           p2 == Row[2]
           p3 == Row[3]
<1>3. /\ l \in 0 .. 3 /\ (l >= 1 => p1 \in Part) /\ (l >= 2 => p2 \in Part) /\ (l >= 3 => p3 \in Part)
      /\ \A i \in 1 .. l + 1 : Before(i) = IF i = 1 THEN store
             ELSE IF i = 2 THEN Wrote(store, p1)
             ELSE IF i = 3 THEN Wrote(Wrote(store, p1), p2)
             ELSE Wrote(Wrote(Wrote(store, p1), p2), p3)
  BY <1>1 DEF Before
<1> HIDE DEF p1, p2, p3
<1>4. \A i \in 1 .. l + 1 : Before(i) \in [Addr -> Byte]
  <2> HIDE DEF l
  <2> SUFFICES ASSUME NEW i \in 1 .. l + 1 PROVE Before(i) \in [Addr -> Byte]
    OBVIOUS
  <2>1. CASE i = 1
    BY <1>1, <1>3, <2>1
  <2>2. l >= 1 => Wrote(store, p1) \in [Addr -> Byte]
    BY <1>1, <1>2, <1>3
  <2>3. l >= 2 => Wrote(Wrote(store, p1), p2) \in [Addr -> Byte]
    BY <1>2, <1>3, <2>2
  <2>4. l >= 3 => Wrote(Wrote(Wrote(store, p1), p2), p3) \in [Addr -> Byte]
    BY <1>2, <1>3, <2>3
  <2>5. i \in 1 .. 4 /\ i <= l + 1
    BY <1>3
  <2> QED
    BY <1>3, <2>1, <2>2, <2>3, <2>4, <2>5
<1>5. BehindRow \in [Addr -> Byte]
  BY <1>3, <1>4 DEF BehindRow
<1>6. req_buf # <<>> => second_part(req_buf[1]) \in Part
  BY Lengths, SecondPartType
<1>7. BehindBuf \in [Addr -> Byte]
  BY <1>2, <1>5, <1>6 DEF BehindBuf
<1> QED
  BY <1>4, <1>5, <1>7

LEMMA RoomInRow ==
    ASSUME NEW request, NEW taken, NEW ready, NEW answers, Goes(request, taken, ready, answers),
           Entering # <<>>
    PROVE  Len(Row) <= 2
<1> DEFINE r == Len(mem_req_reg)
<1>1. mem_req = <<>> \/ r < 2
  BY Wires
<1>2. Len(Row) = r + Num(mem_req # <<>>) /\ r \in 0 .. 2
  BY Wires, RowShape, Lengths
<1> HIDE DEF r
<1> QED
  BY <1>1, <1>2 DEF Num

(* The step of the memory.                                                   *)
LEMMA MemoryStep ==
    ASSUME NEW request, NEW taken, NEW ready, NEW answers, Goes(request, taken, ready, answers)
    PROVE  /\ ready => Len(Row) >= 1 /\ Row[1] \in Part
           /\ store' = IF ready THEN Wrote(store, Row[1]) ELSE store
           /\ mem_pending' = Cat(Popped(mem_pending, Num(answers)),
                                 IF ready /\ IsRead(1) THEN <<bytes_of(Row[1].cell, store)>> ELSE <<>>)
           /\ mem_rd' = IF answers THEN <<mem_pending[1]>> ELSE <<>>
<1>1. ready \in BOOLEAN /\ answers \in BOOLEAN /\ (ready => mem_req_reg # <<>>)
      /\ (answers => mem_pending # <<>>) /\ mem_pending \in Seq(Quad) /\ Shapes
  BY Wires DEF Shapes
<1>2. ready => /\ Len(Row) >= 1 /\ Row[1] \in Part /\ Row[1] = mem_req_reg[1]
               /\ RegOut(mem_req_reg) = <<Row[1]>>
  <2>1. ready => Len(Row) >= 1 /\ Row[1] = mem_req_reg[1] /\ Len(Row) \in 0 .. 3
                 /\ \A i \in 1 .. Len(Row) : Row[i] \in Part
    BY <1>1, RowShape
  <2>2. ready => Head(mem_req_reg) = mem_req_reg[1]
    BY <1>1 DEF Shapes
  <2> QED
    BY <1>1, <2>1, <2>2 DEF RegOut
<1> DEFINE req == IF ready THEN RegOut(mem_req_reg) ELSE <<>>
           left == IF answers THEN Tail(mem_pending) ELSE mem_pending
           p == Row[1]
<1>3. /\ store' = IF req # <<>> /\ req[1].cmd = "write" THEN stored(req[1]) ELSE store
      /\ mem_pending' = IF req # <<>> /\ req[1].cmd = "read"
                        THEN Append(left, bytes_of(req[1].cell, store)) ELSE left
      /\ mem_rd' = IF answers THEN <<Head(mem_pending)>> ELSE <<>>
  BY DEF Goes, Edge, Memory
<1>4. req = IF ready THEN <<p>> ELSE <<>>
  BY <1>2
<1>5. IsRead(1) <=> Len(Row) >= 1 /\ p.cmd = "read"
  <2>1. Len(Row) \in 0 .. 3
    BY <1>1, RowShape
  <2> QED
    BY <2>1 DEF IsRead
<1>6. ready => p.cmd \in Cmds
  BY <1>2 DEF Part
<1> HIDE DEF req, p
<1>7. store' = IF ready THEN Wrote(store, p) ELSE store
  <2>1. CASE ready /\ p.cmd = "write"
    BY <1>3, <1>4, <2>1, StoredIsWrote
  <2>2. CASE ready /\ p.cmd # "write"
    <3>1. Wrote(store, p) = store
      BY <2>2 DEF Wrote
    <3> QED
      BY <1>3, <1>4, <2>2, <3>1
  <2>3. CASE ~ready
    BY <1>3, <1>4, <2>3
  <2> QED
    BY <2>1, <2>2, <2>3
<1>8. left = Popped(mem_pending, Num(answers)) /\ left \in Seq(Quad)
  <2>1. answers => Tail(mem_pending) \in Seq(Quad)
    BY <1>1, HeadAndTail
  <2> QED
    BY <1>1, <2>1 DEF Popped, Num
<1> HIDE DEF left
<1>9. mem_pending' = Cat(left, IF ready /\ IsRead(1) THEN <<bytes_of(p.cell, store)>> ELSE <<>>)
  <2>1. CASE ready /\ IsRead(1)
    <3>1. bytes_of(p.cell, store) \in Quad
      BY <1>1, <1>2, <2>1, BytesOf DEF p, Part, Shapes
    <3>2. mem_pending' = Append(left, bytes_of(p.cell, store))
      BY <1>3, <1>4, <1>5, <2>1
    <3>3. Append(left, bytes_of(p.cell, store)) = left \o <<bytes_of(p.cell, store)>>
      BY <1>8, <3>1, AppendIsConcat
    <3> QED
      BY <2>1, <3>2, <3>3 DEF Cat
  <2>2. CASE ~(ready /\ IsRead(1))
    <3>1. mem_pending' = left
      BY <1>2, <1>3, <1>4, <1>5, <2>2
    <3>2. Cat(left, <<>>) = left
      BY <1>8, CatFacts
    <3> QED
      BY <2>2, <3>1, <3>2
  <2> QED
    BY <2>1, <2>2
<1>10. mem_rd' = IF answers THEN <<mem_pending[1]>> ELSE <<>>
  BY <1>1, <1>3
<1> QED
  BY <1>2, <1>7, <1>8, <1>9, <1>10 DEF p

LEMMA BeforeStep ==
    ASSUME NEW request, NEW taken, NEW ready, NEW answers, Goes(request, taken, ready, answers)
    PROVE  /\ Num(ready) \in {0, 1} /\ Num(ready) <= Len(Row)
           /\ Len(Row') = (Len(Row) - Num(ready)) + Len(Entering)
           /\ \A i \in 1 .. (Len(Row) - Num(ready)) + 1 : Before(i)' = Before(i + Num(ready))
           /\ BehindRow' = IF Entering # <<>> THEN Wrote(BehindRow, Entering[1]) ELSE BehindRow
<1> DEFINE k == Num(ready)
           l == Len(Row)
           E == Entering
<1>1. /\ ready \in BOOLEAN /\ l \in 0 .. 3 /\ AtMostOneOf(Part, E)
      /\ ready => l >= 1
      /\ store' = IF ready THEN Wrote(store, Row[1]) ELSE store
  BY Wires, RowShape, MemoryStep
<1>2. k \in {0, 1} /\ (k = 1 <=> ready) /\ k <= l
  BY <1>1 DEF Num
<1>3. /\ Len(Row') = (l - k) + Len(E)
      /\ \A i \in 1 .. l - k : Row'[i] = Row[i + k]
      /\ E # <<>> => Row'[(l - k) + 1] = E[1]
  BY RowStep DEF MovedOn
<1>4. Len(E) = Num(E # <<>>)
  BY <1>1, OneIsSeq
<1> DEFINE r(i) == Row'[i]
           s(i) == Row[i]
           B(i) == IF i = 1 THEN store
             ELSE IF i = 2 THEN Wrote(store, s(1))
             ELSE IF i = 3 THEN Wrote(Wrote(store, s(1)), s(2))
             ELSE Wrote(Wrote(Wrote(store, s(1)), s(2)), s(3))
           C(i) == IF i = 1 THEN store'
             ELSE IF i = 2 THEN Wrote(store', r(1))
             ELSE IF i = 3 THEN Wrote(Wrote(store', r(1)), r(2))
             ELSE Wrote(Wrote(Wrote(store', r(1)), r(2)), r(3))
<1>5. \A i : Before(i) = B(i) /\ Before(i)' = C(i)
  BY DEF Before, Wrote
<1>6. /\ \A i \in 1 .. l - k : r(i) = s(i + k)
      /\ E # <<>> => r((l - k) + 1) = E[1]
      /\ store' = IF k = 1 THEN Wrote(store, s(1)) ELSE store
  BY <1>1, <1>2, <1>3
<1> HIDE DEF r, s, k, l, E
<1>7. \A i \in 1 .. (l - k) + 1 : C(i) = B(i + k)
  <2> SUFFICES ASSUME NEW i \in 1 .. (l - k) + 1 PROVE C(i) = B(i + k)
    OBVIOUS
  <2>0. i \in 1 .. 4 /\ i + k <= l + 1 /\ k \in {0, 1} /\ l \in 0 .. 3
    BY <1>1, <1>2
  <2>1. CASE i = 1
    BY <1>6, <2>0, <2>1
  <2>2. CASE i = 2
    <3>1. 1 \in 1 .. l - k
      BY <2>0, <2>2
    <3>2. r(1) = s(1 + k)
      BY <1>6, <3>1
    <3> QED
      BY <1>6, <2>0, <2>2, <3>2
  <2>3. CASE i = 3
    <3>1. 1 \in 1 .. l - k /\ 2 \in 1 .. l - k
      BY <2>0, <2>3
    <3>2. r(1) = s(1 + k) /\ r(2) = s(2 + k)
      BY <1>6, <3>1
    <3> QED
      BY <1>6, <2>0, <2>3, <3>2
  <2>4. CASE i = 4
    <3>1. k = 0 /\ 1 \in 1 .. l - k /\ 2 \in 1 .. l - k /\ 3 \in 1 .. l - k
      BY <2>0, <2>4
    <3>2. r(1) = s(1 + k) /\ r(2) = s(2 + k) /\ r(3) = s(3 + k)
      BY <1>6, <3>1
    <3> QED
      BY <1>6, <2>4, <3>1, <3>2
  <2> QED
    BY <2>0, <2>1, <2>2, <2>3, <2>4
<1>8. \A i \in {1, 2, 3} : C(i + 1) = Wrote(C(i), r(i))
  OBVIOUS
<1> HIDE DEF B, C
<1>9. ASSUME E = <<>> PROVE BehindRow' = BehindRow
  <2>1. Len(Row') + 1 = (l - k) + 1 /\ (l - k) + 1 \in 1 .. (l - k) + 1 /\ ((l - k) + 1) + k = l + 1
    BY <1>1, <1>2, <1>3, <1>4, <1>9 DEF Num
  <2>2. BehindRow' = C((l - k) + 1) /\ BehindRow = B(l + 1)
    BY <1>5, <2>1 DEF BehindRow, l
  <2> QED
    BY <1>7, <2>1, <2>2
<1>10. ASSUME E # <<>> PROVE BehindRow' = Wrote(BehindRow, E[1])
  <2>0. req_buf_tready
    BY <1>10, Wires DEF E
  <2>1. (l - k) + 1 \in {1, 2, 3}
    <3>1. l <= 2
      BY <1>10, RoomInRow DEF E, l
    <3> QED
      BY <1>1, <1>2, <3>1
  <2>2. Len(Row') + 1 = ((l - k) + 1) + 1 /\ (l - k) + 1 \in 1 .. (l - k) + 1 /\ ((l - k) + 1) + k = l + 1
    BY <1>1, <1>2, <1>3, <1>4, <1>10 DEF Num
  <2>3. BehindRow' = C(((l - k) + 1) + 1) /\ BehindRow = B(l + 1)
    BY <1>5, <2>2 DEF BehindRow, l
  <2>4. C(((l - k) + 1) + 1) = Wrote(C((l - k) + 1), r((l - k) + 1))
    BY <1>8, <2>1
  <2> QED
    BY <1>6, <1>7, <1>10, <2>2, <2>3, <2>4
<1>11. \A i \in 1 .. (l - k) + 1 : Before(i)' = Before(i + k)
  BY <1>5, <1>7
<1> QED
  BY <1>2, <1>3, <1>9, <1>10, <1>11 DEF k, l, E

(* The reads of the row.                                                     *)
LEMMA NthFacts ==
    ASSUME Shapes
    PROVE  /\ \A i \in 0 .. 3 : Nth(i) \in 0 .. 3
           /\ \A i, j \in 1 .. Len(Row) : i <= j => Nth(i) <= Nth(j) /\ Nth(j) <= Nth(3)
           /\ \A i, j \in 1 .. Len(Row) : i < j /\ IsRead(j) => Nth(i) < Nth(j)
           /\ \A i \in 1 .. Len(Row) : IsRead(i) => Nth(i) >= 1
           /\ Nth(3) <= Len(Row) /\ Nth(3) = Nth(Len(Row))
<1>1. Len(Row) \in 0 .. 3
  BY RowShape
<1> DEFINE l == Len(Row)
           a == Num(IsRead(1))
           b == Num(IsRead(2))
           c == Num(IsRead(3))
<1>2. /\ a \in {0, 1} /\ b \in {0, 1} /\ c \in {0, 1}
      /\ l < 1 => a = 0
      /\ l < 2 => b = 0
      /\ l < 3 => c = 0
      /\ IsRead(1) <=> a = 1
      /\ IsRead(2) <=> b = 1
      /\ IsRead(3) <=> c = 1
  BY <1>1 DEF Num, IsRead
<1>3. \A i : Nth(i) = IF i = 0 THEN 0 ELSE IF i = 1 THEN a ELSE IF i = 2 THEN a + b ELSE (a + b) + c
  BY DEF Nth
<1>4. l \in 0 .. 3
  BY <1>1
<1> HIDE DEF a, b, c, l
<1>5. \A i \in 0 .. 3 : Nth(i) \in 0 .. 3
  BY <1>2, <1>3
<1>6. \A i, j \in 1 .. l : i <= j => Nth(i) <= Nth(j) /\ Nth(j) <= Nth(3)
  BY <1>2, <1>3, <1>4
<1>7. \A i \in 1 .. l : IsRead(i) => Nth(i) >= 1
  <2> SUFFICES ASSUME NEW i \in 1 .. l, IsRead(i) PROVE Nth(i) >= 1
    OBVIOUS
  <2>1. i = 1 \/ i = 2 \/ i = 3
    BY <1>4
  <2> QED
    BY <1>2, <1>3, <2>1
<1>8. \A i, j \in 1 .. l : i < j /\ IsRead(j) => Nth(i) < Nth(j)
  <2> SUFFICES ASSUME NEW i \in 1 .. l, NEW j \in 1 .. l, i < j, IsRead(j) PROVE Nth(i) < Nth(j)
    OBVIOUS
  <2>1. (j = 2 /\ i = 1) \/ (j = 3 /\ i \in {1, 2})
    BY <1>4
  <2>2. CASE j = 2
    BY <1>2, <1>3, <2>1, <2>2
  <2>3. CASE j = 3
    BY <1>2, <1>3, <2>1, <2>3
  <2> QED
    BY <2>1, <2>2, <2>3
<1>9. Nth(3) <= l /\ Nth(3) = Nth(l)
  BY <1>2, <1>3, <1>4
<1> QED
  BY <1>5, <1>6, <1>7, <1>8, <1>9 DEF l

LEMMA NthStep ==
    ASSUME NEW request, NEW taken, NEW ready, NEW answers, Goes(request, taken, ready, answers),
           NEW n, n = Len(Row) - Num(ready)
    PROVE  LET k == Num(ready)
               went == Num(ready /\ IsRead(1))
           IN  /\ \A i \in 1 .. n : (IsRead(i)' <=> IsRead(i + k)) /\ Nth(i)' = Nth(i + k) - went
               /\ Entering # <<>> => (IsRead(n + 1)' <=> Entering[1].cmd = "read")
               /\ Nth(3)' = (Nth(3) - went) + Num(Entering # <<>> /\ Entering[1].cmd = "read")
               /\ Entering # <<>> => \A i : i = n + 1 => Nth(i)' = Nth(3)'
<1> DEFINE k == Num(ready)
           l == Len(Row)
           E == Entering
           w == Num(ready /\ IsRead(1))
           q(i) == Num(IsRead(i))
           p(i) == Num(IsRead(i)')
           e == Num(E # <<>> /\ E[1].cmd = "read")
<1>1. l \in 0 .. 3 /\ k \in {0, 1} /\ k <= l /\ (k = 1 <=> ready) /\ n \in 0 .. 3 /\ n = l - k
  <2>1. l \in 0 .. 3 /\ k \in {0, 1} /\ k <= l
    BY Wires, RowShape, BeforeStep
  <2>2. k = 1 <=> ready
    BY Wires DEF Num
  <2>3. n = l - k
    OBVIOUS
  <2> HIDE DEF k, l
  <2> QED
    BY <2>1, <2>2, <2>3
<1>2. /\ Len(Row') = n + Len(E) /\ Len(E) = Num(E # <<>>)
      /\ \A i \in 1 .. n : Row'[i] = Row[i + k]
      /\ E # <<>> => Row'[n + 1] = E[1]
  <2>1. AtMostOneOf(Part, E)
    BY Wires
  <2> QED
    BY <2>1, RowStep, OneIsSeq DEF MovedOn
<1>3. ASSUME NEW i \in 1 .. n PROVE IsRead(i)' <=> IsRead(i + k)
  <2>1. i <= Len(Row') /\ i + k <= Len(Row) /\ Row'[i] = Row[i + k]
    BY <1>1, <1>2 DEF Num
  <2> QED
    BY <2>1 DEF IsRead
<1>4. E # <<>> => (IsRead(n + 1)' <=> E[1].cmd = "read")
  <2>1. E # <<>> => n + 1 = Len(Row') /\ n + 1 <= Len(Row')
    BY <1>1, <1>2 DEF Num
  <2> QED
    BY <1>2, <2>1 DEF IsRead
<1>5. \A i \in 1 .. 3 : i > Len(Row') => ~IsRead(i)'
  <2> DEFINE r == Len(Row')
  <2>1. r \in Nat
    BY <1>1, <1>2 DEF Num
  <2>2. \A i \in 1 .. 3 : IsRead(i)' => i <= r
    BY DEF IsRead
  <2> HIDE DEF r
  <2>3. \A i \in 1 .. 3 : i > r => ~IsRead(i)'
    BY <2>1, <2>2
  <2> QED
    BY <2>3 DEF r
<1>6. \A i \in 1 .. 3 : i > l => ~IsRead(i)
  <2> SUFFICES ASSUME NEW i \in 1 .. 3, i > l, IsRead(i) PROVE FALSE
    OBVIOUS
  <2>1. i <= l
    BY DEF IsRead
  <2> HIDE DEF l
  <2> QED
    BY <1>1, <2>1
<1>7. \A i \in 1 .. n : p(i) = q(i + k)
  <2> SUFFICES ASSUME NEW i \in 1 .. n PROVE p(i) = q(i + k)
    OBVIOUS
  <2>1. IsRead(i)' <=> IsRead(i + k)
    BY <1>3
  <2>2. CASE IsRead(i + k)
    BY <2>1, <2>2 DEF Num
  <2>3. CASE ~IsRead(i + k)
    BY <2>1, <2>3 DEF Num
  <2> QED
    BY <2>2, <2>3
<1>8. /\ E # <<>> => p(n + 1) = e
      /\ E = <<>> => e = 0
      /\ E = <<>> => \A i \in 1 .. 3 : i > n => p(i) = 0
      /\ E # <<>> => \A i \in 1 .. 3 : i > n + 1 => p(i) = 0
      /\ \A i \in 1 .. 3 : i > l => q(i) = 0
      /\ w = IF k = 1 THEN q(1) ELSE 0
      /\ E # <<>> => n + 1 <= 3
      /\ \A i \in 1 .. 4 : p(i) \in {0, 1} /\ q(i) \in {0, 1}
      /\ e \in {0, 1}
  <2>1. E # <<>> => p(n + 1) = e
    BY <1>4 DEF Num
  <2>2. E = <<>> => e = 0
    BY DEF Num
  <2>3. E = <<>> => \A i \in 1 .. 3 : i > n => p(i) = 0
    BY <1>1, <1>2, <1>5 DEF Num
  <2>4. E # <<>> => \A i \in 1 .. 3 : i > n + 1 => p(i) = 0
    BY <1>1, <1>2, <1>5 DEF Num
  <2>5. \A i \in 1 .. 3 : i > l => q(i) = 0
    BY <1>6 DEF Num
  <2>6. w = IF k = 1 THEN q(1) ELSE 0
    BY <1>1 DEF Num
  <2>7. E # <<>> => n + 1 <= 3
    <3>1. E # <<>> => l <= 2
      BY RoomInRow
    <3> QED
      BY <1>1, <3>1
  <2>8. \A i \in 1 .. 4 : p(i) \in {0, 1} /\ q(i) \in {0, 1}
    BY DEF Num
  <2>9. e \in {0, 1}
    BY DEF Num
  <2> QED
    BY <2>1, <2>2, <2>3, <2>4, <2>5, <2>6, <2>7, <2>8, <2>9
<1>9. /\ \A i : Nth(i) = IF i = 0 THEN 0 ELSE IF i = 1 THEN q(1) ELSE IF i = 2 THEN q(1) + q(2) ELSE (q(1) + q(2)) + q(3)
      /\ \A i : Nth(i)' = IF i = 0 THEN 0 ELSE IF i = 1 THEN p(1) ELSE IF i = 2 THEN p(1) + p(2) ELSE (p(1) + p(2)) + p(3)
  BY DEF Nth, Num
<1> HIDE DEF p, q, e, w, E, k, l
<1>10. ASSUME NEW i \in 1 .. n PROVE Nth(i)' = Nth(i + k) - w
  <2>1. n = l - k /\ i + k <= 3 /\ i \in {1, 2, 3} /\ (i = 3 => k = 0)
    BY <1>1
  <2>2. /\ i >= 1 => p(1) = q(1 + k)
        /\ i >= 2 => p(2) = q(2 + k)
        /\ i >= 3 => p(3) = q(3 + k)
    BY <1>1, <1>7
  <2>3. \A j \in 1 .. 4 : q(j) \in Int
    BY <1>8
  <2>4. CASE k = 0
    BY <1>8, <1>9, <2>1, <2>2, <2>3, <2>4
  <2>5. CASE k = 1
    <3>1. w = q(1) /\ i \in {1, 2} /\ p(1) = q(2) /\ (i = 2 => p(2) = q(3))
      BY <1>8, <2>1, <2>2, <2>5
    <3> QED
      BY <1>9, <2>3, <2>5, <3>1
  <2> QED
    BY <1>1, <2>4, <2>5
<1>11. Nth(3)' = (Nth(3) - w) + e
  <2>1. /\ n = l - k /\ l \in 0 .. 3 /\ k \in {0, 1} /\ k <= l
    BY <1>1
  <2>2. Nth(3)' = (p(1) + p(2)) + p(3) /\ Nth(3) = (q(1) + q(2)) + q(3)
    BY <1>9
  <2>3. /\ n >= 1 => p(1) = q(1 + k)
        /\ n >= 2 => p(2) = q(2 + k)
        /\ n >= 3 => p(3) = q(3 + k)
    BY <1>1, <1>7
  <2>4. /\ E = <<>> => e = 0 /\ (n < 1 => p(1) = 0) /\ (n < 2 => p(2) = 0) /\ (n < 3 => p(3) = 0)
        /\ E # <<>> => /\ (n = 0 => p(1) = e /\ p(2) = 0 /\ p(3) = 0)
                       /\ (n = 1 => p(2) = e /\ p(3) = 0)
                       /\ (n = 2 => p(3) = e) /\ n <= 2
        /\ (l < 1 => q(1) = 0) /\ (l < 2 => q(2) = 0) /\ (l < 3 => q(3) = 0)
        /\ w = IF k = 1 THEN q(1) ELSE 0
    BY <1>1, <1>8
  <2>5. \A j \in 1 .. 3 : p(j) \in Int /\ q(j) \in Int /\ e \in Int
    BY <1>8
  <2>6. CASE k = 0
    <3>1. n = l /\ w = 0
      BY <2>1, <2>4, <2>6
    <3>2. CASE E = <<>>
      BY <2>1, <2>2, <2>3, <2>4, <2>5, <2>6, <3>1, <3>2
    <3>3. CASE E # <<>>
      BY <2>1, <2>2, <2>3, <2>4, <2>5, <2>6, <3>1, <3>3
    <3> QED
      BY <3>2, <3>3
  <2>7. CASE k = 1
    <3>1. n = l - 1 /\ w = q(1) /\ l >= 1
      BY <2>1, <2>4, <2>7
    <3>2. (n >= 1 => p(1) = q(2)) /\ (n >= 2 => p(2) = q(3)) /\ n \in 0 .. 2
      BY <2>1, <2>3, <2>7
    <3>3. CASE E = <<>>
      <4>1. p(3) = 0 /\ e = 0 /\ p(1) = q(2) /\ p(2) = q(3)
        <5>1. CASE n = 0
          BY <2>1, <2>4, <3>1, <3>3, <5>1
        <5>2. CASE n = 1
          BY <2>1, <2>4, <3>1, <3>2, <3>3, <5>2
        <5>3. CASE n = 2
          BY <2>1, <2>4, <3>1, <3>2, <3>3, <5>3
        <5> QED
          BY <3>2, <5>1, <5>2, <5>3
      <4> QED
        BY <2>2, <2>5, <3>1, <4>1
    <3>4. CASE E # <<>>
      <4>1. CASE n = 0
        <5>1. p(1) = e /\ p(2) = 0 /\ p(3) = 0 /\ q(2) = 0 /\ q(3) = 0
          BY <2>1, <2>4, <3>1, <3>4, <4>1
        <5> QED
          BY <2>2, <2>5, <3>1, <5>1
      <4>2. CASE n = 1
        <5>1. p(1) = q(2) /\ p(2) = e /\ p(3) = 0 /\ q(3) = 0
          BY <2>1, <2>4, <3>1, <3>2, <3>4, <4>2
        <5> QED
          BY <2>2, <2>5, <3>1, <5>1
      <4>3. CASE n = 2
        <5>1. p(1) = q(2) /\ p(2) = q(3) /\ p(3) = e
          BY <2>1, <2>4, <3>1, <3>2, <3>4, <4>3
        <5> QED
          BY <2>2, <2>5, <3>1, <5>1
      <4> QED
        BY <3>2, <4>1, <4>2, <4>3
    <3> QED
      BY <3>3, <3>4
  <2> QED
    BY <1>1, <2>6, <2>7
<1>12. ASSUME E # <<>>, NEW i, i = n + 1 PROVE Nth(i)' = Nth(3)'
  <2>1. i \in {1, 2, 3} /\ n + 1 <= 3
    BY <1>1, <1>8, <1>12
  <2>2. (i < 2 => p(2) = 0) /\ (i < 3 => p(3) = 0)
    BY <1>1, <1>8, <1>12, <2>1
  <2>3. p(1) \in Int /\ p(2) \in Int
    BY <1>8
  <2> QED
    BY <1>9, <2>1, <2>2, <2>3
<1> QED
  BY <1>3, <1>4, <1>10, <1>11, <1>12 DEF k, w, E, e, l

-----------------------------------------------------------------------------
(* The tags and the answers of the memory.                                   *)
FirstHalf(d) == [slot |-> wr_addr, tail |-> FALSE, w |-> d.w, lane |-> lane(d.addr)]

LEMMA OfferFacts ==
    ASSUME NEW request, NEW taken, NEW ready, NEW answers, Goes(request, taken, ready, answers)
    PROVE  /\ AtMostOneOf(Tag, tag_offered)
           /\ tag_offered # <<>> <=> (Entering # <<>> /\ Entering[1].cmd = "read")
           /\ req_buf_hs => /\ Entering = <<second_part(req_buf[1])>>
                            /\ req_buf[1].cmd = "read" => tag_offered = <<TailOf(req_buf[1].slot)>>
           /\ ~req_buf_hs /\ Entering # <<>> => lsu_hs /\ Entering = <<first_part(dcache[1])>>
           /\ missing => tag_offered = <<FirstHalf(dcache[1])>> /\ Entering = <<first_part(dcache[1])>>
           /\ ~req_buf_hs /\ tag_offered # <<>> => missing
<1>1. /\ req_buf_hs => req_buf # <<>> /\ req_buf[1] \in Half
      /\ lsu_hs => dcache # <<>> /\ dcache[1] \in Lookup
      /\ ~(lsu_hs /\ req_buf_hs) /\ wr_addr \in Slots
  BY Wires, Lengths DEF Shapes
<1>2. missing => lsu_hs /\ dcache[1].cmd = "read"
  BY DEF missing, adding
<1>3. second_part(req_buf[1]).cmd = req_buf[1].cmd /\ first_part(dcache[1]).cmd = dcache[1].cmd
  BY DEF second_part, first_part
<1>4. lane(0) \in Lanes
  BY Constants DEF lane, Lanes
<1>5. CASE req_buf_hs
  <2>1. TailOf(req_buf[1].slot) \in Tag /\ Entering = <<second_part(req_buf[1])>> /\ ~missing
    BY <1>1, <1>2, <1>4, <1>5 DEF TailOf, Tag, Half, Entering
  <2>2. tag_offered = IF req_buf[1].cmd = "read" THEN <<TailOf(req_buf[1].slot)>> ELSE <<>>
    BY <1>5, <2>1 DEF tag_offered, TailOf
  <2> QED
    BY <1>3, <1>5, <2>1, <2>2 DEF AtMostOneOf
<1>6. CASE ~req_buf_hs /\ missing
  <2>1. FirstHalf(dcache[1]) \in Tag
    <3>1. lane(dcache[1].addr) \in Lanes
      BY <1>1, <1>2, <1>6, CellFacts DEF Lookup
    <3> QED
      BY <1>1, <1>2, <1>6, <3>1 DEF FirstHalf, Tag, Lookup
  <2>2. Entering = <<first_part(dcache[1])>>
    BY <1>2, <1>6 DEF Entering
  <2>3. tag_offered = <<FirstHalf(dcache[1])>>
    BY <1>6 DEF tag_offered, FirstHalf
  <2> QED
    BY <1>2, <1>3, <1>6, <2>1, <2>2, <2>3 DEF AtMostOneOf
<1>7. CASE ~req_buf_hs /\ ~missing
  <2>1. tag_offered = <<>>
    BY <1>7 DEF tag_offered
  <2>2. Entering # <<>> => lsu_hs /\ dcache[1].cmd = "write" /\ Entering = <<first_part(dcache[1])>>
    BY <1>7 DEF Entering
  <2> QED
    BY <1>3, <1>7, <2>1, <2>2 DEF AtMostOneOf
<1> QED
  BY <1>5, <1>6, <1>7

LEMMA TagStep ==
    ASSUME NEW request, NEW taken, NEW ready, NEW answers, Goes(request, taken, ready, answers)
    PROVE  /\ ErMoves(Tag, fifo_0, fifo_0', mem_rd # <<>>, tag_offered)
           /\ MovedOn(Tag, Tags, n_rd, tag_offered, Tags') /\ n_rd \in {0, 1}
           /\ mem_rd # <<>> => fifo_0.res = <<Tags[1]>> /\ Len(Tags) >= 1
<1> DEFINE q == Len(fifo_0.q)
           r == Num(fifo_0.res # <<>>)
           b == Num(fifo_0.bram # <<>>)
           m == Num(mem_req # <<>> /\ mem_req[1].cmd = "read")
           t == Len(Tags)
           l == Len(Row)
           p == Len(mem_pending)
<1>1. /\ ErShape(fifo_0, Tag) /\ AtMostOneOf(Tag, tag_offered) /\ n_rd = Num(mem_rd # <<>>)
      /\ p \in Nat /\ p + n_rd <= MEM_DEPTH
  BY Wires, Lengths, OfferFacts DEF Shapes, n_rd
<1>2. /\ Tags \in Seq(Tag) /\ t = (r + b) + q /\ q \in Nat
      /\ fifo_0.res # <<>> => Tags # <<>> /\ fifo_0.res = <<Tags[1]>>
  <2>1. q \in Nat
    BY <1>1 DEF ErShape
  <2> QED
    BY <1>1, <2>1, ErWords DEF Tags
<1>3. t = (n_rd + p) + Nth(3) /\ Nth(3) <= l /\ Nth(3) \in 0 .. 3 /\ l \in 0 .. 3
  BY Wires, NthFacts, RowShape DEF Goes, DataInv, AnswersFit, n_came
<1>4. (b = 0 => q <= m) /\ (r = 0 => q <= m /\ n_rd + p = 0) /\ m \in {0, 1} /\ r \in {0, 1} /\ b \in {0, 1}
  BY DEF Goes, DataInv, TagsInTime, n_came, Num
<1>5. mem_rd # <<>> => fifo_0.res # <<>>
  <2>1. mem_rd # <<>> => n_rd = 1
    BY <1>1 DEF Num
  <2>2. fifo_0.res = <<>> => r = 0
    BY DEF Num
  <2> HIDE DEF p, r, q, m
  <2> QED
    BY <1>1, <1>4, <2>1, <2>2
<1>6. tag_offered # <<>> => l <= 2
  BY OfferFacts, RoomInRow
<1>7. tag_offered # <<>> => q # TAG_DEPTH - 1
  <2>1. n_rd \in {0, 1}
    BY <1>1 DEF Num
  <2> HIDE DEF q, r, b, m, t, l, p
  <2>2. MEM_DEPTH + 2 <= TAG_DEPTH /\ MEM_DEPTH > 0 /\ MEM_DEPTH \in Nat /\ TAG_DEPTH \in Nat
    BY Constants
  <2> QED
    BY <1>1, <1>2, <1>3, <1>4, <1>6, <2>1, <2>2
<1>8. fifo_0' = FifoErStep(fifo_0, TAG_DEPTH, tag_offered, mem_rd # <<>>)
  BY DEF Goes, Edge, Issue
<1>9. ErMoves(Tag, fifo_0, fifo_0', mem_rd # <<>>, tag_offered)
  <2>1. tag_offered # <<>> => FifoReady(fifo_0, TAG_DEPTH)
    BY <1>7 DEF FifoReady
  <2>2. (mem_rd # <<>>) \in BOOLEAN
    OBVIOUS
  <2> QED
    BY <1>1, <1>5, <1>8, <2>1, <2>2, ErStep
<1>10. MovedOn(Tag, Tags, n_rd, tag_offered, Tags') /\ n_rd \in {0, 1}
  <2>1. Tags' = Cat(Popped(Tags, n_rd), tag_offered)
    BY <1>1, <1>9 DEF ErMoves, Tags
  <2>2. n_rd \in {0, 1} /\ (n_rd = 1 => mem_rd # <<>>)
    BY <1>1 DEF Num
  <2>3. n_rd = 1 => Tags # <<>>
    BY <1>2, <1>5, <2>2
  <2> QED
    BY <1>1, <1>2, <2>1, <2>2, <2>3, Moved
<1>11. fifo_0.res # <<>> => t >= 1
  BY <1>2
<1> QED
  BY <1>2, <1>5, <1>9, <1>10, <1>11

LEMMA CameStep ==
    ASSUME NEW request, NEW taken, NEW ready, NEW answers, Goes(request, taken, ready, answers)
    PROVE  /\ n_came' = (n_came - n_rd) + Num(ready /\ IsRead(1)) /\ n_came - n_rd \in Nat
           /\ \A i \in 1 .. n_came - n_rd : Came(i)' = Came(i + n_rd)
           /\ ready /\ IsRead(1) => \A i : i = (n_came - n_rd) + 1 => Came(i)' = bytes_of(Row[1].cell, store)
           /\ mem_pending' \in Seq(Quad) /\ AtMostOneOf(Quad, mem_rd')
           /\ Len(mem_pending') + Len(mem_rd') <= MEM_DEPTH
<1> DEFINE p == Len(mem_pending)
           k == Num(answers)
           o == IF ready /\ IsRead(1) THEN <<bytes_of(Row[1].cell, store)>> ELSE <<>>
           w == Num(ready /\ IsRead(1))
<1>1. /\ mem_pending \in Seq(Quad) /\ p \in Nat /\ answers \in BOOLEAN /\ Shapes
      /\ answers => mem_pending # <<>>
      /\ ready => p < MEM_DEPTH
      /\ n_rd + p <= MEM_DEPTH /\ n_rd \in Nat /\ MEM_DEPTH \in Nat
  <2>1. n_rd = Num(mem_rd # <<>>)
    BY Wires, Lengths DEF n_rd
  <2>2. n_rd \in Nat
    BY <2>1 DEF Num
  <2>3. Len(mem_pending) + Len(mem_rd) <= MEM_DEPTH /\ Len(mem_pending) \in Nat
    BY Wires DEF Shapes
  <2> DEFINE a == Len(mem_pending)
             c == Len(mem_rd)
  <2>4. a + c <= MEM_DEPTH /\ a \in Nat /\ c \in Nat
    BY <2>2, <2>3 DEF n_rd
  <2> HIDE DEF a, c
  <2>5. c + a <= MEM_DEPTH
    BY <2>4, Constants
  <2> QED
    BY <2>2, <2>4, <2>5, Wires, Constants DEF Shapes, n_rd, a, c
<1>2. AtMostOneOf(Quad, o) /\ (o # <<>> => ready /\ IsRead(1)) /\ Len(o) = w
  <2>1. ready => Row[1] \in Part
    BY MemoryStep
  <2>2. ready => bytes_of(Row[1].cell, store) \in Quad
    BY <1>1, <2>1, BytesOf DEF Part, Shapes
  <2>3. AtMostOneOf(Quad, o)
    BY <2>2 DEF AtMostOneOf
  <2>4. CASE ready /\ IsRead(1)
    BY <2>3, <2>4, OneIsSeq DEF Num
  <2>5. CASE ~(ready /\ IsRead(1))
    BY <2>3, <2>5, OneIsSeq DEF Num
  <2> QED
    BY <2>3, <2>4, <2>5
<1>3. mem_pending' = Cat(Popped(mem_pending, k), o) /\ mem_rd' = IF answers THEN <<mem_pending[1]>> ELSE <<>>
  BY MemoryStep
<1>4. k \in {0, 1} /\ (k = 1 <=> answers)
  BY <1>1 DEF Num
<1>5. MovedOn(Quad, mem_pending, k, o, mem_pending')
  <2> HIDE DEF o, k
  <2>1. k = 1 => mem_pending # <<>>
    BY <1>1, <1>4
  <2> QED
    BY <1>1, <1>2, <1>3, <1>4, <2>1, Moved
<1>6. /\ mem_pending' \in Seq(Quad) /\ p - k \in Nat
      /\ Len(mem_pending') = (p - k) + w
      /\ \A i \in 1 .. p - k : mem_pending'[i] = mem_pending[i + k]
      /\ o # <<>> => mem_pending'[(p - k) + 1] = o[1]
  <2> HIDE DEF o, k, w
  <2> QED
    BY <1>2, <1>5 DEF MovedOn
<1>7. AtMostOneOf(Quad, mem_rd') /\ Len(mem_rd') = k /\ (k = 1 => mem_rd'[1] = mem_pending[1])
  <2>1. answers => mem_pending[1] \in Quad
    BY <1>1
  <2> QED
    BY <1>3, <1>4, <2>1 DEF AtMostOneOf
<1>8. w \in {0, 1} /\ (w = 1 => ready)
  BY DEF Num
<1>9. n_came = n_rd + p /\ n_came' = k + Len(mem_pending')
  BY <1>7 DEF n_came, n_rd
<1> DEFINE r == n_rd
           c == n_came
<1>10. /\ \A i : Came(i)' = IF i <= k THEN mem_rd'[1] ELSE mem_pending'[i - k]
       /\ \A i : Came(i) = IF i <= r THEN mem_rd[1] ELSE mem_pending[i - r]
  BY <1>7 DEF Came, n_rd
<1> HIDE DEF k, w, p, o, r, c
<1>11. c - r = p
  BY <1>1, <1>9 DEF r, c
<1>12. n_came' = p + w
  BY <1>1, <1>4, <1>6, <1>8, <1>9
<1>13. ASSUME NEW i \in 1 .. p PROVE Came(i)' = Came(i + r)
  <2>1. ~(i + r <= r) /\ (i + r) - r = i
    BY <1>1, <1>13 DEF r
  <2>2. Came(i + r) = mem_pending[i]
    BY <1>10, <2>1
  <2>3. CASE i <= k
    <3>1. i = 1 /\ k = 1
      BY <1>4, <2>3
    <3> QED
      BY <1>7, <1>10, <2>2, <2>3, <3>1
  <2>4. CASE ~(i <= k)
    <3>1. i - k \in 1 .. p - k /\ (i - k) + k = i
      BY <1>1, <1>4, <2>4
    <3> QED
      BY <1>6, <1>10, <2>2, <2>4, <3>1
  <2> QED
    BY <2>3, <2>4
<1>14. ASSUME ready /\ IsRead(1) PROVE \A i : i = p + 1 => Came(i)' = bytes_of(Row[1].cell, store)
  <2>1. o # <<>> /\ o[1] = bytes_of(Row[1].cell, store)
    BY <1>14 DEF o
  <2>2. ~(p + 1 <= k) /\ (p + 1) - k = (p - k) + 1
    BY <1>1, <1>4, <1>6
  <2> QED
    BY <1>6, <1>10, <2>1, <2>2
<1>15. Len(mem_pending') + Len(mem_rd') <= MEM_DEPTH
  <2> DEFINE x == Len(mem_pending')
             y == Len(mem_rd')
  <2>1. x = (p - k) + w /\ y = k
    BY <1>6, <1>7
  <2> HIDE DEF x, y
  <2>2. x + y <= MEM_DEPTH
    BY <1>1, <1>4, <1>8, <2>1
  <2> QED
    BY <2>2 DEF x, y
<1> QED
  BY <1>1, <1>6, <1>7, <1>11, <1>12, <1>13, <1>14, <1>15 DEF r, c, w

(* A read at the end of the row is counted there, beside the one that goes.  *)
LEMMA LastRead ==
    ASSUME NEW request, NEW taken, NEW ready, NEW answers, Goes(request, taken, ready, answers)
    PROVE  Num(mem_req # <<>> /\ mem_req[1].cmd = "read") + Num(ready /\ IsRead(1)) <= Nth(3)
<1> DEFINE m == Num(mem_req # <<>> /\ mem_req[1].cmd = "read")
           w == Num(ready /\ IsRead(1))
           l == Len(Row)
           g == Len(mem_req_reg)
<1>1. /\ l \in 0 .. 3 /\ g \in 0 .. 2 /\ l = g + Num(mem_req # <<>>) /\ (ready => g >= 1)
      /\ mem_req # <<>> => l >= 1 /\ Row[l] = mem_req[1]
  <2>1. /\ l \in 0 .. 3 /\ g \in 0 .. 2 /\ l = g + Num(mem_req # <<>>)
        /\ mem_req # <<>> => l >= 1 /\ Row[l] = mem_req[1]
    BY Wires, RowShape, Lengths
  <2>2. ready => g >= 1
    <3>1. mem_req_reg \in Seq(Part) /\ (ready => mem_req_reg # <<>>)
      BY Wires DEF Shapes
    <3> QED
      BY <3>1
  <2> QED
    BY <2>1, <2>2
<1>2. m \in {0, 1} /\ w \in {0, 1} /\ Nth(3) \in 0 .. 3 /\ Nth(3) = Nth(l) /\ Shapes
  BY Wires, NthFacts DEF Num
<1>3. m = 1 => l \in 1 .. 3 /\ IsRead(l) /\ l = g + 1
  <2>1. m = 1 => mem_req # <<>> /\ mem_req[1].cmd = "read"
    BY DEF Num
  <2>2. l <= Len(Row)
    BY <1>1
  <2> QED
    BY <1>1, <2>1, <2>2 DEF IsRead, Num
<1>4. w = 1 => g >= 1 /\ 1 \in 1 .. l /\ IsRead(1)
  <2>1. w = 1 => ready /\ IsRead(1)
    BY DEF Num
  <2>2. IsRead(1) => l >= 1
    BY DEF IsRead
  <2> HIDE DEF l, g
  <2> QED
    BY <1>1, <2>1, <2>2
<1>5. /\ \A i, j \in 1 .. l : i <= j => Nth(i) <= Nth(j) /\ Nth(j) <= Nth(3)
      /\ \A i, j \in 1 .. l : i < j /\ IsRead(j) => Nth(i) < Nth(j)
      /\ \A i \in 1 .. l : IsRead(i) => Nth(i) >= 1
      /\ \A i \in 0 .. 3 : Nth(i) \in 0 .. 3
  BY Wires, NthFacts
<1> HIDE DEF m, w, l, g
<1>6. m + w <= Nth(3)
  <2>1. CASE m = 1 /\ w = 1
    <3>1. Nth(1) >= 1 /\ Nth(1) < Nth(l) /\ Nth(1) \in Int
      <4>1. 1 \in 1 .. l /\ l \in 1 .. l /\ 1 < l /\ IsRead(1) /\ IsRead(l)
        BY <1>1, <1>3, <1>4, <2>1
      <4>2. 1 \in 0 .. 3
        OBVIOUS
      <4> QED
        BY <1>5, <4>1, <4>2
    <3> QED
      BY <1>2, <2>1, <3>1
  <2>2. CASE m = 1 /\ w = 0
    <3>1. l \in 1 .. l /\ IsRead(l)
      BY <1>1, <1>3, <2>2
    <3>2. Nth(l) >= 1
      BY <1>5, <3>1
    <3> QED
      BY <1>2, <2>2, <3>2
  <2>3. CASE m = 0 /\ w = 1
    <3>1. Nth(1) >= 1 /\ Nth(1) <= Nth(3) /\ Nth(1) \in Int
      <4>1. 1 \in 1 .. l /\ IsRead(1) /\ 1 \in 0 .. 3 /\ 1 <= 1
        BY <1>4, <2>3
      <4> QED
        BY <1>5, <4>1
    <3> QED
      BY <1>2, <2>3, <3>1
  <2>4. CASE m = 0 /\ w = 0
    BY <1>2, <2>4
  <2> QED
    BY <1>2, <2>1, <2>2, <2>3, <2>4
<1> QED
  BY <1>6 DEF m, w

LEMMA TimeStep ==
    ASSUME NEW request, NEW taken, NEW ready, NEW answers, Goes(request, taken, ready, answers)
    PROVE  TagsInTime'
<1> DEFINE f == fifo_0
           g == fifo_0'
           m == Num(mem_req # <<>> /\ mem_req[1].cmd = "read")
           e == Num(mem_req' # <<>> /\ mem_req'[1].cmd = "read")
           w == Num(ready /\ IsRead(1))
           o == tag_offered
           qf == Len(f.q)
           qg == Len(g.q)
<1>1. ErMoves(Tag, f, g, mem_rd # <<>>, o) /\ ErShape(f, Tag) /\ AtMostOneOf(Tag, o)
  BY TagStep, Wires, OfferFacts DEF Shapes
<1>2. m \in {0, 1} /\ e \in {0, 1} /\ w \in {0, 1} /\ m + w <= Nth(3)
  BY LastRead DEF Num
<1>3. (f.bram = <<>> => qf <= m) /\ (f.res = <<>> => qf <= m /\ n_came = 0)
  BY DEF Goes, DataInv, TagsInTime
<1>4. Len(o) <= e /\ Len(o) \in {0, 1} /\ o \in Seq(Tag)
  <2>1. Len(o) = Num(o # <<>>) /\ o \in Seq(Tag)
    BY <1>1, OneIsSeq
  <2>2. o # <<>> => e = 1
    <3>1. o # <<>> => Entering # <<>> /\ Entering[1].cmd = "read"
      BY OfferFacts
    <3>2. Entering # <<>> => mem_req' = Entering
      BY RowStep
    <3>3. o # <<>> => mem_req' # <<>> /\ mem_req'[1].cmd = "read"
      BY <3>1, <3>2
    <3> QED
      BY <3>3 DEF Num
  <2> DEFINE x == Len(o)
  <2>3. x \in {0, 1} /\ (x = 1 => e = 1)
    BY <2>1, <2>2 DEF Num
  <2> HIDE DEF x, e, o
  <2>4. x <= e
    BY <1>2, <2>3
  <2> QED
    BY <2>1, <2>3, <2>4 DEF x
<1>5. f.q \in Seq(Tag) /\ qf \in Nat
  BY <1>1 DEF ErShape
<1>6. ASSUME g.bram = <<>> PROVE qg <= e
  BY <1>1, <1>4, <1>6 DEF ErMoves
<1>7. ASSUME g.res = <<>> PROVE qg <= e /\ n_came' = 0
  <2>1. f.bram = <<>> /\ (f.res = <<>> \/ mem_rd # <<>>) /\ g.q = Cat(Popped(f.q, Num(f.q # <<>>)), o)
    BY <1>1, <1>7 DEF ErMoves
  <2>2. qf <= m
    BY <1>3, <2>1
  <2>3. Popped(f.q, Num(f.q # <<>>)) = <<>>
    <3>1. CASE f.q = <<>>
      BY <3>1 DEF Popped, Num
    <3>2. CASE f.q # <<>>
      <4>1. qf = 1
        <5>1. qf > 0
          BY <1>5, <3>2
        <5> HIDE DEF qf, m
        <5> QED
          BY <1>2, <1>5, <2>2, <5>1
      <4>2. Tail(f.q) \in Seq(Tag) /\ Len(Tail(f.q)) = 0
        BY <1>5, <3>2, <4>1, HeadTailProperties
      <4>3. Tail(f.q) = <<>>
        BY <4>2, EmptySeq
      <4> QED
        BY <3>2, <4>3 DEF Popped, Num
    <3> QED
      BY <3>1, <3>2
  <2>4. g.q = o
    BY <1>4, <2>1, <2>3, CatFacts
  <2>5. n_came' = 0
    <3> DEFINE r == Num(f.res # <<>>)
               b == Num(f.bram # <<>>)
               t == Len(Tags)
               n == n_rd
               c == n_came
    <3>1. t = (r + b) + qf /\ b = 0
      BY <1>1, <2>1, ErWords DEF Tags, Num
    <3>2. t = c + Nth(3) /\ Nth(3) \in 0 .. 3
      BY Wires, NthFacts DEF Goes, DataInv, AnswersFit
    <3>3. c - n \in Nat /\ n_came' = (c - n) + w /\ n \in {0, 1}
      BY CameStep, TagStep
    <3>4. r \in {0, 1} /\ (r = 0 => c = 0) /\ (r = 1 => n = 1)
      <4>1. r = 0 => f.res = <<>>
        BY DEF Num
      <4>2. r = 1 => f.res # <<>>
        BY DEF Num
      <4>3. mem_rd # <<>> => n = 1
        BY Wires, Lengths DEF n_rd, Num
      <4>4. r \in {0, 1}
        BY DEF Num
      <4> QED
        BY <1>3, <2>1, <4>1, <4>2, <4>3, <4>4
    <3>5. c \in Nat
      <4>1. Len(mem_pending) \in Nat
        BY Wires, Lengths
      <4> HIDE DEF n
      <4> QED
        BY <3>3, <4>1 DEF n_came, n
    <3> HIDE DEF r, b, t, n, c, m, w, qf
    <3>6. (c - n) + w = 0
      BY <1>2, <1>5, <2>2, <3>1, <3>2, <3>3, <3>4, <3>5
    <3> QED
      BY <3>3, <3>6
  <2> QED
    BY <1>4, <2>4, <2>5
<1> QED
  BY <1>6, <1>7 DEF TagsInTime

-----------------------------------------------------------------------------
(* What an edge does for the program.                                        *)
ReadsOut(taken) == dout # <<>> /\ taken

LEMMA IndexType == ASSUME NEW a \in Addr PROVE s_index(a) \in 0 .. LINES - 1 /\ m_tag(a) \in Nat
<1>1. a \in Nat /\ a \div 2 \in Nat
  BY Constants DEF Addr
<1>2. LINES \in Nat \ {0} /\ TAG_SPAN \in Nat \ {0}
  BY Constants
<1>3. (a \div 2) % LINES \in 0 .. LINES - 1
  BY <1>1, <1>2, DivMod
<1>4. a \div TAG_SPAN \in Nat
  BY <1>1, <1>2, DivMod
<1> QED
  BY <1>3, <1>4 DEF s_index, m_tag

LEMMA RequestStep ==
    ASSUME NEW request, NEW taken, NEW ready, NEW answers, Goes(request, taken, ready, answers),
           request # <<>>
    PROVE  LET r == request[1]
               d == dcache'[1]
           IN  /\ r \in Requests /\ dcache' = <<d>> /\ d \in Lookup
               /\ d.cmd = r.cmd /\ d.addr = r.addr /\ d.w = r.w
               /\ d.vld = cache[s_index(d.addr)].vld /\ d.tag = cache[s_index(d.addr)].tag
               /\ d.q = cache[s_index(d.addr)].word
               /\ count < MaxRequests /\ count' = count + 1 /\ (dcache = <<>> \/ lsu_hs)
               /\ expected' = Cat(Popped(expected, Num(ReadsOut(taken))),
                                  IF d.cmd = "read" THEN <<word_at(program, d)>> ELSE <<>>)
               /\ program' = IF d.cmd = "write" THEN written(program, d, d.data) ELSE program
               /\ cache' = IF d.cmd = "write"
                           THEN [cache EXCEPT ![s_index(d.addr)] = line_after(d, d.data)] ELSE cache
<1> DEFINE r == request[1]
           e == [cmd |-> r.cmd, addr |-> r.addr, w |-> r.w,
                 data |-> <<2 * (count + 1), 2 * (count + 1) + 1>>,
                 vld |-> cache[s_index(r.addr)].vld, tag |-> cache[s_index(r.addr)].tag,
                 q |-> cache[s_index(r.addr)].word]
           data == <<2 * (count + 1), 2 * (count + 1) + 1>>
<1>1. /\ dcache_s_tready /\ count < MaxRequests /\ r \in Requests
      /\ Cache(request, data) /\ History(request, data, taken) /\ Shapes
  BY Wires DEF Goes, Asked, Edge
<1>2. dcache = <<>> \/ lsu_hs
  BY <1>1 DEF dcache_s_tready, lsu_hs
<1>3. dcache' = <<e>>
  BY <1>1 DEF Cache
<1>4. r \in [cmd : Cmds, addr : Addr, w : BOOLEAN]
  BY <1>1, Constants
<1>5. e \in Lookup
  <2>1. cache[s_index(r.addr)] \in Line
    BY <1>1, <1>4, IndexType DEF Shapes
  <2>2. data \in Pair
    <3>1. count \in Nat /\ count + 1 <= MaxRequests /\ MaxRequests \in Nat
      BY <1>1, Constants DEF Shapes
    <3>2. 2 * (count + 1) \in Byte /\ 2 * (count + 1) + 1 \in Byte
      BY <3>1 DEF Byte
    <3> QED
      BY <3>2 DEF Pair
  <2> HIDE DEF r, data
  <2> QED
    BY <1>4, <2>1, <2>2 DEF Lookup, Line, data
<1>6. /\ e.cmd = r.cmd /\ e.addr = r.addr /\ e.w = r.w /\ e.data = data
      /\ e.vld = cache[s_index(r.addr)].vld /\ e.tag = cache[s_index(r.addr)].tag
      /\ e.q = cache[s_index(r.addr)].word
  OBVIOUS
<1>7. /\ count' = count + 1
      /\ LET left == IF dout # <<>> /\ taken THEN Tail(expected) ELSE expected
         IN  IF r.cmd = "read" THEN expected' = Append(left, word_at(program, r)) /\ program' = program
             ELSE expected' = left /\ program' = written(program, r, data)
      /\ cache' = IF r.cmd = "write" THEN [cache EXCEPT ![s_index(r.addr)] = line_after(r, data)]
                  ELSE cache
  BY <1>1 DEF History, Cache
<1> HIDE DEF e, data
<1>8. word_at(program, r) = word_at(program, e) /\ written(program, r, data) = written(program, e, e.data)
      /\ line_after(r, data) = line_after(e, e.data)
  BY <1>6 DEF word_at, written, line_after
<1>9. r.cmd \in Cmds
  BY <1>4
<1> DEFINE left == Popped(expected, Num(ReadsOut(taken)))
<1>10. left = (IF dout # <<>> /\ taken THEN Tail(expected) ELSE expected)
  BY DEF ReadsOut, Popped, Num
<1>11. left \in Seq(Pair)
  <2>1. expected \in Seq(Pair)
    BY <1>1 DEF Shapes
  <2>2. dout # <<>> => expected # <<>>
    <3>1. Len(expected) = fifo_cnt + Num(reading) /\ fifo_cnt \in 0 .. SLOTS - 1 /\ (rd_data_tvalid => fifo_cnt # 0)
      BY DEF Goes, DataInv, Counters
    <3>2. dout # <<>> => rd_data_tvalid
      BY DEF dout
    <3>3. Len(<<>>) = 0
      OBVIOUS
    <3>4. fifo_cnt # 0 => Len(expected) > 0
      <4> DEFINE x == Len(expected)
      <4>1. x = fifo_cnt + Num(reading)
        BY <3>1
      <4>2. Num(reading) \in {0, 1} /\ SLOTS \in Nat
        BY Constants DEF Num
      <4> HIDE DEF x
      <4>3. fifo_cnt # 0 => x > 0
        BY <3>1, <4>1, <4>2
      <4> QED
        BY <4>3 DEF x
    <3> QED
      BY <3>1, <3>2, <3>3, <3>4
  <2>3. dout # <<>> => Tail(expected) \in Seq(Pair)
    BY <2>1, <2>2, HeadAndTail
  <2> QED
    BY <1>10, <2>1, <2>3
<1> HIDE DEF left
<1>12. word_at(program, e) \in Pair
  BY <1>1, <1>5, ReadInParts DEF Shapes
<1>13. expected' = Cat(left, IF e.cmd = "read" THEN <<word_at(program, e)>> ELSE <<>>)
  <2>1. CASE e.cmd = "read"
    <3>1. expected' = Append(left, word_at(program, e))
      BY <1>6, <1>7, <1>8, <1>10, <2>1
    <3>2. Append(left, word_at(program, e)) = left \o <<word_at(program, e)>>
      BY <1>11, <1>12, AppendIsConcat
    <3> QED
      BY <2>1, <3>1, <3>2 DEF Cat
  <2>2. CASE e.cmd # "read"
    <3>1. expected' = left
      BY <1>6, <1>7, <1>10, <2>2
    <3>2. Cat(left, <<>>) = left
      BY <1>11, CatFacts
    <3> QED
      BY <2>2, <3>1, <3>2
  <2> QED
    BY <2>1, <2>2
<1>14. program' = IF e.cmd = "write" THEN written(program, e, e.data) ELSE program
  BY <1>6, <1>7, <1>8, <1>9 DEF Cmds
<1>15. cache' = IF e.cmd = "write" THEN [cache EXCEPT ![s_index(e.addr)] = line_after(e, e.data)] ELSE cache
  BY <1>6, <1>7, <1>8
<1>16. dcache'[1] = e
  BY <1>3
<1> QED
  BY <1>1, <1>2, <1>3, <1>5, <1>6, <1>7, <1>13, <1>14, <1>15, <1>16 DEF left

LEMMA IdleStep ==
    ASSUME NEW request, NEW taken, NEW ready, NEW answers, Goes(request, taken, ready, answers),
           request = <<>>
    PROVE  /\ dcache' = IF lsu_req_tready THEN <<>> ELSE dcache
           /\ UNCHANGED <<cache, program, count>>
           /\ expected' = Popped(expected, Num(ReadsOut(taken)))
  BY DEF Goes, Edge, Cache, History, ReadsOut, Popped, Num

(* The read in the cache's register leaves when it gets a slot, and the next *)
(* request comes when it has left.                                           *)
Asking(request) ==
    IF request # <<>> /\ dcache'[1].cmd = "read" THEN <<word_at(program, dcache'[1])>> ELSE <<>>

LEMMA ExpectedStep ==
    ASSUME NEW request, NEW taken, NEW ready, NEW answers, Goes(request, taken, ready, answers)
    PROVE  /\ ReadsOut(taken) => fifo_cnt # 0 /\ slot[rd_addr].vld
           /\ adding => reading /\ fifo_cnt # SLOTS - 1
           /\ MovedOn(Pair, expected, Num(ReadsOut(taken)), Asking(request), expected')
           /\ AtMostOneOf(Pair, Asking(request))
           /\ Num(reading') = (Num(reading) - Num(adding)) + Len(Asking(request))
           /\ request = <<>> => (reading' <=> reading /\ ~adding) /\ (reading' => dcache' = dcache)
<1> DEFINE k == Num(ReadsOut(taken))
           A == Asking(request)
<1>1. /\ expected \in Seq(Pair) /\ Len(expected) = fifo_cnt + Num(reading) /\ fifo_cnt \in 0 .. SLOTS - 1
      /\ rd_data_tvalid <=> fifo_cnt # 0
      /\ wr_data_tready <=> fifo_cnt # SLOTS - 1
      /\ program \in [Addr -> Byte] /\ SLOTS \in Nat
  BY Constants DEF Goes, DataInv, Shapes, Counters
<1>2. ReadsOut(taken) => fifo_cnt # 0 /\ slot[rd_addr].vld
  BY <1>1 DEF ReadsOut, dout
<1>3. adding => reading /\ fifo_cnt # SLOTS - 1 /\ lsu_req_tready
  BY <1>1, Wires DEF adding, reading, lsu_hs
<1>4. reading /\ lsu_req_tready => adding
  BY DEF adding, reading, lsu_hs
<1>5. AtMostOneOf(Pair, A)
  <2>1. request # <<>> => dcache'[1] \in Lookup
    BY RequestStep
  <2>2. request # <<>> => word_at(program, dcache'[1]) \in Pair
    BY <1>1, <2>1, ReadInParts
  <2> QED
    BY <2>2 DEF AtMostOneOf, Asking
<1>6. k \in {0, 1} /\ (k = 1 => expected # <<>>)
  <2>1. k \in {0, 1} /\ (k = 1 => ReadsOut(taken))
    BY DEF Num
  <2>2. Num(reading) \in {0, 1} /\ Len(<<>>) = 0
    BY DEF Num
  <2>3. fifo_cnt # 0 => Len(expected) # 0
    <3> DEFINE x == Len(expected)
    <3>1. x = fifo_cnt + Num(reading)
      BY <1>1
    <3> HIDE DEF x
    <3>2. fifo_cnt # 0 => x # 0
      BY <1>1, <2>2, <3>1
    <3> QED
      BY <3>2 DEF x
  <2> QED
    BY <1>2, <2>1, <2>2, <2>3
<1>7. expected' = Cat(Popped(expected, k), A)
  <2>1. CASE request # <<>>
    BY <2>1, RequestStep DEF Asking
  <2>2. CASE request = <<>>
    <3>1. expected' = Popped(expected, k) /\ A = <<>>
      BY <2>2, IdleStep DEF Asking
    <3>2. Popped(expected, k) \in Seq(Pair)
      <4>1. k = 1 => Tail(expected) \in Seq(Pair)
        BY <1>1, <1>6, HeadAndTail
      <4> QED
        BY <1>1, <1>6, <4>1 DEF Popped
    <3> QED
      BY <3>1, <3>2, CatFacts
  <2> QED
    BY <2>1, <2>2
<1>8. MovedOn(Pair, expected, k, A, expected')
  <2> HIDE DEF k, A
  <2> QED
    BY <1>1, <1>5, <1>6, <1>7, Moved
<1>9. request = <<>> => (reading' <=> reading /\ ~adding) /\ (reading' => dcache' = dcache)
  <2> SUFFICES ASSUME request = <<>>
               PROVE  (reading' <=> reading /\ ~adding) /\ (reading' => dcache' = dcache)
    OBVIOUS
  <2>1. dcache' = IF lsu_req_tready THEN <<>> ELSE dcache
    BY IdleStep
  <2>2. CASE lsu_req_tready
    BY <1>4, <2>1, <2>2 DEF reading
  <2>3. CASE ~lsu_req_tready
    BY <1>3, <2>1, <2>3 DEF reading
  <2> QED
    BY <2>2, <2>3
<1>10. Len(A) = Num(A # <<>>)
  BY <1>5, OneIsSeq
<1>11. Num(reading') = (Num(reading) - Num(adding)) + Len(A)
  <2>1. CASE request = <<>>
    <3>1. A = <<>>
      BY <2>1 DEF Asking
    <3>2. Len(A) = 0
      BY <1>10, <3>1 DEF Num
    <3>3. CASE reading /\ adding
      BY <1>9, <2>1, <3>2, <3>3 DEF Num
    <3>4. CASE reading /\ ~adding
      BY <1>9, <2>1, <3>2, <3>4 DEF Num
    <3>5. CASE ~reading
      BY <1>3, <1>9, <2>1, <3>2, <3>5 DEF Num
    <3> QED
      BY <3>3, <3>4, <3>5
  <2>2. CASE request # <<>>
    <3>1. dcache' # <<>> /\ (dcache = <<>> \/ lsu_hs)
      BY <2>2, RequestStep
    <3>2. reading' <=> A # <<>>
      BY <2>2, <3>1 DEF Asking, reading
    <3>3. adding <=> reading
      BY <1>3, <3>1 DEF adding, reading, lsu_hs
    <3>4. Num(reading) = Num(adding) /\ Num(adding) \in {0, 1}
      BY <3>3 DEF Num
    <3>5. Num(reading') = Len(A) /\ Len(A) \in {0, 1}
      BY <1>10, <3>2 DEF Num
    <3> DEFINE x == Len(A)
               y == Num(reading)
               z == Num(adding)
               u == Num(reading')
    <3>6. y = z /\ z \in {0, 1} /\ u = x /\ x \in {0, 1}
      BY <3>4, <3>5
    <3> HIDE DEF x, y, z, u
    <3>7. u = (y - z) + x
      BY <3>6
    <3> QED
      BY <3>7 DEF x, y, z, u
  <2> QED
    BY <2>1, <2>2
<1> QED
  BY <1>2, <1>3, <1>5, <1>8, <1>9, <1>11 DEF k, A

LEMMA CountersStep ==
    ASSUME NEW request, NEW taken, NEW ready, NEW answers, Goes(request, taken, ready, answers)
    PROVE  /\ Counters' /\ wr_addr' \in Slots /\ rd_addr' \in Slots
           /\ wr_data_tready' \in BOOLEAN /\ rd_data_tvalid' \in BOOLEAN
           /\ fifo_cnt' = (fifo_cnt + Num(adding)) - Num(ReadsOut(taken))
           /\ \A i \in Slots : Pos(rd_addr', i) = IF ReadsOut(taken) /\ i = rd_addr THEN SLOTS
                                                  ELSE Pos(rd_addr, i) - Num(ReadsOut(taken))
           /\ wr_addr' = IF adding THEN (wr_addr + 1) % SLOTS ELSE wr_addr
           /\ Pos(rd_addr, wr_addr) = fifo_cnt + 1
<1> DEFINE out == ReadsOut(taken)
           k == Num(out)
           a == Num(adding)
           c == fifo_cnt
           n == SLOTS
<1>1. /\ c \in 0 .. n - 1 /\ n \in Nat /\ n >= 2 /\ rd_addr \in 0 .. n - 1 /\ wr_addr \in 0 .. n - 1
      /\ Pos(rd_addr, wr_addr) = c + 1
      /\ wr_data_tready <=> c # n - 1
      /\ rd_data_tvalid <=> c # 0
      /\ wr_data_tready \in BOOLEAN /\ rd_data_tvalid \in BOOLEAN
      /\ Len(expected) = c + Num(reading)
  BY Constants DEF Goes, DataInv, Shapes, Counters, Slots
<1>2. (out => c # 0) /\ (adding => c # n - 1) /\ out \in BOOLEAN /\ adding \in BOOLEAN
  BY ExpectedStep DEF ReadsOut, adding
<1>3. /\ wr_addr' = IF adding THEN (wr_addr + 1) % n ELSE wr_addr
      /\ rd_addr' = IF out THEN (rd_addr + 1) % n ELSE rd_addr
      /\ fifo_cnt' = CASE adding /\ ~out -> c + 1 [] out /\ ~adding -> c - 1 [] OTHER -> c
      /\ wr_data_tready' = CASE adding /\ ~out -> wr_data_tready /\ c + 1 # n - 1
                             [] out /\ ~adding -> TRUE [] OTHER -> wr_data_tready
      /\ rd_data_tvalid' = CASE adding /\ ~out -> TRUE
                             [] out /\ ~adding -> rd_data_tvalid /\ c - 1 # 0 [] OTHER -> rd_data_tvalid
  BY DEF Goes, Edge, ResultSlots, ReadsOut
<1> HIDE DEF out
<1>4. /\ out => k = 1
      /\ ~out => k = 0
      /\ adding => a = 1
      /\ ~adding => a = 0
  BY DEF Num
<1> HIDE DEF k, a
<1>5. /\ fifo_cnt' = (c + a) - k /\ fifo_cnt' \in 0 .. n - 1
      /\ wr_data_tready' \in BOOLEAN /\ rd_data_tvalid' \in BOOLEAN
      /\ wr_data_tready' <=> fifo_cnt' # n - 1
      /\ rd_data_tvalid' <=> fifo_cnt' # 0
  <2>1. CASE adding /\ ~out
    <3>1. fifo_cnt' = c + 1 /\ wr_data_tready' = (wr_data_tready /\ c + 1 # n - 1) /\ rd_data_tvalid' = TRUE
      BY <1>3, <2>1
    <3> QED
      BY <1>1, <1>2, <1>4, <2>1, <3>1
  <2>2. CASE out /\ ~adding
    <3>1. fifo_cnt' = c - 1 /\ wr_data_tready' = TRUE /\ rd_data_tvalid' = (rd_data_tvalid /\ c - 1 # 0)
      BY <1>3, <2>2
    <3> QED
      BY <1>1, <1>2, <1>4, <2>2, <3>1
  <2>3. CASE (adding /\ out) \/ (~adding /\ ~out)
    <3>1. fifo_cnt' = c /\ wr_data_tready' = wr_data_tready /\ rd_data_tvalid' = rd_data_tvalid
      BY <1>3, <2>3
    <3> QED
      BY <1>1, <1>4, <2>3, <3>1
  <2> QED
    BY <1>2, <2>1, <2>2, <2>3
<1>6. /\ \A r \in 0 .. n - 1 : Pos(r, r) = 1
      /\ \A r, i \in 0 .. n - 1 : Pos(r, i) \in 1 .. n
      /\ \A r, i \in 0 .. n - 1 : Pos((r + 1) % n, i) = IF i = r THEN n ELSE Pos(r, i) - 1
      /\ \A r, w \in 0 .. n - 1 : Pos(r, w) < n => Pos(r, (w + 1) % n) = Pos(r, w) + 1
      /\ \A i \in 0 .. n - 1 : (i + 1) % n \in 0 .. n - 1
  <2>1. \A r \in 0 .. n - 1 :
           /\ Ahead(n, r, r) = 1
           /\ \A i \in 0 .. n - 1 : Ahead(n, r, i) \in 1 .. n
           /\ \A i \in 0 .. n - 1 : Ahead(n, (r + 1) % n, i) = IF i = r THEN n ELSE Ahead(n, r, i) - 1
           /\ \A w \in 0 .. n - 1 : Ahead(n, r, w) < n => Ahead(n, r, (w + 1) % n) = Ahead(n, r, w) + 1
    BY <1>1, RingFacts
  <2>2. \A i \in 0 .. n - 1 : (i + 1) % n \in 0 .. n - 1
    BY <1>1, RingNext
  <2> QED
    BY <2>1, <2>2 DEF Pos
<1>7. \A i \in 0 .. n - 1 : Pos(rd_addr', i) = IF out /\ i = rd_addr THEN n ELSE Pos(rd_addr, i) - k
  <2>1. CASE out
    <3>1. rd_addr' = (rd_addr + 1) % n /\ k = 1 /\ rd_addr \in 0 .. n - 1
      BY <1>1, <1>3, <1>4, <2>1
    <3>2. \A i \in 0 .. n - 1 : Pos((rd_addr + 1) % n, i) = IF i = rd_addr THEN n ELSE Pos(rd_addr, i) - 1
      BY <1>6, <3>1
    <3> QED
      BY <2>1, <3>1, <3>2
  <2>2. CASE ~out
    <3>1. \A i \in 0 .. n - 1 : Pos(rd_addr, i) - 0 = Pos(rd_addr, i)
      BY <1>1, <1>6
    <3> QED
      BY <1>3, <1>4, <2>2, <3>1
  <2> QED
    BY <2>1, <2>2
<1>8. wr_addr' \in 0 .. n - 1 /\ rd_addr' \in 0 .. n - 1
  BY <1>1, <1>3, <1>6
<1>9. Pos(rd_addr, wr_addr') = (c + 1) + a
  <2>1. CASE adding
    <3>1. Pos(rd_addr, wr_addr) < n
      BY <1>1, <1>2, <2>1
    <3> QED
      BY <1>1, <1>3, <1>4, <1>6, <2>1, <3>1
  <2>2. CASE ~adding
    BY <1>1, <1>3, <1>4, <2>2
  <2> QED
    BY <2>1, <2>2
<1>10. Pos(rd_addr', wr_addr') = fifo_cnt' + 1
  <2>1. out => wr_addr' # rd_addr
    <3>1. out => Pos(rd_addr, wr_addr') # 1
      BY <1>1, <1>2, <1>4, <1>9
    <3>2. Pos(rd_addr, rd_addr) = 1
      BY <1>1, <1>6
    <3> QED
      BY <3>1, <3>2
  <2>2. Pos(rd_addr', wr_addr') = ((c + 1) + a) - k
    BY <1>7, <1>8, <1>9, <2>1
  <2> QED
    BY <1>1, <1>2, <1>4, <1>5, <2>2
<1>11. Len(expected') = fifo_cnt' + Num(reading')
  <2> DEFINE x == Len(expected)
             y == Len(expected')
             z == Len(Asking(request))
             u == Num(reading)
             v == Num(reading')
  <2>1. y = (x - k) + z /\ v = (u - a) + z
    BY ExpectedStep DEF MovedOn, k, a, out
  <2>2. x = c + u /\ u \in {0, 1} /\ v \in {0, 1}
    BY <1>1 DEF Num
  <2>3. z \in Nat
    <3>1. AtMostOneOf(Pair, Asking(request))
      BY ExpectedStep
    <3> QED
      BY <3>1, OneIsSeq
  <2>4. a \in {0, 1} /\ k \in {0, 1}
    BY <1>2, <1>4
  <2> HIDE DEF x, y, z, u, v
  <2>5. y = fifo_cnt' + v
    BY <1>1, <1>5, <2>1, <2>2, <2>3, <2>4
  <2> QED
    BY <2>5 DEF y, v
<1>12. Counters'
  <2>1. Pos(rd_addr, wr_addr)' = fifo_cnt' + 1
    BY <1>10 DEF Pos, Ahead
  <2> QED
    BY <1>5, <1>11, <2>1 DEF Counters
<1> QED
  BY <1>1, <1>3, <1>5, <1>7, <1>8, <1>12 DEF out, k, a, Slots

(* A slot in use keeps its place in the order and what the program expects   *)
(* of it; a new one waits for the word of the read in the cache's register.  *)
LEMMA LiveStep ==
    ASSUME NEW request, NEW taken, NEW ready, NEW answers, Goes(request, taken, ready, answers)
    PROVE  /\ \A i \in Slots : Live(i) /\ ~(ReadsOut(taken) /\ i = rd_addr) =>
                 i # wr_addr /\ Live(i)' /\ Wanted(i)' = Wanted(i)
           /\ \A i \in Slots : Live(i)' =>
                 (Live(i) /\ ~(ReadsOut(taken) /\ i = rd_addr)) \/ (adding /\ i = wr_addr)
           /\ \A i \in Slots : Waits(i) => Live(i) /\ ~(ReadsOut(taken) /\ i = rd_addr) /\ i # wr_addr
           /\ \A i : adding /\ i = wr_addr => Live(i)' /\ Wanted(i)' = word_at(program, dcache[1])
<1> DEFINE out == ReadsOut(taken)
           k == Num(out)
           a == Num(adding)
           c == fifo_cnt
           n == SLOTS
           P(i) == Pos(rd_addr, i)
           Q(i) == Pos(rd_addr', i)
           x == Len(expected)
           A == Asking(request)
<1>1. /\ c \in 0 .. n - 1 /\ n \in Nat /\ n >= 2 /\ rd_addr \in Slots /\ wr_addr \in Slots
      /\ x = c + Num(reading)
  BY Constants DEF Goes, DataInv, Shapes, Counters
<1>2. /\ out => c # 0 /\ slot[rd_addr].vld
      /\ adding => reading /\ c # n - 1
      /\ MovedOn(Pair, expected, k, A, expected')
  BY ExpectedStep
<1>3. /\ fifo_cnt' = (c + a) - k /\ P(wr_addr) = c + 1
      /\ \A i \in Slots : Q(i) = IF out /\ i = rd_addr THEN n ELSE P(i) - k
  BY CountersStep
<1>4. /\ \A i \in Slots : P(i) \in 1 .. n
      /\ \A i, j \in Slots : P(i) = P(j) => i = j
  <2>1. /\ \A i \in 0 .. n - 1 : Ahead(n, rd_addr, i) \in 1 .. n
        /\ \A i, j \in 0 .. n - 1 : Ahead(n, rd_addr, i) = Ahead(n, rd_addr, j) => i = j
    BY <1>1, RingFacts DEF Slots
  <2> QED
    BY <2>1 DEF Pos, Slots
<1>5. /\ k \in {0, 1} /\ a \in {0, 1} /\ (k = 1 <=> out) /\ (a = 1 <=> adding)
      /\ Num(reading) \in {0, 1} /\ (adding => Num(reading) = 1)
  BY <1>2 DEF Num, ReadsOut, adding
<1>6. /\ \A i : Live(i) <=> P(i) <= c
      /\ \A i : Live(i)' <=> Q(i) <= fifo_cnt'
      /\ \A i : Wanted(i) = expected[P(i)]
      /\ \A i : Wanted(i)' = expected'[Q(i)]
  BY DEF Live, Wanted, Pos, Ahead
<1>7. \A j \in 1 .. x - k : expected'[j] = expected[j + k]
  BY <1>2 DEF MovedOn
<1>8. (Num(reading) = 1 => reading) /\ x \in Nat
  <2>1. x \in Nat
    BY <1>1, <1>5
  <2> QED
    BY <2>1 DEF Num
<1>9. adding => expected[x] = word_at(program, dcache[1])
  BY <1>2 DEF Goes, DataInv, LookupHolds
<1> HIDE DEF out, k, a, P, Q, x, A
<1>10. ASSUME NEW i \in Slots, Live(i), ~(out /\ i = rd_addr)
       PROVE  i # wr_addr /\ Live(i)' /\ Wanted(i)' = Wanted(i)
  <2>1. P(i) \in 1 .. n /\ P(i) <= c
    BY <1>4, <1>6, <1>10
  <2>2. i # wr_addr
    BY <1>1, <1>3, <2>1
  <2>3. Q(i) = P(i) - k
    BY <1>3, <1>10
  <2>4. Live(i)'
    BY <1>1, <1>3, <1>5, <1>6, <2>1, <2>3
  <2>5. k = 1 => P(i) # 1
    <3>1. P(rd_addr) = 1
      <4>1. Ahead(n, rd_addr, rd_addr) = 1
        BY <1>1, RingFacts DEF Slots
      <4> QED
        BY <4>1 DEF P, Pos
    <3> QED
      BY <1>1, <1>4, <1>5, <1>10, <3>1
  <2>6. P(i) - k \in 1 .. x - k /\ (P(i) - k) + k = P(i)
    BY <1>1, <1>5, <1>8, <2>1, <2>5
  <2>7. expected'[P(i) - k] = expected[P(i)]
    BY <1>7, <2>6
  <2> QED
    BY <1>6, <2>2, <2>3, <2>4, <2>7
<1>11. ASSUME NEW i \in Slots, Live(i)'
       PROVE  (Live(i) /\ ~(out /\ i = rd_addr)) \/ (adding /\ i = wr_addr)
  <2>1. Q(i) <= (c + a) - k /\ P(i) \in 1 .. n
    BY <1>3, <1>4, <1>6, <1>11
  <2>2. ~(out /\ i = rd_addr)
    <3> SUFFICES ASSUME out, i = rd_addr PROVE FALSE
      OBVIOUS
    <3>1. Q(i) = n /\ k = 1
      BY <1>3, <1>5
    <3> QED
      BY <1>1, <1>5, <2>1, <3>1
  <2>3. P(i) <= c + a
    BY <1>1, <1>3, <1>5, <2>1, <2>2
  <2>4. ASSUME ~Live(i) PROVE adding /\ i = wr_addr
    <3>1. ~(P(i) <= c)
      BY <1>6, <2>4
    <3>2. a = 1 /\ P(i) = c + 1
      BY <1>1, <1>5, <2>1, <2>3, <3>1
    <3> QED
      BY <1>1, <1>3, <1>4, <1>5, <3>2
  <2> QED
    BY <2>2, <2>4
<1>12. ASSUME NEW i \in Slots, Waits(i)
       PROVE  Live(i) /\ ~(out /\ i = rd_addr) /\ i # wr_addr
  <2>1. Live(i) /\ ~slot[i].vld
    BY <1>12 DEF Waits
  <2>2. ~(out /\ i = rd_addr)
    BY <1>2, <2>1
  <2> QED
    BY <1>10, <2>1, <2>2
<1>13. ASSUME NEW i, adding, i = wr_addr
       PROVE  Live(i)' /\ Wanted(i)' = word_at(program, dcache[1])
  <2>1. P(i) = c + 1 /\ c + 1 = x /\ i \in Slots /\ a = 1
    BY <1>1, <1>2, <1>3, <1>5, <1>13
  <2>2. ~(out /\ i = rd_addr)
    <3>1. out => P(i) # 1
      BY <1>1, <1>2, <2>1
    <3>2. P(rd_addr) = 1
      <4>1. Ahead(n, rd_addr, rd_addr) = 1
        BY <1>1, RingFacts DEF Slots
      <4> QED
        BY <4>1 DEF P, Pos
    <3> QED
      BY <3>1, <3>2
  <2>3. Q(i) = (c + 1) - k
    BY <1>3, <2>1, <2>2
  <2>4. Live(i)'
    BY <1>1, <1>3, <1>5, <1>6, <2>1, <2>3
  <2>5. (c + 1) - k \in 1 .. x - k /\ ((c + 1) - k) + k = x
    <3>1. k = 1 => c # 0
      BY <1>2, <1>5
    <3> QED
      BY <1>1, <1>5, <2>1, <3>1
  <2>6. expected'[(c + 1) - k] = expected[x]
    BY <1>7, <2>5
  <2> QED
    BY <1>6, <1>9, <1>13, <2>3, <2>4, <2>6
<1> QED
  BY <1>10, <1>11, <1>12, <1>13 DEF out

LEMMA OddLane == ASSUME NEW a \in Addr, ~odd(a) PROVE lane(a) # 3 /\ a + 1 \in Addr /\ (a + 1) % SIZE = a + 1
<1>1. a \in Nat /\ a % 2 # 1
  BY Constants DEF Addr, odd
<1>2. a % 4 # 3
  BY <1>1, Z3
<1>3. lane(a) # 3
  BY <1>2 DEF lane
<1> QED
  BY <1>3, NextByte

(* A hit answers with the word that the program expects.                     *)
LEMMA HitIsRight ==
    ASSUME NEW request, NEW taken, NEW ready, NEW answers, Goes(request, taken, ready, answers), adding
    PROVE  /\ dcache[1] \in Lookup /\ cached \in Pair
           /\ dcache_thit(dcache[1]) => cached = word_at(program, dcache[1])
<1> DEFINE d == dcache[1]
           a == d.addr
<1>1. dcache # <<>> /\ d \in Lookup /\ reading
  BY ExpectedStep, Wires, Lengths DEF adding, lsu_hs
<1>2. d.q \in Pair /\ a \in Addr /\ d.w \in BOOLEAN /\ 0 \in Byte
  BY <1>1, Constants DEF Lookup, Byte
<1>3. cached = IF d.w THEN d.q ELSE <<d.q[1], 0>>
  BY DEF cached
<1>4. cached \in Pair
  BY <1>2, <1>3 DEF Pair
<1>5. ASSUME dcache_thit(d) PROVE cached = word_at(program, d)
  <2>1. d.q = <<program[a], program[a + 1]>>
    BY <1>1, <1>5 DEF Goes, DataInv, LookupHolds
  <2>2. (a + 1) % SIZE = a + 1
    BY <1>2, <1>5, OddLane DEF dcache_thit
  <2>3. word_at(program, d) = <<program[a], IF d.w THEN program[a + 1] ELSE 0>>
    BY <2>2 DEF word_at
  <2> QED
    BY <1>3, <2>1, <2>3
<1> QED
  BY <1>1, <1>4, <1>5

LEMMA SlotStep ==
    ASSUME NEW request, NEW taken, NEW ready, NEW answers, Goes(request, taken, ready, answers)
    PROVE  /\ slot' \in [Slots -> [vld : BOOLEAN, data : Pair]] /\ SlotsHold'
           /\ \A i \in Slots : Waits(i) => Wanted(i)' = Wanted(i)
           /\ \A i \in Slots : Waits(i) /\ ~(upd # <<>> /\ i = upd[1].slot) => Waits(i)'
           /\ \A i : missing /\ i = wr_addr => Waits(i)'
<1>1. \A i \in Slots : slot'[i] = IF adding /\ i = wr_addr THEN [vld |-> dcache_thit(dcache[1]), data |-> cached]
                                  ELSE IF upd # <<>> /\ i = upd[1].slot THEN [vld |-> TRUE, data |-> upd[1].data]
                                  ELSE slot[i]
  BY DEF Goes, Edge, ResultSlots
<1>2. DOMAIN slot' = Slots /\ slot' = [i \in Slots |-> slot'[i]]
  BY DEF Goes, Edge, ResultSlots
<1>3. slot \in [Slots -> [vld : BOOLEAN, data : Pair]] /\ wr_addr \in Slots
      /\ (upd # <<>> => upd[1] \in Result)
  BY Wires, Lengths DEF Shapes
<1>4. adding => dcache_thit(dcache[1]) \in BOOLEAN /\ cached \in Pair
                /\ (dcache_thit(dcache[1]) => cached = word_at(program, dcache[1]))
  BY HitIsRight DEF dcache_thit
<1>5. slot' \in [Slots -> [vld : BOOLEAN, data : Pair]]
  <2>1. ASSUME NEW i \in Slots PROVE slot'[i] \in [vld : BOOLEAN, data : Pair]
    <3>1. CASE adding /\ i = wr_addr
      BY <1>1, <1>4, <3>1
    <3>2. CASE ~(adding /\ i = wr_addr) /\ upd # <<>> /\ i = upd[1].slot
      <4>1. slot'[i] = [vld |-> TRUE, data |-> upd[1].data] /\ upd[1].data \in Pair
        BY <1>1, <1>3, <3>2 DEF Result
      <4> QED
        BY <4>1
    <3>3. CASE ~(adding /\ i = wr_addr) /\ ~(upd # <<>> /\ i = upd[1].slot)
      BY <1>1, <1>3, <3>3
    <3> QED
      BY <3>1, <3>2, <3>3
  <2> QED
    BY <1>2, <2>1
<1>6. ASSUME NEW i \in Slots, Live(i)', slot'[i].vld PROVE slot'[i].data = Wanted(i)'
  <2>1. CASE adding /\ i = wr_addr
    <3>1. slot'[i] = [vld |-> dcache_thit(dcache[1]), data |-> cached]
      BY <1>1, <2>1
    <3>2. Wanted(i)' = word_at(program, dcache[1])
      BY <2>1, LiveStep
    <3>3. dcache_thit(dcache[1])
      BY <1>6, <3>1
    <3> QED
      BY <1>4, <2>1, <3>1, <3>2, <3>3
  <2>2. CASE ~(adding /\ i = wr_addr)
    <3>1. Live(i) /\ ~(ReadsOut(taken) /\ i = rd_addr)
      BY <1>6, <2>2, LiveStep
    <3>2. Wanted(i)' = Wanted(i)
      BY <3>1, LiveStep
    <3>3. CASE upd # <<>> /\ i = upd[1].slot
      <4>1. upd[1].data = Wanted(i)
        BY <3>3 DEF Goes, DataInv, Order
      <4> QED
        BY <1>1, <2>2, <3>2, <3>3, <4>1
    <3>4. CASE ~(upd # <<>> /\ i = upd[1].slot)
      <4>1. slot'[i] = slot[i]
        BY <1>1, <2>2, <3>4
      <4>2. slot[i].vld => slot[i].data = Wanted(i)
        BY <3>1 DEF Goes, DataInv, SlotsHold
      <4> QED
        BY <1>6, <3>2, <4>1, <4>2
    <3> QED
      BY <3>3, <3>4
  <2> QED
    BY <2>1, <2>2
<1>7. ASSUME NEW i \in Slots, Waits(i)
      PROVE  /\ Wanted(i)' = Wanted(i)
             /\ ~(upd # <<>> /\ i = upd[1].slot) => Waits(i)'
  <2>1. Live(i) /\ ~(ReadsOut(taken) /\ i = rd_addr) /\ i # wr_addr
    BY <1>7, LiveStep
  <2>2. Live(i)' /\ Wanted(i)' = Wanted(i)
    BY <2>1, LiveStep
  <2>3. ~(upd # <<>> /\ i = upd[1].slot) => slot'[i] = slot[i]
    BY <1>1, <2>1
  <2>4. ~slot[i].vld
    BY <1>7 DEF Waits
  <2> QED
    BY <2>2, <2>3, <2>4 DEF Waits
<1>8. ASSUME NEW i, missing, i = wr_addr PROVE Waits(i)'
  <2>1. adding /\ ~dcache_thit(dcache[1]) /\ i \in Slots
    BY <1>3, <1>8 DEF missing
  <2>2. Live(i)' /\ slot'[i].vld = dcache_thit(dcache[1])
    BY <1>1, <1>8, <2>1, LiveStep
  <2> QED
    BY <2>1, <2>2 DEF Waits
<1>9. SlotsHold'
  BY <1>6 DEF SlotsHold
<1> QED
  BY <1>5, <1>7, <1>8, <1>9

-----------------------------------------------------------------------------
(* The second half of a word.                                                *)
LEMMA BufStep ==
    ASSUME NEW request, NEW taken, NEW ready, NEW answers, Goes(request, taken, ready, answers)
    PROVE  /\ req_buf' = IF lsu_hs /\ split(dcache[1]) THEN <<SecondHalf(dcache[1], wr_addr)>>
                         ELSE IF lsu_hs \/ req_buf_hs THEN <<>> ELSE req_buf
           /\ AtMostOneOf(Half, req_buf')
           /\ lsu_hs /\ split(dcache[1]) => Entering = <<first_part(dcache[1])>>
           /\ req_buf' # <<>> /\ ~lsu_hs => Entering = <<>> /\ req_buf' = req_buf /\ mem_req' = mem_req
<1>1. req_buf' = IF lsu_hs /\ split(dcache[1]) THEN <<SecondHalf(dcache[1], wr_addr)>>
                 ELSE IF lsu_hs \/ req_buf_tready THEN <<>> ELSE req_buf
  BY DEF Goes, Edge, Issue, SecondHalf
<1>2. /\ ~(lsu_hs /\ req_buf_hs) /\ (req_buf_hs => req_buf_tready)
      /\ ~req_buf_hs /\ req_buf_tready => req_buf = <<>>
      /\ AtMostOneOf(Half, req_buf) /\ wr_addr \in Slots
      /\ lsu_hs => dcache # <<>> /\ dcache[1] \in Lookup
  BY Wires, Lengths DEF Shapes
<1>3. req_buf' = IF lsu_hs /\ split(dcache[1]) THEN <<SecondHalf(dcache[1], wr_addr)>>
                 ELSE IF lsu_hs \/ req_buf_hs THEN <<>> ELSE req_buf
  BY <1>1, <1>2
<1>4. lsu_hs /\ split(dcache[1]) => SecondHalf(dcache[1], wr_addr) \in Half
  BY <1>2, SecondHalfType
<1>5. AtMostOneOf(Half, req_buf')
  BY <1>2, <1>3, <1>4 DEF AtMostOneOf
<1>6. ASSUME lsu_hs, split(dcache[1]) PROVE Entering = <<first_part(dcache[1])>>
  <2>1. dcache[1].addr \in Addr /\ dcache[1].cmd \in Cmds /\ lane(dcache[1].addr) = 3
    BY <1>2, <1>6 DEF Lookup, split
  <2>2. odd(dcache[1].addr)
    BY <2>1, OddLane
  <2>3. dcache[1].cmd = "write" \/ missing
    BY <1>6, <2>1, <2>2 DEF missing, adding, dcache_thit, Cmds
  <2> QED
    BY <1>2, <1>6, <2>3 DEF Entering
<1>7. ASSUME req_buf' # <<>>, ~lsu_hs PROVE Entering = <<>> /\ req_buf' = req_buf /\ mem_req' = mem_req
  <2>1. ~req_buf_hs /\ req_buf' = req_buf
    BY <1>3, <1>7
  <2>2. ~req_buf_tready
    BY <1>2, <1>7, <2>1
  <2>3. Entering = <<>>
    BY <1>7, <2>1 DEF Entering
  <2> QED
    BY <2>1, <2>2, <2>3, RowStep
<1> QED
  BY <1>3, <1>5, <1>6, <1>7

LEMMA HalfStep ==
    ASSUME NEW request, NEW taken, NEW ready, NEW answers, Goes(request, taken, ready, answers)
    PROVE  HalfBehind'
<1> SUFFICES ASSUME req_buf' # <<>> PROVE mem_req' # <<>> /\ mem_req'[1].cmd = req_buf'[1].cmd
  BY DEF HalfBehind
<1>1. CASE lsu_hs
  <2>1. split(dcache[1]) /\ req_buf' = <<SecondHalf(dcache[1], wr_addr)>> /\ Entering = <<first_part(dcache[1])>>
    BY <1>1, BufStep
  <2>2. mem_req' = <<first_part(dcache[1])>>
    BY <2>1, RowStep
  <2>3. first_part(dcache[1]).cmd = SecondHalf(dcache[1], wr_addr).cmd
    BY DEF first_part, SecondHalf
  <2> QED
    BY <2>1, <2>2, <2>3
<1>2. CASE ~lsu_hs
  <2>1. req_buf' = req_buf /\ mem_req' = mem_req
    BY <1>2, BufStep
  <2> QED
    BY <2>1 DEF Goes, DataInv, HalfBehind
<1> QED
  BY <1>1, <1>2

LEMMA BehindStep ==
    ASSUME NEW request, NEW taken, NEW ready, NEW answers, Goes(request, taken, ready, answers)
    PROVE  BehindBuf' = IF lsu_hs /\ dcache[1].cmd = "write"
                        THEN written(BehindBuf, dcache[1], dcache[1].data) ELSE BehindBuf
<1> DEFINE d == dcache[1]
           m == BehindRow
           n == BehindRow'
           h == SecondHalf(d, wr_addr)
<1>1. /\ n = IF Entering # <<>> THEN Wrote(m, Entering[1]) ELSE m
      /\ BehindBuf' = IF req_buf' # <<>> THEN Wrote(n, second_part(req_buf'[1])) ELSE n
      /\ BehindBuf = IF req_buf # <<>> THEN Wrote(m, second_part(req_buf[1])) ELSE m
      /\ m \in [Addr -> Byte] /\ wr_addr \in Slots
  <2>1. BehindBuf' = IF req_buf' # <<>> THEN Wrote(n, second_part(req_buf'[1])) ELSE n
    BY DEF BehindBuf, Wrote, second_part
  <2> QED
    BY <2>1, BeforeStep, Wires, BeforeType DEF BehindBuf, Shapes
<1>2. req_buf' = IF lsu_hs /\ split(d) THEN <<h>> ELSE IF lsu_hs \/ req_buf_hs THEN <<>> ELSE req_buf
  BY BufStep
<1>3. /\ ~(lsu_hs /\ req_buf_hs)
      /\ lsu_hs => d \in Lookup /\ req_buf = <<>>
      /\ req_buf_hs => req_buf # <<>>
  BY Wires, Lengths
<1> HIDE DEF m, n, d, h
<1>4. CASE req_buf_hs
  <2>1. Entering = <<second_part(req_buf[1])>> /\ req_buf' = <<>>
    BY <1>2, <1>3, <1>4, OfferFacts
  <2> QED
    BY <1>1, <1>3, <1>4, <2>1
<1>5. CASE lsu_hs /\ d.cmd = "write"
  <2>1. Entering = <<first_part(d)>>
    BY <1>3, <1>5 DEF Entering, d
  <2>2. n = Wrote(m, first_part(d)) /\ BehindBuf = m
    BY <1>1, <1>3, <1>5, <2>1
  <2>3. BehindBuf' = IF split(d) THEN Wrote(n, second_part(h)) ELSE n
    BY <1>1, <1>2, <1>3, <1>5
  <2>4. written(m, d, d.data) = IF split(d) THEN Wrote(Wrote(m, first_part(d)), second_part(h)) ELSE Wrote(m, first_part(d))
    BY <1>1, <1>3, <1>5, WriteInParts DEF h
  <2> QED
    BY <1>5, <2>2, <2>3, <2>4 DEF d
<1>6. CASE lsu_hs /\ d.cmd # "write"
  <2>1. first_part(d) \in Part /\ first_part(d).cmd = "read" /\ d.cmd = "read"
    BY <1>3, <1>6, FirstPartType DEF Lookup, Cmds
  <2>2. Entering # <<>> => Entering[1] = first_part(d)
    BY <1>3, <1>6, OfferFacts DEF d
  <2>3. n = m
    BY <1>1, <2>1, <2>2 DEF Wrote
  <2>4. split(d) => second_part(h).cmd = "read"
    BY <2>1 DEF h, SecondHalf, second_part
  <2>5. BehindBuf' = m
    BY <1>1, <1>2, <1>3, <1>6, <2>3, <2>4 DEF Wrote
  <2> QED
    BY <1>1, <1>3, <1>6, <2>5 DEF d
<1>7. CASE ~lsu_hs /\ ~req_buf_hs
  <2>1. Entering = <<>> /\ req_buf' = req_buf
    BY <1>2, <1>7 DEF Entering
  <2> QED
    BY <1>1, <1>7, <2>1
<1> QED
  BY <1>3, <1>4, <1>5, <1>6, <1>7 DEF d

LEMMA OrderOfMemory ==
    ASSUME NEW request, NEW taken, NEW ready, NEW answers, Goes(request, taken, ready, answers)
    PROVE  MemoryInOrder'
<1> DEFINE d == dcache[1]
           e == dcache'[1]
           m == BehindBuf
           n == BehindBuf'
<1>1. /\ program = IF dcache # <<>> /\ d.cmd = "write" THEN written(m, d, d.data) ELSE m
      /\ n = IF lsu_hs /\ d.cmd = "write" THEN written(m, d, d.data) ELSE m
      /\ lsu_hs <=> dcache # <<>> /\ lsu_req_tready
  BY BehindStep DEF Goes, DataInv, MemoryInOrder, lsu_hs
<1>2. MemoryInOrder' <=> program' = IF dcache' # <<>> /\ e.cmd = "write" THEN written(n, e, e.data) ELSE n
  BY DEF MemoryInOrder, written
<1> HIDE DEF m, n, d, e
<1>3. CASE request # <<>>
  <2>1. /\ dcache' # <<>> /\ (dcache = <<>> \/ lsu_hs)
        /\ program' = IF e.cmd = "write" THEN written(program, e, e.data) ELSE program
    BY <1>3, RequestStep DEF e
  <2>2. n = program
    BY <1>1, <2>1
  <2> QED
    BY <1>2, <2>1, <2>2
<1>4. CASE request = <<>>
  <2>1. dcache' = (IF lsu_req_tready THEN <<>> ELSE dcache) /\ program' = program
    BY <1>4, IdleStep
  <2>2. CASE lsu_req_tready
    <3>1. n = program /\ dcache' = <<>>
      BY <1>1, <2>1, <2>2
    <3> QED
      BY <1>2, <2>1, <3>1
  <2>3. CASE ~lsu_req_tready
    <3>1. n = m /\ dcache' = dcache /\ e = d
      BY <1>1, <2>1, <2>3 DEF e, d
    <3> QED
      BY <1>1, <1>2, <2>1, <3>1
  <2> QED
    BY <2>2, <2>3
<1> QED
  BY <1>3, <1>4

-----------------------------------------------------------------------------
(* The data cache.  Two even addresses of one line with one tag are the      *)
(* same: the bytes that share a tag are no more than those of all lines.     *)
LEMMA Evens ==
    ASSUME NEW a \in Nat, a % 2 # 1
    PROVE  a = 2 * (a \div 2) /\ a \div 2 \in Nat /\ (a + 1) \div 2 = a \div 2 /\ (a + 1) % 2 = 1
<1>1. a = 2 * (a \div 2) + (a % 2) /\ a \div 2 \in Nat /\ a % 2 \in 0 .. 1
  BY DivMod
<1>2. a = 2 * (a \div 2)
  BY <1>1
<1> QED
  BY <1>1, <1>2

LEMMA SameLine ==
    ASSUME NEW a \in Addr, NEW b \in Addr, ~odd(a), ~odd(b), s_index(a) = s_index(b), m_tag(a) = m_tag(b)
    PROVE  a = b
<1>1. \A x, y \in Addr : ~odd(x) /\ ~odd(y) /\ s_index(x) = s_index(y) /\ m_tag(x) = m_tag(y) /\ x <= y => x = y
  <2> SUFFICES ASSUME NEW x \in Addr, NEW y \in Addr, ~odd(x), ~odd(y),
                      s_index(x) = s_index(y), m_tag(x) = m_tag(y), x <= y
               PROVE  x = y
    OBVIOUS
  <2>1. x \in Nat /\ y \in Nat /\ x % 2 # 1 /\ y % 2 # 1
    BY Constants DEF Addr, odd
  <2> DEFINE p == x \div 2
             q == y \div 2
  <2>2. x = 2 * p /\ y = 2 * q /\ p \in Nat /\ q \in Nat
    BY <2>1, Evens
  <2>3. p % LINES = q % LINES /\ x \div TAG_SPAN = y \div TAG_SPAN
    BY DEF s_index, m_tag
  <2>4. LINES \in Nat \ {0} /\ TAG_SPAN \in Nat \ {0} /\ TAG_SPAN <= 2 * LINES
    BY Constants
  <2>5. y < x + TAG_SPAN
    BY <2>1, <2>3, <2>4, Quotients
  <2> HIDE DEF p, q
  <2>6. p <= q /\ q < p + LINES
    BY <2>2, <2>4, <2>5
  <2>7. p = q
    BY <2>2, <2>3, <2>4, <2>6, Remainders
  <2> QED
    BY <2>2, <2>7
<1>2. a <= b \/ b <= a
  BY Constants DEF Addr
<1> QED
  BY <1>1, <1>2

LEMMA LinesStep ==
    ASSUME NoOddWords,
           NEW request, NEW taken, NEW ready, NEW answers, Goes(request, taken, ready, answers)
    PROVE  LinesAreCurrent' /\ cache' \in [0 .. LINES - 1 -> Line] /\ program' \in [Addr -> Byte]
<1> DEFINE d == dcache'[1]
           C == cache'
           M == program'
<1>1. /\ cache \in [0 .. LINES - 1 -> Line] /\ program \in [Addr -> Byte]
      /\ \A a \in 0 .. SIZE - 2 :
           ~odd(a) /\ cache[s_index(a)].vld /\ cache[s_index(a)].tag = m_tag(a) =>
              cache[s_index(a)].word = <<program[a], program[a + 1]>>
  BY DEF Goes, DataInv, Shapes, LinesAreCurrent
<1>2. SUFFICES /\ \A a \in 0 .. SIZE - 2 :
                    ~odd(a) /\ C[s_index(a)].vld /\ C[s_index(a)].tag = m_tag(a) =>
                       C[s_index(a)].word = <<M[a], M[a + 1]>>
               /\ C \in [0 .. LINES - 1 -> Line] /\ M \in [Addr -> Byte]
  BY DEF LinesAreCurrent
<1>3. CASE ~(request # <<>> /\ d.cmd = "write")
  <2>1. C = cache /\ M = program
    BY <1>3, RequestStep, IdleStep
  <2> QED
    BY <1>1, <2>1
<1>4. CASE request # <<>> /\ d.cmd = "write"
  <2> DEFINE b == d.addr
             line == line_after(d, d.data)
  <2>1. /\ d \in Lookup /\ request[1] \in Requests /\ request[1].cmd = "write"
        /\ request[1].addr = b /\ request[1].w = d.w
        /\ C = [cache EXCEPT ![s_index(b)] = line] /\ M = written(program, d, d.data)
    BY <1>4, RequestStep
  <2>2. b \in Addr /\ d.w \in BOOLEAN /\ d.data \in Pair /\ d.data = <<d.data[1], d.data[2]>>
        /\ s_index(b) \in 0 .. LINES - 1 /\ m_tag(b) \in Nat
    <3>1. b \in Addr /\ d.w \in BOOLEAN /\ d.data \in Pair
      BY <2>1 DEF Lookup
    <3>2. d.data = <<d.data[1], d.data[2]>>
      BY <3>1 DEF Pair
    <3> QED
      BY <3>1, <3>2, IndexType
  <2>3. d.w => ~odd(b)
    BY <2>1 DEF NoOddWords
  <2>4. line = IF d.w THEN [vld |-> TRUE, tag |-> m_tag(b), word |-> d.data]
               ELSE [cache[s_index(b)] EXCEPT !.vld = FALSE]
    BY <2>3 DEF line_after
  <2>5. line \in Line /\ (d.w => line.tag = m_tag(b) /\ line.word = d.data) /\ (~d.w => ~line.vld)
    <3>1. CASE d.w
      BY <2>2, <2>4, <3>1 DEF Line
    <3>2. CASE ~d.w
      <4>1. cache[s_index(b)] \in Line
        BY <1>1, <2>2
      <4> QED
        BY <2>4, <3>2, <4>1 DEF Line
    <3> QED
      BY <3>1, <3>2
  <2> HIDE DEF line
  <2>6. /\ C \in [0 .. LINES - 1 -> Line]
        /\ \A i \in 0 .. LINES - 1 : C[i] = IF i = s_index(b) THEN line ELSE cache[i]
    BY <1>1, <2>1, <2>2, <2>5
  <2>7. d.w => (b + 1) % SIZE = b + 1 /\ b + 1 \in Addr
    BY <2>2, <2>3, OddLane
  <2>8. /\ M \in [Addr -> Byte]
        /\ \A x \in Addr : M[x] = IF d.w /\ x = b + 1 THEN d.data[2]
                                  ELSE IF x = b THEN d.data[1] ELSE program[x]
    <3>1. /\ written(program, d, d.data) \in [Addr -> Byte]
          /\ \A x \in Addr : written(program, d, d.data)[x] =
                IF d.w /\ x = (b + 1) % SIZE THEN d.data[2] ELSE IF x = b THEN d.data[1] ELSE program[x]
      BY <1>1, <2>1, <2>2, WrittenFacts
    <3> HIDE DEF d, b, M
    <3> QED
      BY <2>1, <2>7, <3>1
  <2> HIDE DEF C, M
  <2>9. ASSUME NEW a \in 0 .. SIZE - 2, ~odd(a), C[s_index(a)].vld, C[s_index(a)].tag = m_tag(a)
        PROVE  C[s_index(a)].word = <<M[a], M[a + 1]>>
    <3>1. a \in Addr /\ a + 1 \in Addr /\ a \in Nat /\ a % 2 # 1
      BY <2>9, Constants DEF Addr, odd
    <3>2. s_index(a) \in 0 .. LINES - 1
      BY <3>1, IndexType
    <3>3. CASE s_index(a) = s_index(b)
      <4>1. C[s_index(a)] = line /\ d.w
        BY <2>2, <2>5, <2>6, <2>9, <3>2, <3>3
      <4>2. m_tag(a) = m_tag(b) /\ ~odd(b)
        BY <2>3, <2>5, <2>9, <4>1
      <4>3. a = b
        BY <2>2, <2>9, <3>1, <3>3, <4>2, SameLine
      <4>4. M[a] = d.data[1] /\ M[a + 1] = d.data[2]
        <5>1. a # b + 1
          BY <3>1, <4>3
        <5> QED
          BY <2>8, <3>1, <4>1, <4>3, <5>1
      <4> QED
        BY <2>2, <2>5, <4>1, <4>4
    <3>4. CASE s_index(a) # s_index(b)
      <4>1. C[s_index(a)] = cache[s_index(a)]
        BY <2>6, <3>2, <3>4
      <4>2. a # b /\ a + 1 # b
        <5>1. (a + 1) \div 2 = a \div 2
          BY <3>1, Evens
        <5>2. s_index(a + 1) = s_index(a)
          BY <5>1 DEF s_index
        <5> QED
          BY <3>4, <5>2
      <4>3. d.w => a # b + 1 /\ a + 1 # b + 1
        <5> SUFFICES ASSUME d.w PROVE a # b + 1 /\ a + 1 # b + 1
          OBVIOUS
        <5>1. b \in Nat /\ b % 2 # 1
          BY <2>2, <2>3, Constants DEF Addr, odd
        <5>2. (b + 1) % 2 = 1
          BY <5>1, Evens
        <5>3. a # b + 1
          BY <3>1, <5>2
        <5> HIDE DEF b
        <5>4. a + 1 # b + 1
          BY <3>1, <4>2, <5>1
        <5> QED
          BY <5>3, <5>4
      <4>4. M[a] = program[a] /\ M[a + 1] = program[a + 1]
        BY <2>8, <3>1, <4>2, <4>3
      <4> QED
        BY <1>1, <2>9, <4>1, <4>4
    <3> QED
      BY <3>3, <3>4
  <2> QED
    BY <2>6, <2>8, <2>9
<1> QED
  BY <1>3, <1>4

LEMMA LookupStep ==
    ASSUME NEW request, NEW taken, NEW ready, NEW answers, Goes(request, taken, ready, answers)
    PROVE  LookupHolds'
<1> DEFINE d == dcache'[1]
           k == Num(ReadsOut(taken))
           x == Len(expected)
           y == Len(expected')
           A == Asking(request)
<1> SUFFICES ASSUME reading'
             PROVE  /\ expected'[y] = word_at(program', d)
                    /\ dcache_thit(d) => d.q = <<program'[d.addr], program'[d.addr + 1]>>
  <2>1. LookupHolds' <=> (reading' => /\ expected'[y] = word_at(program', d)
                                      /\ dcache_thit(d) => d.q = <<program'[d.addr], program'[d.addr + 1]>>)
    BY DEF LookupHolds, word_at, dcache_thit
  <2> QED
    BY <2>1
<1>1. /\ y = (x - k) + Len(A) /\ x - k \in Nat
      /\ \A i \in 1 .. x - k : expected'[i] = expected[i + k]
      /\ A # <<>> => expected'[(x - k) + 1] = A[1]
      /\ Len(A) = Num(A # <<>>)
  BY ExpectedStep, OneIsSeq DEF MovedOn
<1>2. CASE request # <<>>
  <2>1. /\ d \in Lookup /\ d.cmd = "read" /\ program' = program
        /\ d.vld = cache[s_index(d.addr)].vld /\ d.tag = cache[s_index(d.addr)].tag
        /\ d.q = cache[s_index(d.addr)].word
    BY <1>2, RequestStep DEF reading
  <2>2. A = <<word_at(program, d)>>
    BY <1>2, <2>1 DEF Asking
  <2>3. y = (x - k) + 1
    BY <1>1, <2>2
  <2>4. expected'[y] = word_at(program', d)
    BY <1>1, <2>1, <2>2, <2>3
  <2>5. ASSUME dcache_thit(d) PROVE d.q = <<program'[d.addr], program'[d.addr + 1]>>
    <3>1. d.addr \in Addr /\ ~odd(d.addr) /\ d.vld /\ d.tag = m_tag(d.addr)
      BY <2>1, <2>5 DEF dcache_thit, Lookup
    <3>2. d.addr + 1 \in Addr
      BY <3>1, OddLane
    <3>3. d.addr \in 0 .. SIZE - 2
      BY <3>1, <3>2, Constants DEF Addr
    <3> QED
      BY <2>1, <3>1, <3>3 DEF Goes, DataInv, LinesAreCurrent
  <2> QED
    BY <2>4, <2>5
<1>3. CASE request = <<>>
  <2>1. reading /\ d = dcache[1] /\ program' = program /\ A = <<>>
    BY <1>3, ExpectedStep, IdleStep DEF Asking
  <2>2. x = fifo_cnt + 1 /\ (k = 1 => fifo_cnt # 0) /\ fifo_cnt \in Nat
    <3>1. x = fifo_cnt + Num(reading) /\ fifo_cnt \in 0 .. SLOTS - 1
      BY DEF Goes, DataInv, Counters
    <3>2. k = 1 => ReadsOut(taken)
      BY DEF Num
    <3> QED
      BY <2>1, <3>1, <3>2, ExpectedStep, Constants DEF Num
  <2>3. k \in {0, 1} /\ y = x - k
    <3>1. Len(A) = 0
      BY <1>1, <2>1 DEF Num
    <3> QED
      BY <1>1, <3>1 DEF Num
  <2> HIDE DEF x, y, k
  <2>4. y \in 1 .. x - k /\ y + k = x
    BY <2>2, <2>3
  <2>5. expected'[y] = expected[x]
    BY <1>1, <2>4
  <2>6. /\ expected[x] = word_at(program, dcache[1])
        /\ dcache_thit(dcache[1]) =>
              dcache[1].q = <<program[dcache[1].addr], program[dcache[1].addr + 1]>>
    BY <2>1 DEF Goes, DataInv, LookupHolds, x
  <2> QED
    BY <2>1, <2>5, <2>6
<1> QED
  BY <1>2, <1>3

-----------------------------------------------------------------------------
(* What the memory is asked is what the program expects.                     *)
LEMMA TagFacts ==
    ASSUME DataInv
    PROVE  /\ Len(Tags) = n_came + Nth(3) /\ n_came \in Nat /\ n_rd \in {0, 1} /\ n_rd <= n_came
           /\ Nth(3) \in 0 .. 3 /\ Len(Tags) \in Nat
           /\ \A i \in 1 .. Len(Tags) : Tags[i] \in Tag /\ Tags[i].slot \in Slots /\ Waits(Tags[i].slot)
           /\ req_buf # <<>> /\ req_buf[1].cmd = "read" =>
                /\ Len(Tags) \in 1 .. Len(Tags) /\ Nth(3) >= 1
                /\ Tags[Len(Tags)].slot = req_buf[1].slot
                /\ req_buf[1].slot \in Slots /\ Waits(req_buf[1].slot)
<1> DEFINE l == Len(Tags)
<1>1. /\ Shapes /\ l = n_came + Nth(3) /\ \A i \in 1 .. l : Waits(Tags[i].slot)
      /\ req_buf # <<>> /\ req_buf[1].cmd = "read" => Halves(Tags[l], TailOf(req_buf[1].slot))
      /\ req_buf # <<>> => mem_req # <<>> /\ mem_req[1].cmd = req_buf[1].cmd
  BY DEF DataInv, AnswersFit, Order, HalfBehind
<1>2. n_rd \in {0, 1} /\ n_came \in Nat /\ n_rd <= n_came
  <2>1. n_rd = Num(mem_rd # <<>>) /\ Len(mem_pending) \in Nat
    BY <1>1, Lengths DEF n_rd
  <2>2. n_rd \in {0, 1}
    BY <2>1 DEF Num
  <2> DEFINE r == n_rd
             c == n_came
             p == Len(mem_pending)
  <2>3. c = r + p /\ r \in {0, 1} /\ p \in Nat
    BY <2>1, <2>2 DEF n_came
  <2> HIDE DEF r, c, p
  <2>4. c \in Nat /\ r <= c
    BY <2>3
  <2> QED
    BY <2>2, <2>4 DEF r, c
<1>3. l \in Nat /\ Nth(3) \in 0 .. 3
  BY <1>1, Lengths, NthFacts
<1>4. Tags \in Seq(Tag)
  BY <1>1, Lengths
<1>5. ASSUME NEW i \in 1 .. l PROVE Tags[i] \in Tag /\ Tags[i].slot \in Slots
  <2>1. Tags[i] \in Tag
    BY <1>4
  <2> QED
    BY <2>1 DEF Tag
<1>6. ASSUME req_buf # <<>>, req_buf[1].cmd = "read"
      PROVE  /\ l \in 1 .. l /\ Nth(3) >= 1 /\ Tags[l].slot = req_buf[1].slot
             /\ req_buf[1].slot \in Slots /\ Waits(req_buf[1].slot)
  <2>1. Nth(3) >= 1
    <3> DEFINE r == Len(Row)
    <3>1. r \in 0 .. 3 /\ r >= 1 /\ Row[r] = mem_req[1] /\ Row[r].cmd = "read"
      BY <1>1, <1>6, RowShape
    <3>2. r <= Len(Row)
      BY <3>1
    <3>3. IsRead(r) /\ r \in 1 .. r
      BY <3>1, <3>2 DEF IsRead
    <3>4. Nth(r) >= 1 /\ Nth(3) = Nth(r)
      BY <1>1, <3>3, NthFacts
    <3> HIDE DEF r
    <3> QED
      BY <3>4
  <2> HIDE DEF l
  <2>2. l \in 1 .. l
    BY <1>1, <1>2, <1>3, <2>1
  <2>3. Tags[l].slot = req_buf[1].slot
    BY <1>1, <1>6 DEF Halves, TailOf
  <2> QED
    BY <1>1, <1>5, <2>1, <2>2, <2>3 DEF l
<1> QED
  BY <1>1, <1>2, <1>3, <1>5, <1>6

(* The new tag, or the one that the second half will get, fits what is       *)
(* behind the row.                                                           *)
LEMMA NewTagFits ==
    ASSUME NEW request, NEW taken, NEW ready, NEW answers, Goes(request, taken, ready, answers)
    PROVE  /\ tag_offered # <<>> =>
                \A t : t = tag_offered[1] => Gives(t, bytes_of(Entering[1].cell, BehindRow), Wanted(t.slot)')
           /\ req_buf' # <<>> /\ req_buf'[1].cmd = "read" =>
                \A s : s = req_buf'[1].slot =>
                   Gives(TailOf(s), bytes_of(req_buf'[1].cell, BehindRow'), Wanted(s)')
<1> DEFINE d == dcache[1]
           m == BehindRow
<1>1. DataInv /\ m \in [Addr -> Byte] /\ wr_addr \in Slots
  BY Wires, BeforeType DEF Goes, Shapes
<1>2. req_buf # <<>> /\ req_buf[1].cmd = "read" =>
         \A s : s = req_buf[1].slot => /\ Wanted(s)' = Wanted(s)
                                       /\ Gives(TailOf(s), bytes_of(req_buf[1].cell, m), Wanted(s))
  <2> SUFFICES ASSUME req_buf # <<>>, req_buf[1].cmd = "read", NEW s, s = req_buf[1].slot
               PROVE  /\ Wanted(s)' = Wanted(s)
                      /\ Gives(TailOf(s), bytes_of(req_buf[1].cell, m), Wanted(s))
    OBVIOUS
  <2>1. req_buf[1].slot \in Slots /\ Waits(req_buf[1].slot)
    BY <1>1, TagFacts
  <2>2. Right(TailOf(req_buf[1].slot), bytes_of(req_buf[1].cell, m))
    BY <1>1 DEF DataInv, AnswersFit
  <2>3. TailOf(req_buf[1].slot).slot = req_buf[1].slot
    BY DEF TailOf
  <2> QED
    BY <2>1, <2>2, <2>3, SlotStep DEF Right
<1>3. lsu_hs /\ d.cmd = "read" =>
         /\ d \in Lookup /\ reading /\ req_buf = <<>> /\ adding
         /\ m = program /\ word_at(program, d) = word_at(m, d)
  <2> SUFFICES ASSUME lsu_hs, d.cmd = "read"
               PROVE  d \in Lookup /\ reading /\ req_buf = <<>> /\ adding /\ m = program
    OBVIOUS
  <2>1. dcache # <<>> /\ d \in Lookup /\ req_buf = <<>>
    BY Wires, Lengths
  <2>2. program = BehindBuf
    BY <1>1 DEF DataInv, MemoryInOrder
  <2> QED
    BY <2>1, <2>2 DEF BehindBuf, adding, reading
<1>4. \A i : adding /\ i = wr_addr => Wanted(i)' = word_at(program, d)
  BY LiveStep
<1>5. ASSUME tag_offered # <<>>, NEW t, t = tag_offered[1]
      PROVE  Gives(t, bytes_of(Entering[1].cell, m), Wanted(t.slot)')
  <2>1. CASE req_buf_hs
    <3>1. req_buf # <<>> /\ Entering = <<second_part(req_buf[1])>> /\ Entering[1].cmd = "read"
      BY <1>5, <2>1, OfferFacts, Wires
    <3>2. req_buf[1].cmd = "read" /\ Entering[1].cell = req_buf[1].cell
      BY <3>1 DEF second_part
    <3>3. t = TailOf(req_buf[1].slot)
      BY <1>5, <2>1, <3>2, OfferFacts
    <3>4. t.slot = req_buf[1].slot /\ t = TailOf(t.slot)
      BY <3>3 DEF TailOf
    <3> QED
      BY <1>2, <3>1, <3>2, <3>4
  <2>2. CASE ~req_buf_hs
    <3>1. missing /\ t = FirstHalf(d) /\ Entering = <<first_part(d)>>
      BY <1>5, <2>2, OfferFacts
    <3>2. lsu_hs /\ d.cmd = "read" /\ adding
      BY <3>1 DEF missing, adding
    <3>3. t.slot = wr_addr /\ t.tail = FALSE /\ t.w = d.w /\ t.lane = lane(d.addr)
      BY <3>1 DEF FirstHalf
    <3>4. Wanted(t.slot)' = word_at(m, d)
      BY <1>3, <1>4, <3>2, <3>3
    <3>5. Entering[1].cell = cell(d.addr)
      BY <3>1 DEF first_part
    <3>6. /\ bytes_of(cell(d.addr), m)[lane(d.addr)] = word_at(m, d)[1]
          /\ d.w /\ lane(d.addr) # 3 => bytes_of(cell(d.addr), m)[lane(d.addr) + 1] = word_at(m, d)[2]
          /\ ~d.w => word_at(m, d)[2] = 0
      BY <1>1, <1>3, <3>2, ReadInParts
    <3>7. Gives(t, bytes_of(cell(d.addr), m), word_at(m, d))
      BY <3>3, <3>6 DEF Gives
    <3> QED
      BY <3>4, <3>5, <3>7
  <2> QED
    BY <2>1, <2>2
<1>6. ASSUME req_buf' # <<>>, req_buf'[1].cmd = "read", NEW s, s = req_buf'[1].slot
      PROVE  Gives(TailOf(s), bytes_of(req_buf'[1].cell, BehindRow'), Wanted(s)')
  <2>1. BehindRow' = IF Entering # <<>> THEN Wrote(m, Entering[1]) ELSE m
    BY BeforeStep
  <2>2. CASE lsu_hs
    <3>1. split(d) /\ req_buf' = <<SecondHalf(d, wr_addr)>> /\ Entering = <<first_part(d)>>
      BY <1>6, <2>2, BufStep
    <3>2. d.cmd = "read" /\ s = wr_addr /\ req_buf'[1].cell = next_cell(cell(d.addr))
      BY <1>6, <3>1 DEF SecondHalf
    <3>3. BehindRow' = m
      BY <2>1, <3>1, <3>2 DEF Wrote, first_part
    <3>4. Wanted(s)' = word_at(m, d)
      BY <1>3, <1>4, <2>2, <3>2
    <3>5. bytes_of(next_cell(cell(d.addr)), m)[0] = word_at(m, d)[2]
      BY <1>1, <1>3, <2>2, <3>1, <3>2, ReadInParts
    <3>6. Gives(TailOf(s), bytes_of(next_cell(cell(d.addr)), m), word_at(m, d))
      BY <3>5 DEF Gives, TailOf
    <3> QED
      BY <3>2, <3>3, <3>4, <3>6
  <2>3. CASE ~lsu_hs
    <3>1. Entering = <<>> /\ req_buf' = req_buf
      BY <1>6, <2>3, BufStep
    <3>2. BehindRow' = m
      BY <2>1, <3>1
    <3> QED
      BY <1>2, <1>6, <3>1, <3>2
  <2> QED
    BY <2>2, <2>3
<1> QED
  BY <1>5, <1>6

LEMMA AnswersStep ==
    ASSUME NEW request, NEW taken, NEW ready, NEW answers, Goes(request, taken, ready, answers)
    PROVE  AnswersFit'
<1> DEFINE W(s) == expected'[Pos(rd_addr', s)]
           T == Tags'
           k == Num(ready)
           w == Num(ready /\ IsRead(1))
           r == n_rd
           c == n_came
           l == Len(Row)
           t == Len(Tags)
           o == tag_offered
           e == Num(Entering # <<>> /\ Entering[1].cmd = "read")
<1>1. PICK n : n = l - k
  OBVIOUS
<1>2. PICK C : C = n_came'
  OBVIOUS
<1>3. /\ t = c + Nth(3) /\ c \in Nat /\ r \in {0, 1} /\ r <= c /\ Nth(3) \in 0 .. 3 /\ t \in Nat
      /\ \A i \in 1 .. t : Tags[i] \in Tag /\ Tags[i].slot \in Slots /\ Waits(Tags[i].slot)
  BY TagFacts DEF Goes
<1>4. /\ T \in Seq(Tag) /\ Len(T) = (t - r) + Len(o)
      /\ \A i \in 1 .. t - r : T[i] = Tags[i + r]
      /\ o # <<>> => T[(t - r) + 1] = o[1]
  BY TagStep DEF MovedOn
<1>5. /\ o # <<>> <=> (Entering # <<>> /\ Entering[1].cmd = "read")
      /\ Len(o) = e
  <2>1. (o # <<>> <=> (Entering # <<>> /\ Entering[1].cmd = "read")) /\ AtMostOneOf(Tag, o)
    BY OfferFacts
  <2>2. Len(o) = Num(o # <<>>)
    BY <2>1, OneIsSeq
  <2> QED
    BY <2>1, <2>2 DEF Num
<1>6. /\ C = (c - r) + w /\ \A i \in 1 .. c - r : Came(i)' = Came(i + r)
      /\ ready /\ IsRead(1) => \A i : i = (c - r) + 1 => Came(i)' = bytes_of(Row[1].cell, store)
  BY <1>2, CameStep
<1>7. /\ \A i \in 1 .. n : (IsRead(i)' <=> IsRead(i + k)) /\ Nth(i)' = Nth(i + k) - w
      /\ Entering # <<>> => (IsRead(n + 1)' <=> Entering[1].cmd = "read")
      /\ Nth(3)' = (Nth(3) - w) + e
      /\ Entering # <<>> => \A i : i = n + 1 => Nth(i)' = Nth(3)'
  BY <1>1, NthStep
<1>8. /\ l \in 0 .. 3 /\ k \in {0, 1} /\ k <= l /\ (k = 1 <=> ready)
      /\ \A i \in 1 .. n + 1 : Before(i)' = Before(i + k)
      /\ Len(Row') = n + Len(Entering) /\ Len(Entering) = Num(Entering # <<>>)
      /\ \A i \in 1 .. n : Row'[i] = Row[i + k]
      /\ Entering # <<>> => Row'[n + 1] = Entering[1]
  <2>1. /\ l \in 0 .. 3 /\ k \in {0, 1} /\ k <= l /\ (k = 1 <=> ready)
    BY Wires, RowShape, BeforeStep DEF Num
  <2>2. Len(Entering) = Num(Entering # <<>>)
    BY Wires, OneIsSeq
  <2>3. /\ Len(Row') = n + Len(Entering)
        /\ \A i \in 1 .. n : Row'[i] = Row[i + k]
        /\ Entering # <<>> => Row'[n + 1] = Entering[1]
    BY <1>1, RowStep DEF MovedOn
  <2> QED
    BY <1>1, <2>1, <2>2, <2>3, BeforeStep
<1>9. w \in {0, 1} /\ e \in {0, 1} /\ (w = 1 <=> ready /\ IsRead(1)) /\ (e = 1 <=> o # <<>>)
  BY <1>5 DEF Num
<1>10. /\ \A s : Wanted(s)' = W(s)
       /\ \A s \in Slots : Waits(s) => W(s) = Wanted(s)
  <2>1. \A s : Wanted(s)' = W(s)
    BY DEF Wanted, Pos, Ahead
  <2> HIDE DEF W
  <2> QED
    BY <2>1, SlotStep
<1>11. /\ \A i \in 1 .. c : Right(Tags[i], Came(i))
       /\ \A i \in 1 .. l : IsRead(i) => Right(Tags[c + Nth(i)], bytes_of(Row[i].cell, Before(i)))
  BY DEF Goes, DataInv, AnswersFit
<1>12. /\ \A i \in 1 .. l : Nth(i) \in 0 .. 3 /\ Nth(i) <= Nth(3) /\ (IsRead(i) => Nth(i) >= 1)
       /\ Nth(1) = Num(IsRead(1)) /\ Before(1) = store
  <2>1. /\ \A i \in 0 .. 3 : Nth(i) \in 0 .. 3
        /\ \A i, j \in 1 .. l : i <= j => Nth(i) <= Nth(j) /\ Nth(j) <= Nth(3)
        /\ \A i \in 1 .. l : IsRead(i) => Nth(i) >= 1
    BY Wires, NthFacts
  <2>2. Nth(1) = Num(IsRead(1)) /\ Before(1) = store
    BY DEF Nth, Before
  <2> HIDE DEF l
  <2>3. \A i \in 1 .. l : i \in 0 .. 3 /\ i <= i
    BY <1>8
  <2> QED
    BY <2>1, <2>2, <2>3
<1> HIDE DEF W, T, k, w, r, c, l, t, o, e
<1>13. \A x \in 1 .. t - r : /\ x + r \in 1 .. t /\ T[x] = Tags[x + r] /\ W(T[x].slot) = Wanted(Tags[x + r].slot)
  <2> SUFFICES ASSUME NEW x \in 1 .. t - r
               PROVE  x + r \in 1 .. t /\ T[x] = Tags[x + r] /\ W(T[x].slot) = Wanted(Tags[x + r].slot)
    OBVIOUS
  <2>1. x + r \in 1 .. t
    BY <1>3
  <2> QED
    BY <1>3, <1>4, <1>10, <2>1
<1>14. Len(T) = C + Nth(3)'
  <2> DEFINE p == Nth(3)
             q == Nth(3)'
             m == Len(T)
  <2>1. t = c + p /\ c \in Nat /\ r \in {0, 1} /\ p \in 0 .. 3 /\ w \in {0, 1} /\ e \in {0, 1}
    BY <1>3, <1>9
  <2>2. m = (t - r) + e /\ C = (c - r) + w /\ q = (p - w) + e
    BY <1>4, <1>5, <1>6, <1>7
  <2> HIDE DEF p, q, m
  <2>3. m = C + q
    BY <2>1, <2>2
  <2> QED
    BY <2>3 DEF m, q
<1>15. ASSUME NEW i \in 1 .. C PROVE Gives(T[i], Came(i)', W(T[i].slot))
  <2>1. CASE i <= c - r
    <3>1. i \in 1 .. c - r /\ i + r \in 1 .. c /\ i \in 1 .. t - r
      BY <1>3, <1>6, <1>9, <2>1
    <3>2. Right(Tags[i + r], Came(i + r)) /\ Came(i)' = Came(i + r)
      BY <1>6, <1>11, <3>1
    <3> QED
      BY <1>13, <3>1, <3>2 DEF Right
  <2>2. CASE ~(i <= c - r)
    <3>1. i = (c - r) + 1 /\ w = 1
      BY <1>3, <1>6, <1>9, <2>2
    <3>2. ready /\ IsRead(1) /\ Nth(1) = 1 /\ 1 \in 1 .. l
      BY <1>8, <1>9, <1>12, <3>1 DEF Num
    <3>3. Came(i)' = bytes_of(Row[1].cell, store)
      BY <1>6, <3>1, <3>2
    <3>4. Right(Tags[c + 1], bytes_of(Row[1].cell, store))
      BY <1>11, <1>12, <3>2
    <3>5. i \in 1 .. t - r /\ i + r = c + 1
      <4>1. Nth(3) >= 1
        BY <1>3, <1>12, <3>2
      <4> QED
        BY <1>3, <3>1, <4>1
    <3> QED
      BY <1>13, <3>3, <3>4, <3>5 DEF Right
  <2> QED
    BY <2>1, <2>2
<1>16. ASSUME NEW i \in 1 .. Len(Row'), IsRead(i)'
       PROVE  \A j : j = C + Nth(i)' => Gives(T[j], bytes_of(Row'[i].cell, Before(i)'), W(T[j].slot))
  <2> SUFFICES ASSUME NEW j, j = C + Nth(i)'
               PROVE  Gives(T[j], bytes_of(Row'[i].cell, Before(i)'), W(T[j].slot))
    OBVIOUS
  <2>1. CASE i <= n
    <3>1. i \in 1 .. n /\ i + k \in 1 .. l /\ i \in 1 .. n + 1
      BY <1>1, <1>8, <2>1 DEF k, l
    <3>2. IsRead(i + k) /\ Nth(i)' = Nth(i + k) - w /\ Row'[i] = Row[i + k] /\ Before(i)' = Before(i + k)
      BY <1>7, <1>8, <1>16, <3>1
    <3>3. j = (c - r) + Nth(i + k) /\ Nth(i + k) >= 1 /\ Nth(i + k) <= Nth(3) /\ Nth(i + k) \in Nat
      <4> DEFINE x == Nth(i + k)
                 y == Nth(i)'
      <4>1. x \in 0 .. 3 /\ x <= Nth(3) /\ x >= 1 /\ y = x - w
        BY <1>12, <3>1, <3>2
      <4>2. j = C + y
        OBVIOUS
      <4> HIDE DEF x, y
      <4>3. j = (c - r) + x
        BY <1>3, <1>6, <1>9, <4>1, <4>2
      <4> QED
        BY <4>1, <4>3 DEF x
    <3>4. j \in 1 .. t - r /\ j + r = c + Nth(i + k)
      BY <1>3, <3>3
    <3>5. Right(Tags[c + Nth(i + k)], bytes_of(Row[i + k].cell, Before(i + k)))
      BY <1>11, <3>1, <3>2
    <3> QED
      BY <1>13, <3>2, <3>4, <3>5 DEF Right
  <2>2. CASE ~(i <= n)
    <3>1. Entering # <<>> /\ i = n + 1
      BY <1>1, <1>8, <2>2 DEF Num, k, l
    <3>2. o # <<>> /\ Nth(i)' = Nth(3)' /\ e = 1 /\ Row'[i] = Entering[1]
      BY <1>5, <1>7, <1>8, <1>9, <1>16, <3>1
    <3>3. j = (t - r) + 1
      BY <1>3, <1>6, <1>7, <1>9, <3>2
    <3>4. T[j] = o[1]
      BY <1>4, <3>2, <3>3
    <3>5. Before(i)' = BehindRow
      <4>1. i \in 1 .. n + 1 /\ i + k = l + 1
        BY <1>1, <1>8, <3>1 DEF k, l
      <4>2. Before(i)' = Before(l + 1)
        BY <1>8, <4>1
      <4> QED
        BY <4>2 DEF BehindRow, l
    <3>6. Gives(T[j], bytes_of(Entering[1].cell, BehindRow), W(T[j].slot))
      <4>1. \A x : x = tag_offered[1] => Gives(x, bytes_of(Entering[1].cell, BehindRow), Wanted(x.slot)')
        BY <3>2, NewTagFits DEF o
      <4>2. \A x : x = T[j] => Gives(x, bytes_of(Entering[1].cell, BehindRow), Wanted(x.slot)')
        BY <3>4, <4>1 DEF o
      <4>3. \A x : x = T[j] => Gives(x, bytes_of(Entering[1].cell, BehindRow), W(x.slot))
        BY <1>10, <4>2
      <4> QED
        BY <4>3
    <3> QED
      BY <3>2, <3>5, <3>6
  <2> QED
    BY <2>1, <2>2
<1>17. ASSUME req_buf' # <<>>, req_buf'[1].cmd = "read"
       PROVE  Gives(TailOf(req_buf'[1].slot), bytes_of(req_buf'[1].cell, BehindRow'), W(req_buf'[1].slot))
  <2>1. \A s : s = req_buf'[1].slot => Gives(TailOf(s), bytes_of(req_buf'[1].cell, BehindRow'), Wanted(s)')
    BY <1>17, NewTagFits
  <2>2. \A s : s = req_buf'[1].slot => Gives(TailOf(s), bytes_of(req_buf'[1].cell, BehindRow'), W(s))
    BY <1>10, <2>1
  <2> QED
    BY <2>2
<1>18. \A i : Right(Tags[i], Came(i))' <=> Gives(T[i], Came(i)', W(T[i].slot))
  BY DEF Right, Gives, Wanted, Pos, Ahead, W, T
<1>19. \A i : Right(Tags[n_came + Nth(i)], bytes_of(Row[i].cell, Before(i)))' <=>
              Gives(T[n_came' + Nth(i)'], bytes_of(Row'[i].cell, Before(i)'), W(T[n_came' + Nth(i)'].slot))
  BY DEF Right, Gives, Wanted, Pos, Ahead, W, T, bytes_of
<1>20. Right(TailOf(req_buf[1].slot), bytes_of(req_buf[1].cell, BehindRow))' <=>
              Gives(TailOf(req_buf'[1].slot), bytes_of(req_buf'[1].cell, BehindRow'), W(req_buf'[1].slot))
  BY DEF Right, Gives, Wanted, Pos, Ahead, W, T, bytes_of, TailOf, lane
<1> HIDE DEF W
<1>21. /\ Len(T) = n_came' + Nth(3)'
       /\ \A i \in 1 .. n_came' : Right(Tags[i], Came(i))'
       /\ \A i \in 1 .. Len(Row') :
            IsRead(i)' => Right(Tags[n_came + Nth(i)], bytes_of(Row[i].cell, Before(i)))'
       /\ req_buf' # <<>> /\ req_buf'[1].cmd = "read" =>
            Right(TailOf(req_buf[1].slot), bytes_of(req_buf[1].cell, BehindRow))'
  <2>1. \A i \in 1 .. n_came' : Right(Tags[i], Came(i))'
    BY <1>2, <1>15, <1>18
  <2>2. ASSUME NEW i \in 1 .. Len(Row'), IsRead(i)'
        PROVE  Right(Tags[n_came + Nth(i)], bytes_of(Row[i].cell, Before(i)))'
    <3>1. PICK j : j = n_came' + Nth(i)'
      OBVIOUS
    <3>2. Gives(T[j], bytes_of(Row'[i].cell, Before(i)'), W(T[j].slot))
      BY <1>2, <1>16, <2>2, <3>1
    <3> QED
      BY <1>19, <3>1, <3>2
  <2>3. req_buf' # <<>> /\ req_buf'[1].cmd = "read" =>
            Right(TailOf(req_buf[1].slot), bytes_of(req_buf[1].cell, BehindRow))'
    BY <1>17, <1>18, <1>20
  <2> QED
    BY <1>2, <1>14, <2>1, <2>2, <2>3
<1> QED
  BY <1>21 DEF AnswersFit, T

-----------------------------------------------------------------------------
(* The slots that wait, one by one.                                          *)
LEMMA WaitStep ==
    ASSUME NEW request, NEW taken, NEW ready, NEW answers, Goes(request, taken, ready, answers),
           NEW s \in Slots, Waits(s)
    PROVE  /\ Wanted(s)' = Wanted(s) /\ Wanted(s) \in Pair
           /\ Pos(rd_addr, s) \in Nat /\ Pos(rd_addr, s) <= fifo_cnt
           /\ Pos(rd_addr', s) = Pos(rd_addr, s) - Num(ReadsOut(taken))
           /\ (upd # <<>> => Pos(rd_addr, upd[1].slot) # Pos(rd_addr, s)) => Waits(s)'
<1>1. Live(s) /\ ~(ReadsOut(taken) /\ s = rd_addr)
  BY LiveStep
<1>2. Pos(rd_addr', s) = Pos(rd_addr, s) - Num(ReadsOut(taken))
  BY <1>1, CountersStep
<1>3. Pos(rd_addr, s) \in 1 .. SLOTS
  <2>1. SLOTS \in Nat /\ SLOTS >= 2 /\ rd_addr \in 0 .. SLOTS - 1
    BY Wires, Constants DEF Shapes, Slots
  <2>2. \A i \in 0 .. SLOTS - 1 : Ahead(SLOTS, rd_addr, i) \in 1 .. SLOTS
    BY <2>1, RingFacts
  <2> QED
    BY <2>2 DEF Slots, Pos
<1>4. Pos(rd_addr, s) <= fifo_cnt
  BY <1>1 DEF Live
<1>5. Wanted(s) \in Pair
  <2> DEFINE x == Len(expected)
             p == Pos(rd_addr, s)
  <2>1. expected \in Seq(Pair) /\ x = fifo_cnt + Num(reading) /\ fifo_cnt \in 0 .. SLOTS - 1
    BY DEF Goes, DataInv, Shapes, Counters
  <2>2. Num(reading) \in {0, 1} /\ SLOTS \in Nat
    BY Constants DEF Num
  <2>3. p \in 1 .. x
    <3> HIDE DEF x, p
    <3>1. p \in 1 .. SLOTS /\ p <= fifo_cnt
      BY <1>3, <1>4 DEF p
    <3> QED
      BY <2>1, <2>2, <3>1
  <2>4. expected[p] \in Pair
    BY <2>1, <2>3
  <2> QED
    BY <2>4 DEF Wanted
<1> QED
  BY <1>2, <1>3, <1>4, <1>5, SlotStep

(* The tag of the answer, which is the first one.                            *)
LEMMA AnswerStep ==
    ASSUME NEW request, NEW taken, NEW ready, NEW answers, Goes(request, taken, ready, answers)
    PROVE  LET a == Tags[1]
           IN  /\ n_rd = 0 => upd' = <<>> /\ upd_lo' = upd_lo
               /\ n_rd = 1 =>
                    /\ Len(Tags) >= 1 /\ a \in Tag
                    /\ upd' = IF completes(a) THEN <<[slot |-> a.slot, data |-> loaded(a)]>> ELSE <<>>
                    /\ loaded(a) \in Pair
                    /\ completes(a) => loaded(a) = Wanted(a.slot)
                    /\ ~completes(a) => upd_lo' = Wanted(a.slot)[1]
               /\ AtMostOneOf(Result, upd') /\ upd_lo' \in Byte
<1> DEFINE a == Tags[1]
           f == mem_rd[1]
<1>1. /\ upd' = IF answered # <<>> /\ completes(answered[1])
                THEN <<[slot |-> answered[1].slot, data |-> loaded(answered[1])]>> ELSE <<>>
      /\ upd_lo' = IF answered # <<>> THEN loaded(answered[1])[1] ELSE upd_lo
      /\ answered = IF mem_rd # <<>> THEN fifo_0.res ELSE <<>>
  BY DEF Goes, Edge, Results, answered
<1>2. upd_lo \in Byte /\ n_rd = Num(mem_rd # <<>>) /\ (mem_rd # <<>> => f \in Quad)
  BY Wires, Lengths DEF Shapes, n_rd
<1>3. CASE n_rd = 0
  <2>1. answered = <<>>
    BY <1>1, <1>2, <1>3 DEF Num
  <2> QED
    BY <1>1, <1>2, <1>3, <2>1 DEF AtMostOneOf
<1>4. CASE n_rd # 0
  <2>1. mem_rd # <<>> /\ n_rd = 1 /\ f \in Quad
    BY <1>2, <1>4 DEF Num
  <2>2. fifo_0.res = <<a>> /\ Len(Tags) >= 1
    BY <2>1, TagStep
  <2>3. answered # <<>> /\ answered[1] = a
    BY <1>1, <2>1, <2>2
  <2>4. a \in Tag /\ a.slot \in Slots /\ Waits(a.slot)
    <3>1. 1 \in 1 .. Len(Tags)
      BY <2>2, TagFacts DEF Goes
    <3> QED
      BY <3>1, TagFacts DEF Goes
  <2>5. Gives(a, f, Wanted(a.slot))
    <3>1. 1 \in 1 .. n_came
      BY <2>1, TagFacts DEF Goes
    <3>2. Right(Tags[1], Came(1))
      BY <3>1 DEF Goes, DataInv, AnswersFit
    <3>3. Came(1) = f
      BY <2>1 DEF Came
    <3> QED
      BY <3>2, <3>3 DEF Right
  <2>6. a.tail => upd_lo = Wanted(a.slot)[1]
    <3>1. 1 \in 1 .. Len(Tags)
      BY <2>2, TagFacts DEF Goes
    <3> QED
      BY <3>1 DEF Goes, DataInv, Order
  <2> DEFINE W == Wanted(a.slot)
  <2>7. W \in Pair /\ W = <<W[1], W[2]>>
    <3>1. W \in Pair
      BY <2>4, WaitStep
    <3> QED
      BY <3>1 DEF Pair
  <2>8. loaded(a) = IF a.tail THEN <<upd_lo, f[0]>>
                    ELSE <<f[a.lane], IF a.w /\ a.lane # 3 THEN f[a.lane + 1] ELSE 0>>
    BY DEF loaded
  <2> HIDE DEF W, f, a
  <2>9. loaded(a) \in Pair
    <3>1. a.lane \in Lanes /\ a.tail \in BOOLEAN /\ a.w \in BOOLEAN /\ 0 \in Lanes /\ 0 \in Byte
      BY <2>4, Constants DEF Tag, Lanes, Byte
    <3>2. a.lane # 3 => a.lane + 1 \in Lanes
      BY <3>1 DEF Lanes
    <3>3. \A x \in Lanes : f[x] \in Byte
      BY <2>1 DEF Quad
    <3> QED
      BY <1>2, <2>8, <3>1, <3>2, <3>3 DEF Pair
  <2>10. completes(a) => loaded(a) = W
    <3>1. CASE a.tail
      BY <2>5, <2>6, <2>7, <2>8, <3>1 DEF Gives, W
    <3>2. CASE ~a.tail /\ a.w /\ a.lane # 3
      BY <2>5, <2>7, <2>8, <3>2 DEF Gives, W
    <3>3. CASE ~a.tail /\ ~a.w
      BY <2>5, <2>7, <2>8, <3>3 DEF Gives, W
    <3> QED
      BY <3>1, <3>2, <3>3 DEF completes
  <2>11. ~completes(a) => loaded(a)[1] = W[1]
    BY <2>5, <2>8 DEF Gives, W, completes
  <2>12. upd' = IF completes(a) THEN <<[slot |-> a.slot, data |-> loaded(a)]>> ELSE <<>>
    BY <1>1, <2>3
  <2>13. AtMostOneOf(Result, upd') /\ upd_lo' \in Byte
    <3>1. [slot |-> a.slot, data |-> loaded(a)] \in Result
      BY <2>4, <2>9 DEF Result
    <3>2. loaded(a)[1] \in Byte
      BY <2>9 DEF Pair
    <3> QED
      BY <1>1, <2>3, <2>12, <3>1, <3>2 DEF AtMostOneOf
  <2> QED
    BY <1>1, <2>1, <2>2, <2>3, <2>4, <2>9, <2>10, <2>11, <2>12, <2>13 DEF W, a
<1> QED
  BY <1>3, <1>4

LEMMA OrderStep ==
    ASSUME NEW request, NEW taken, NEW ready, NEW answers, Goes(request, taken, ready, answers)
    PROVE  Order'
<1> DEFINE T == Tags'
           t == Len(Tags)
           r == n_rd
           o == tag_offered
           k == Num(ReadsOut(taken))
           P(s) == Pos(rd_addr, s)
           Q(s) == Pos(rd_addr', s)
           W(s) == Wanted(s)
           V(s) == expected'[Pos(rd_addr', s)]
           X(s) == Pos(rd_addr', s) <= fifo_cnt' /\ ~slot'[s].vld
           c == fifo_cnt
<1>1. /\ t = n_came + Nth(3) /\ n_came \in Nat /\ r \in {0, 1} /\ r <= n_came /\ Nth(3) \in 0 .. 3 /\ t \in Nat
      /\ \A i \in 1 .. t : Tags[i] \in Tag /\ Tags[i].slot \in Slots /\ Waits(Tags[i].slot)
      /\ req_buf # <<>> /\ req_buf[1].cmd = "read" => Nth(3) >= 1
  BY TagFacts DEF Goes
<1>2. /\ \A i, j \in 1 .. t :
            i < j => P(Tags[i].slot) < P(Tags[j].slot) \/ (j = i + 1 /\ Halves(Tags[i], Tags[j]))
      /\ \A i \in 1 .. t : Tags[i].tail =>
            IF i = 1 THEN upd_lo = W(Tags[i].slot)[1] ELSE Halves(Tags[i - 1], Tags[i])
      /\ req_buf # <<>> /\ req_buf[1].cmd = "read" => Halves(Tags[t], TailOf(req_buf[1].slot))
      /\ upd # <<>> => Waits(upd[1].slot) /\ \A i \in 1 .. t : P(upd[1].slot) < P(Tags[i].slot)
  BY DEF Goes, DataInv, Order, Place
<1>3. /\ T \in Seq(Tag) /\ Len(T) = (t - r) + Len(o)
      /\ \A i \in 1 .. t - r : T[i] = Tags[i + r]
      /\ o # <<>> => T[(t - r) + 1] = o[1]
  BY TagStep DEF MovedOn
<1>4. Len(o) = Num(o # <<>>) /\ k \in {0, 1} /\ c \in Nat /\ c < SLOTS /\ SLOTS \in Nat
  <2>1. Len(o) = Num(o # <<>>)
    BY OfferFacts, OneIsSeq
  <2>2. c \in 0 .. SLOTS - 1 /\ SLOTS \in Nat
    BY Constants DEF Goes, DataInv, Counters
  <2>3. k \in {0, 1}
    BY DEF Num
  <2> QED
    BY <2>1, <2>2, <2>3
<1>5. \A s : (Waits(s)' <=> X(s)) /\ Wanted(s)' = V(s)
  BY DEF Waits, Live, Wanted, Pos, Ahead
<1>6. ASSUME NEW i \in 1 .. t, NEW s, s = Tags[i].slot
      PROVE  X(s) /\ V(s) = W(s) /\ P(s) \in Nat /\ P(s) <= c /\ Q(s) = P(s) - k
  <2>1. s \in Slots /\ Waits(s)
    BY <1>1, <1>6
  <2>2. V(s) = W(s) /\ P(s) \in Nat /\ P(s) <= c /\ Q(s) = P(s) - k
    BY <1>5, <2>1, WaitStep
  <2>3. ASSUME upd # <<>> PROVE P(upd[1].slot) # P(s)
    <3>1. upd[1].slot \in Slots
      BY <2>3, Wires, Lengths DEF Result
    <3>2. P(upd[1].slot) \in Nat
      BY <1>2, <2>3, <3>1, WaitStep
    <3>3. P(upd[1].slot) < P(s)
      BY <1>2, <1>6, <2>3
    <3> HIDE DEF P
    <3> QED
      BY <2>2, <3>2, <3>3
  <2>4. Waits(s)'
    BY <2>1, <2>3, WaitStep
  <2> QED
    BY <1>5, <2>2, <2>4
<1>7. ASSUME o # <<>>, o[1].tail
      PROVE  t >= 1 /\ t - r >= 1 /\ Halves(Tags[t], o[1])
  <2>1. req_buf_hs
    <3>1. missing => o = <<FirstHalf(dcache[1])>>
      BY OfferFacts
    <3>2. ~FirstHalf(dcache[1]).tail
      BY DEF FirstHalf
    <3> QED
      BY <1>7, <3>1, <3>2, OfferFacts
  <2>2. req_buf # <<>> /\ Entering = <<second_part(req_buf[1])>> /\ Entering[1].cmd = "read"
    BY <1>7, <2>1, OfferFacts, Wires
  <2>3. req_buf[1].cmd = "read"
    BY <2>2 DEF second_part
  <2>4. o = <<TailOf(req_buf[1].slot)>>
    BY <2>1, <2>3, OfferFacts
  <2>5. Nth(3) >= 1 /\ Halves(Tags[t], TailOf(req_buf[1].slot))
    BY <1>1, <1>2, <2>2, <2>3
  <2> HIDE DEF t, r
  <2>6. t >= 1 /\ t - r >= 1
    BY <1>1, <2>5
  <2> QED
    BY <2>4, <2>5, <2>6
<1>8. ASSUME o # <<>>, ~o[1].tail, NEW s, s = o[1].slot
      PROVE  X(s) /\ Q(s) \in Nat /\ Q(s) > c - k
  <2>1. missing /\ o = <<FirstHalf(dcache[1])>>
    <3>1. ~req_buf_hs
      <4> SUFFICES ASSUME req_buf_hs PROVE FALSE
        OBVIOUS
      <4>1. Entering = <<second_part(req_buf[1])>> /\ Entering[1].cmd = "read"
        BY <1>8, OfferFacts
      <4>2. req_buf[1].cmd = "read"
        BY <4>1 DEF second_part
      <4>3. o[1] = TailOf(req_buf[1].slot)
        BY <4>2, OfferFacts
      <4> QED
        BY <1>8, <4>3 DEF TailOf
    <3> QED
      BY <1>8, <3>1, OfferFacts
  <2>2. s = wr_addr /\ s \in Slots
    BY <1>8, <2>1, Wires DEF FirstHalf, Shapes
  <2>3. X(s)
    BY <1>5, <2>1, <2>2, SlotStep
  <2>4. /\ Q(s) = IF ReadsOut(taken) /\ s = rd_addr THEN SLOTS ELSE P(s) - k
        /\ P(s) = c + 1
    BY <2>2, CountersStep
  <2> HIDE DEF Q, P, k, c
  <2>5. Q(s) \in Nat /\ Q(s) > c - k
    BY <1>4, <2>4
  <2> QED
    BY <2>3, <2>5
<1>9. ASSUME r = 1
      PROVE  /\ t >= 1 /\ Tags[1] \in Tag
             /\ upd' = IF completes(Tags[1]) THEN <<[slot |-> Tags[1].slot, data |-> loaded(Tags[1])]>> ELSE <<>>
             /\ completes(Tags[1]) => loaded(Tags[1]) = W(Tags[1].slot)
             /\ ~completes(Tags[1]) => upd_lo' = W(Tags[1].slot)[1]
  BY <1>9, AnswerStep
<1>10. r = 0 => upd' = <<>> /\ upd_lo' = upd_lo
  BY AnswerStep
<1>11. /\ \A x, y : Halves(x, y) => ~completes(x) /\ ~x.tail /\ y.tail /\ y.slot = x.slot
  BY DEF Halves, completes
<1> HIDE DEF T, t, r, o, k, P, Q, W, V, X, c
<1>12. \A i \in 1 .. Len(T) : (i \in 1 .. t - r /\ i + r \in 1 .. t /\ T[i] = Tags[i + r])
                             \/ (o # <<>> /\ i = (t - r) + 1 /\ T[i] = o[1])
  <2> SUFFICES ASSUME NEW i \in 1 .. Len(T), ~(o # <<>> /\ i = (t - r) + 1)
               PROVE  i \in 1 .. t - r /\ i + r \in 1 .. t
    BY <1>3
  <2>1. Len(o) \in {0, 1} /\ (Len(o) = 1 => o # <<>>)
    BY <1>4 DEF Num
  <2> DEFINE n == Len(o)
             m == Len(T)
  <2>2. m = (t - r) + n /\ n \in {0, 1} /\ (n = 1 => i # (t - r) + 1) /\ i \in 1 .. m
    BY <1>3, <2>1
  <2> HIDE DEF n, m
  <2> QED
    BY <1>1, <2>2
<1>13. \A i \in 1 .. t : X(Tags[i].slot) /\ V(Tags[i].slot) = W(Tags[i].slot) /\ P(Tags[i].slot) \in Nat
                         /\ P(Tags[i].slot) <= c /\ Q(Tags[i].slot) = P(Tags[i].slot) - k
  BY <1>6
<1>14. o # <<>> /\ ~o[1].tail => X(o[1].slot) /\ Q(o[1].slot) \in Nat /\ Q(o[1].slot) > c - k
  BY <1>8
<1>15. o # <<>> /\ o[1].tail => t \in 1 .. t /\ t - r \in 1 .. t - r /\ Halves(Tags[t], o[1]) /\ o[1].slot = Tags[t].slot
  <2>1. o # <<>> /\ o[1].tail => t >= 1 /\ t - r >= 1 /\ Halves(Tags[t], o[1])
    BY <1>7
  <2> QED
    BY <1>1, <1>11, <2>1
<1>16. ASSUME NEW i \in 1 .. Len(T) PROVE X(T[i].slot)
  <2>1. CASE i \in 1 .. t - r /\ i + r \in 1 .. t /\ T[i] = Tags[i + r]
    BY <1>13, <2>1
  <2>2. CASE o # <<>> /\ i = (t - r) + 1 /\ T[i] = o[1]
    BY <1>13, <1>14, <1>15, <2>2
  <2> QED
    BY <1>12, <2>1, <2>2
<1>17. ASSUME NEW i \in 1 .. Len(T), NEW j \in 1 .. Len(T), i < j
       PROVE  Q(T[i].slot) < Q(T[j].slot) \/ (j = i + 1 /\ Halves(T[i], T[j]))
  <2>1. i \in 1 .. t - r /\ i + r \in 1 .. t /\ T[i] = Tags[i + r]
    <3>1. CASE i = (t - r) + 1
      <4>1. j \in 1 .. t - r \/ j = (t - r) + 1
        BY <1>12
      <4> QED
        BY <1>1, <1>17, <3>1, <4>1
    <3> QED
      BY <1>12, <3>1
  <2>2. CASE j \in 1 .. t - r /\ j + r \in 1 .. t /\ T[j] = Tags[j + r]
    <3> DEFINE p == P(Tags[i + r].slot)
               q == P(Tags[j + r].slot)
    <3>1. i + r < j + r
      BY <1>1, <1>17, <2>1
    <3>2. p < q \/ (j + r = (i + r) + 1 /\ Halves(Tags[i + r], Tags[j + r]))
      BY <1>2, <2>1, <2>2, <3>1
    <3>3. p \in Nat /\ q \in Nat /\ Q(T[i].slot) = p - k /\ Q(T[j].slot) = q - k
      BY <1>13, <2>1, <2>2
    <3>4. j + r = (i + r) + 1 => j = i + 1
      BY <1>1
    <3> HIDE DEF p, q
    <3>5. p < q => p - k < q - k
      BY <1>4, <3>3
    <3> QED
      BY <2>1, <2>2, <3>2, <3>3, <3>4, <3>5
  <2>3. CASE o # <<>> /\ j = (t - r) + 1 /\ T[j] = o[1] /\ ~o[1].tail
    <3> DEFINE p == P(Tags[i + r].slot)
    <3>1. p \in Nat /\ p <= c /\ Q(T[i].slot) = p - k
      BY <1>13, <2>1
    <3>2. Q(T[j].slot) \in Nat /\ Q(T[j].slot) > c - k
      BY <1>14, <2>3
    <3> HIDE DEF p
    <3> QED
      BY <1>4, <3>1, <3>2
  <2>4. CASE o # <<>> /\ j = (t - r) + 1 /\ T[j] = o[1] /\ o[1].tail
    <3>1. t \in 1 .. t /\ Halves(Tags[t], o[1]) /\ o[1].slot = Tags[t].slot
      BY <1>15, <2>4
    <3>2. CASE i + r = t
      <4>1. j = i + 1
        BY <1>1, <2>4, <3>2
      <4> QED
        BY <2>1, <2>4, <3>1, <3>2, <4>1
    <3>3. CASE i + r # t
      <4> DEFINE p == P(Tags[i + r].slot)
                 q == P(Tags[t].slot)
      <4>1. i + r < t
        BY <1>1, <2>1, <3>3
      <4>2. p < q
        <5>1. ~Halves(Tags[i + r], Tags[t])
          BY <1>11, <3>1
        <5> QED
          BY <1>2, <2>1, <3>1, <4>1, <5>1
      <4>3. p \in Nat /\ q \in Nat /\ Q(T[i].slot) = p - k /\ Q(T[j].slot) = q - k
        BY <1>13, <2>1, <2>4, <3>1
      <4> HIDE DEF p, q
      <4> QED
        BY <1>4, <4>2, <4>3
    <3> QED
      BY <3>2, <3>3
  <2> QED
    BY <1>12, <2>2, <2>3, <2>4
<1>18. ASSUME NEW i \in 1 .. Len(T), T[i].tail
       PROVE  IF i = 1 THEN upd_lo' = V(T[i].slot)[1] ELSE Halves(T[i - 1], T[i])
  <2>1. CASE i \in 1 .. t - r /\ i + r \in 1 .. t /\ T[i] = Tags[i + r]
    <3>1. IF i + r = 1 THEN upd_lo = W(Tags[i + r].slot)[1] ELSE Halves(Tags[(i + r) - 1], Tags[i + r])
      BY <1>2, <1>18, <2>1
    <3>2. CASE i = 1 /\ r = 0
      BY <1>10, <1>13, <2>1, <3>1, <3>2
    <3>3. CASE i = 1 /\ r = 1
      <4>1. Halves(Tags[1], Tags[2]) /\ T[i] = Tags[2] /\ 2 \in 1 .. t
        BY <2>1, <3>1, <3>3
      <4>2. ~completes(Tags[1]) /\ Tags[2].slot = Tags[1].slot
        BY <1>11, <4>1
      <4>3. upd_lo' = W(Tags[2].slot)[1]
        BY <1>9, <3>3, <4>2
      <4> QED
        BY <1>13, <3>3, <4>1, <4>3
    <3>4. CASE i # 1
      <4>1. i - 1 \in 1 .. t - r /\ (i - 1) + r = (i + r) - 1 /\ i + r # 1
        BY <1>1, <2>1, <3>4
      <4>2. T[i - 1] = Tags[(i + r) - 1]
        BY <1>3, <4>1
      <4> QED
        BY <2>1, <3>1, <3>4, <4>1, <4>2
    <3> QED
      BY <1>1, <3>2, <3>3, <3>4
  <2>2. CASE o # <<>> /\ i = (t - r) + 1 /\ T[i] = o[1]
    <3>1. t - r \in 1 .. t - r /\ Halves(Tags[t], o[1])
      BY <1>15, <1>18, <2>2
    <3>2. i # 1 /\ i - 1 = t - r /\ (t - r) + r = t
      BY <1>1, <2>2, <3>1
    <3>3. T[i - 1] = Tags[t]
      BY <1>3, <3>1, <3>2
    <3> QED
      BY <2>2, <3>1, <3>2, <3>3
  <2> QED
    BY <1>12, <2>1, <2>2
<1>19. ASSUME upd' # <<>>
       PROVE  /\ X(upd'[1].slot) /\ upd'[1].data = V(upd'[1].slot)
              /\ \A i \in 1 .. Len(T) : Q(upd'[1].slot) < Q(T[i].slot)
  <2>1. r = 1
    BY <1>1, <1>10, <1>19
  <2>2. /\ 1 \in 1 .. t /\ completes(Tags[1])
        /\ upd'[1].slot = Tags[1].slot /\ upd'[1].data = W(Tags[1].slot)
    BY <1>1, <1>9, <1>19, <2>1
  <2>3. ASSUME NEW i \in 1 .. Len(T) PROVE Q(Tags[1].slot) < Q(T[i].slot)
    <3> DEFINE p == P(Tags[1].slot)
    <3>1. p \in Nat /\ p <= c /\ Q(Tags[1].slot) = p - k
      BY <1>13, <2>2
    <3>2. \A j \in 1 .. t : 1 < j => p < P(Tags[j].slot)
      BY <1>2, <1>11, <2>2
    <3>3. CASE i \in 1 .. t - r /\ i + r \in 1 .. t /\ T[i] = Tags[i + r]
      <4> DEFINE q == P(Tags[i + r].slot)
      <4>1. p < q
        <5>1. 1 < i + r
          BY <2>1, <3>3
        <5> QED
          BY <3>2, <3>3, <5>1
      <4>2. q \in Nat /\ Q(T[i].slot) = q - k
        BY <1>13, <3>3
      <4> HIDE DEF p, q
      <4> QED
        BY <1>4, <3>1, <4>1, <4>2
    <3>4. CASE o # <<>> /\ T[i] = o[1] /\ ~o[1].tail
      <4>1. Q(T[i].slot) \in Nat /\ Q(T[i].slot) > c - k
        BY <1>14, <3>4
      <4> HIDE DEF p
      <4> QED
        BY <1>4, <3>1, <4>1
    <3>5. CASE o # <<>> /\ T[i] = o[1] /\ o[1].tail
      <4> DEFINE q == P(Tags[t].slot)
      <4>1. t \in 1 .. t /\ t - r \in 1 .. t - r /\ o[1].slot = Tags[t].slot
        BY <1>15, <3>5
      <4>2. 1 < t
        BY <1>1, <2>1, <4>1
      <4>3. p < q
        BY <3>2, <4>1, <4>2
      <4>4. q \in Nat /\ Q(T[i].slot) = q - k
        BY <1>13, <3>5, <4>1
      <4> HIDE DEF p, q
      <4> QED
        BY <1>4, <3>1, <4>3, <4>4
    <3> QED
      BY <1>12, <3>3, <3>4, <3>5
  <2> QED
    BY <1>13, <2>2, <2>3
<1>20. ASSUME req_buf' # <<>>, req_buf'[1].cmd = "read"
       PROVE  Halves(T[Len(T)], TailOf(req_buf'[1].slot))
  <2>1. CASE lsu_hs
    <3>1. split(dcache[1]) /\ req_buf' = <<SecondHalf(dcache[1], wr_addr)>> /\ Entering = <<first_part(dcache[1])>>
      BY <1>20, <2>1, BufStep
    <3>2. Entering[1].cmd = "read" /\ Entering # <<>> /\ ~req_buf_hs
      BY <1>20, <2>1, <3>1, Wires DEF SecondHalf, first_part
    <3>3. o = <<FirstHalf(dcache[1])>>
      BY <3>2, OfferFacts DEF o
    <3>4. Len(T) = (t - r) + 1 /\ T[Len(T)] = FirstHalf(dcache[1])
      BY <1>3, <3>3
    <3>5. FirstHalf(dcache[1]).slot = req_buf'[1].slot /\ ~completes(FirstHalf(dcache[1]))
      BY <3>1 DEF FirstHalf, SecondHalf, completes, split
    <3> QED
      BY <3>4, <3>5 DEF Halves, TailOf
  <2>2. CASE ~lsu_hs
    <3>1. Entering = <<>> /\ req_buf' = req_buf
      BY <1>20, <2>2, BufStep
    <3>2. o = <<>>
      BY <3>1, OfferFacts DEF o
    <3>3. Nth(3) >= 1 /\ Halves(Tags[t], TailOf(req_buf[1].slot))
      BY <1>1, <1>2, <1>20, <3>1
    <3>4. Len(T) = t - r
      <4>1. Len(o) = 0
        BY <1>4, <3>2 DEF Num
      <4> DEFINE n == Len(o)
                 m == Len(T)
      <4>2. m = (t - r) + n /\ n = 0
        BY <1>3, <4>1
      <4> HIDE DEF n, m
      <4>3. m = t - r
        BY <1>1, <4>2
      <4> QED
        BY <4>3 DEF m
    <3>5. t - r \in 1 .. t - r /\ (t - r) + r = t
      BY <1>1, <3>3
    <3>6. T[t - r] = Tags[t]
      BY <1>3, <3>5
    <3> QED
      BY <3>1, <3>3, <3>4, <3>6
  <2> QED
    BY <2>1, <2>2
<1>21. /\ \A i \in 1 .. Len(T) : Waits(Tags[i].slot)' <=> X(T[i].slot)
       /\ \A i : Place(i)' = Q(T[i].slot)
       /\ \A i : Wanted(Tags[i].slot)' = V(T[i].slot)
       /\ Waits(upd[1].slot)' <=> X(upd'[1].slot)
       /\ Wanted(upd[1].slot)' = V(upd'[1].slot)
       /\ Pos(rd_addr, upd[1].slot)' = Q(upd'[1].slot)
  BY DEF X, Q, V, T, Waits, Live, Place, Wanted, Pos, Ahead
<1>22. /\ \A i \in 1 .. Len(T) : Waits(Tags[i].slot)'
       /\ \A i, j \in 1 .. Len(T) : i < j => Place(i)' < Place(j)' \/ (j = i + 1 /\ Halves(T[i], T[j]))
       /\ \A i \in 1 .. Len(T) : T[i].tail =>
            IF i = 1 THEN upd_lo' = Wanted(Tags[i].slot)'[1] ELSE Halves(T[i - 1], T[i])
       /\ req_buf' # <<>> /\ req_buf'[1].cmd = "read" => Halves(T[Len(T)], TailOf(req_buf'[1].slot))
       /\ upd' # <<>> => /\ Waits(upd[1].slot)' /\ upd'[1].data = Wanted(upd[1].slot)'
                         /\ \A i \in 1 .. Len(T) : Pos(rd_addr, upd[1].slot)' < Place(i)'
  BY <1>16, <1>17, <1>18, <1>19, <1>20, <1>21
<1> QED
  BY <1>22 DEF Order, T, Halves, TailOf, completes, lane

-----------------------------------------------------------------------------
LEMMA ShapesStep ==
    ASSUME NoOddWords,
           NEW request, NEW taken, NEW ready, NEW answers, Goes(request, taken, ready, answers)
    PROVE  Shapes'
<1>1. cache' \in [0 .. LINES - 1 -> Line] /\ program' \in [Addr -> Byte]
  BY LinesStep
<1>2. Shapes
  BY Wires
<1>3. AtMostOneOf(Lookup, dcache') /\ count' \in 0 .. MaxRequests
  <2>1. CASE request = <<>>
    <3>1. AtMostOneOf(Lookup, dcache) /\ count \in 0 .. MaxRequests
      BY <1>2 DEF Shapes
    <3> QED
      BY <2>1, <3>1, IdleStep DEF AtMostOneOf
  <2>2. CASE request # <<>>
    <3>1. dcache' = <<dcache'[1]>> /\ dcache'[1] \in Lookup /\ count < MaxRequests /\ count' = count + 1
      BY <2>2, RequestStep
    <3>2. count' \in 0 .. MaxRequests
      BY <1>2, <3>1, Constants DEF Shapes
    <3> QED
      BY <3>1, <3>2 DEF AtMostOneOf
  <2> QED
    BY <2>1, <2>2
<1>4. AtMostOneOf(Half, req_buf') /\ AtMostOneOf(Part, mem_req')
      /\ mem_req_reg' \in Seq(Part) /\ Len(mem_req_reg') <= 2
  BY BufStep, RowStep
<1>5. ErShape(fifo_0', Tag)
  BY TagStep DEF ErMoves
<1>6. AtMostOneOf(Result, upd') /\ upd_lo' \in Byte
  BY AnswerStep
<1>7. slot' \in [Slots -> [vld : BOOLEAN, data : Pair]]
  BY SlotStep
<1>8. wr_addr' \in Slots /\ rd_addr' \in Slots /\ wr_data_tready' \in BOOLEAN /\ rd_data_tvalid' \in BOOLEAN
  BY CountersStep
<1>9. store' \in [Addr -> Byte]
  <2>1. store \in [Addr -> Byte]
    BY <1>2 DEF Shapes
  <2> QED
    BY <2>1, MemoryStep, WroteFacts
<1>10. mem_pending' \in Seq(Quad) /\ AtMostOneOf(Quad, mem_rd') /\ Len(mem_pending') + Len(mem_rd') <= MEM_DEPTH
  BY CameStep
<1>11. expected' \in Seq(Pair)
  BY ExpectedStep DEF MovedOn
<1> QED
  BY <1>1, <1>3, <1>4, <1>5, <1>6, <1>7, <1>8, <1>9, <1>10, <1>11
     DEF Shapes, ErShape, AtMostOneOf, Line, Lookup, Half, Part, Tag, Result, Quad, Pair, Byte, Cmds,
         Addr, Cells, Lanes, Slots, Writes

LEMMA InitData == Init => DataInv
<1> SUFFICES ASSUME Init PROVE DataInv
  OBVIOUS
<1>1. 0 \in Byte /\ <<0, 0>> \in Pair /\ 0 \in Slots /\ 0 \in 0 .. MaxRequests
  BY Constants DEF Byte, Pair, Slots
<1>2. ErShape(fifo_0, Tag) /\ Tags = <<>> /\ fifo_0 = [q |-> <<>>, bram |-> <<>>, res |-> <<>>]
  <2>1. IsFifo(EmptyFifo, Tag) /\ FifoWords(EmptyFifo) = <<>>
    BY EmptyIsFifo
  <2> QED
    BY <2>1 DEF Init, IsFifo, ErShape, Tags, EmptyFifo
<1>3. Shapes
  <2>1. cache \in [0 .. LINES - 1 -> Line]
    BY <1>1 DEF Init, Line
  <2>2. slot \in [Slots -> [vld : BOOLEAN, data : Pair]]
    BY <1>1 DEF Init
  <2>3. store \in [Addr -> Byte] /\ program = store
    BY <1>1 DEF Init, Addr
  <2>4. \A S : <<>> \in Seq(S) /\ AtMostOneOf(S, <<>>)
    BY DEF AtMostOneOf
  <2>5. Len(mem_pending) + Len(mem_rd) <= MEM_DEPTH /\ Len(mem_req_reg) <= 2
    BY Constants DEF Init
  <2> QED
    BY <1>1, <1>2, <2>1, <2>2, <2>3, <2>4, <2>5 DEF Shapes, Init
<1>4. Row = <<>> /\ Len(Row) = 0
  BY DEF Init, Row
<1>5. Counters
  <2>1. Pos(rd_addr, wr_addr) = 1
    BY Constants DEF Pos, Ahead, Init
  <2> QED
    BY <2>1, Constants DEF Counters, Init, Num, reading
<1>6. SlotsHold
  BY DEF SlotsHold, Init
<1>7. MemoryInOrder
  BY <1>4 DEF MemoryInOrder, Init, BehindBuf, BehindRow, Before
<1>8. HalfBehind /\ LookupHolds
  BY DEF HalfBehind, LookupHolds, reading, Init
<1>9. LinesAreCurrent
  <2> SUFFICES ASSUME NEW a \in 0 .. SIZE - 2 PROVE ~cache[s_index(a)].vld
    BY DEF LinesAreCurrent
  <2>1. s_index(a) \in 0 .. LINES - 1
    <3>1. a \in Addr
      BY Constants DEF Addr
    <3> QED
      BY <3>1, IndexType
  <2> QED
    BY <2>1 DEF Init
<1>10. n_came = 0 /\ n_rd = 0
  BY DEF n_came, n_rd, Init
<1>11. Nth(3) = 0
  BY <1>4 DEF Nth, IsRead, Num
<1>12. AnswersFit
  BY <1>2, <1>4, <1>10, <1>11 DEF AnswersFit, Init
<1>13. Order
  <2>1. req_buf = <<>> /\ upd = <<>> /\ Len(Tags) = 0
    BY <1>2 DEF Init
  <2> QED
    BY <2>1 DEF Order
<1>14. TagsInTime
  BY <1>2, <1>10 DEF TagsInTime, Init, Num
<1> QED
  BY <1>3, <1>5, <1>6, <1>7, <1>8, <1>9, <1>12, <1>13, <1>14 DEF DataInv

LEMMA DataNext == NoOddWords /\ DataInv /\ [Next]_vars => DataInv'
<1> SUFFICES ASSUME NoOddWords, DataInv, [Next]_vars PROVE DataInv'
  OBVIOUS
<1>1. CASE UNCHANGED vars
  <2>1. /\ Shapes' /\ Counters' /\ SlotsHold' /\ LinesAreCurrent' /\ HalfBehind'
    BY <1>1 DEF DataInv, Shapes, Counters, SlotsHold, Live, Pos, Wanted, reading, LinesAreCurrent, HalfBehind,
                ErShape, AtMostOneOf, Line, Lookup, Half, Part, Tag, Result, Quad, Pair, Byte, Cmds,
                Addr, Cells, Lanes, Slots, Writes, vars, slot_vars
  <2>2. /\ Row' = Row /\ Tags' = Tags /\ n_came' = n_came /\ n_rd' = n_rd
        /\ \A i : Before(i)' = Before(i) /\ IsRead(i)' = IsRead(i) /\ Came(i)' = Came(i)
        /\ \A i : Wanted(i)' = Wanted(i) /\ Waits(i)' = Waits(i) /\ Live(i)' = Live(i)
    BY <1>1 DEF Row, Tags, n_came, n_rd, Came, Before, IsRead, Wanted, Waits, Live, Pos, vars, slot_vars
  <2>3. /\ \A i : Nth(i)' = Nth(i) /\ Place(i)' = Place(i)
        /\ BehindRow' = BehindRow /\ BehindBuf' = BehindBuf
    BY <1>1, <2>2 DEF Nth, Place, BehindRow, BehindBuf, Pos, vars, slot_vars
  <2>4. MemoryInOrder' /\ LookupHolds'
    BY <1>1, <2>3 DEF DataInv, MemoryInOrder, LookupHolds, reading, dcache_thit, vars
  <2>5. AnswersFit'
    BY <1>1, <2>2, <2>3 DEF DataInv, AnswersFit, Right, TailOf, vars
  <2>6. Order' /\ TagsInTime'
    BY <1>1, <2>2, <2>3 DEF DataInv, Order, TagsInTime, TailOf, Halves, completes, vars, slot_vars
  <2> QED
    BY <2>1, <2>4, <2>5, <2>6 DEF DataInv
<1>2. ASSUME NEW request \in Asked, NEW taken \in Taken, NEW ready \in MemReady, NEW answers \in Answers,
             Edge(request, taken, ready, answers)
      PROVE  DataInv'
  <2>1. Goes(request, taken, ready, answers)
    BY <1>2 DEF Goes
  <2> QED
    BY <2>1, ShapesStep, CountersStep, SlotStep, OrderOfMemory, HalfStep, LookupStep, LinesStep, AnswersStep,
       OrderStep, TimeStep DEF DataInv
<1> QED
  BY <1>1, <1>2 DEF Next

-----------------------------------------------------------------------------
(* What the requests on their way ask: their count is that of the row.       *)
LEMMA TwoMarks ==
    ASSUME NEW I, I \subseteq {1, 2}
    PROVE  Cardinality(I) = Num(1 \in I) + Num(2 \in I)
<1>1. Cardinality({}) = 0
  BY FS_EmptySet
<1>2. \A x : IsFiniteSet({x}) /\ Cardinality({x}) = 1
  BY FS_Singleton
<1>3. Cardinality({1, 2}) = 2
  <2>1. \A S, x : IsFiniteSet(S) => Cardinality(S \cup {x}) = IF x \in S THEN Cardinality(S) ELSE Cardinality(S) + 1
    BY FS_AddElement
  <2>2. Cardinality({1} \cup {2}) = IF 2 \in {1} THEN Cardinality({1}) ELSE Cardinality({1}) + 1
    BY <1>2, <2>1
  <2>3. Cardinality({1} \cup {2}) = Cardinality({1}) + 1
    BY <2>2
  <2>4. {1} \cup {2} = {1, 2}
    OBVIOUS
  <2>5. Cardinality({1, 2}) = Cardinality({1}) + 1
    BY <2>3, <2>4
  <2>6. Cardinality({1}) = 1
    BY <1>2
  <2> QED
    BY <2>5, <2>6
<1>4. CASE 1 \in I /\ 2 \in I
  <2>1. I = {1, 2}
    BY <1>4
  <2> QED
    BY <1>3, <1>4, <2>1 DEF Num
<1>5. CASE 1 \in I /\ 2 \notin I
  <2>1. I = {1}
    BY <1>5
  <2>2. Cardinality({1}) = 1
    BY <1>2
  <2>3. Num(1 \in I) + Num(2 \in I) = 1
    BY <1>5 DEF Num
  <2> QED
    BY <2>1, <2>2, <2>3
<1>6. CASE 1 \notin I /\ 2 \in I
  <2>1. I = {2}
    BY <1>6
  <2>2. Cardinality({2}) = 1
    BY <1>2
  <2>3. Num(1 \in I) + Num(2 \in I) = 1
    BY <1>6 DEF Num
  <2> QED
    BY <2>1, <2>2, <2>3
<1>7. CASE 1 \notin I /\ 2 \notin I
  <2>1. I = {}
    BY <1>7
  <2> QED
    BY <1>1, <1>7, <2>1 DEF Num
<1> QED
  BY <1>4, <1>5, <1>6, <1>7

LEMMA ReadsOf ==
    ASSUME NEW S, NEW s \in Seq(S), Len(s) <= 2
    PROVE  reads(s) = Num(1 <= Len(s) /\ s[1].cmd = "read") + Num(2 <= Len(s) /\ s[2].cmd = "read")
<1> DEFINE I == {i \in DOMAIN s : s[i].cmd = "read"}
           n == Len(s)
<1>1. DOMAIN s = 1 .. n /\ n \in Nat /\ n <= 2
  OBVIOUS
<1> HIDE DEF n
<1>2. DOMAIN s \subseteq {1, 2} /\ (1 \in DOMAIN s <=> 1 <= n) /\ (2 \in DOMAIN s <=> 2 <= n)
  BY <1>1
<1>3. I \subseteq {1, 2} /\ (1 \in I <=> 1 <= n /\ s[1].cmd = "read") /\ (2 \in I <=> 2 <= n /\ s[2].cmd = "read")
  BY <1>2
<1>4. reads(s) = Cardinality(I)
  BY DEF reads
<1> HIDE DEF I
<1>5. Cardinality(I) = Num(1 \in I) + Num(2 \in I)
  BY <1>3, TwoMarks
<1> QED
  BY <1>3, <1>4, <1>5 DEF n, Num

LEMMA ReadsOfOne ==
    ASSUME NEW S, NEW o, AtMostOneOf(S, o)
    PROVE  /\ o \in Seq(S) /\ Len(o) \in Nat /\ Len(o) = Num(o # <<>>) /\ Len(o) <= 1
           /\ reads(o) = Num(o # <<>> /\ o[1].cmd = "read")
<1> DEFINE l == Len(o)
<1>1. o \in Seq(S) /\ l = Num(o # <<>>)
  BY OneIsSeq
<1>2. l = IF o # <<>> THEN 1 ELSE 0
  BY <1>1 DEF Num
<1> HIDE DEF l
<1>3. l \in Nat /\ l <= 1 /\ l <= 2
  BY <1>2
<1>4. reads(o) = Num(1 <= l /\ o[1].cmd = "read") + Num(2 <= l /\ o[2].cmd = "read")
  BY <1>1, <1>3, ReadsOf DEF l
<1>5. reads(o) = Num(o # <<>> /\ o[1].cmd = "read")
  BY <1>2, <1>4 DEF Num
<1> QED
  BY <1>1, <1>3, <1>5 DEF l

LEMMA ReadsInRow == ASSUME Shapes PROVE reads(mem_req) + reads(mem_req_reg) = Nth(3)
<1> DEFINE r == mem_req_reg
           o == mem_req
           n == Len(r)
           A1 == 1 <= n /\ r[1].cmd = "read"
           A2 == 2 <= n /\ r[2].cmd = "read"
           B  == o # <<>> /\ o[1].cmd = "read"
<1>1. r \in Seq(Part) /\ n <= 2 /\ n \in Nat /\ AtMostOneOf(Part, o)
  BY DEF Shapes
<1>2. o \in Seq(Part) /\ Len(o) = Num(o # <<>>) /\ Len(o) \in Nat /\ reads(o) = Num(B)
  BY <1>1, ReadsOfOne
<1>3. reads(r) = Num(A1) + Num(A2)
  BY <1>1, ReadsOf
<1>5. /\ Len(Row) = n + Num(o # <<>>)
      /\ \A i \in 1 .. n : Row[i] = r[i]
      /\ o # <<>> => Row[n + 1] = o[1]
  <2>1. Row = r \o o /\ Len(Row) = n + Num(o # <<>>)
    BY RowShape DEF Row
  <2>2. ASSUME o # <<>> PROVE Row[n + 1] = o[1]
    BY <2>2, <2>1, RowShape DEF Num
  <2>3. \A i \in 1 .. n : Row[i] = r[i]
    BY <1>1, <1>2, <2>1
  <2> QED
    BY <2>1, <2>2, <2>3
<1> DEFINE l == Len(Row)
<1>6. Nth(3) = (Num(1 <= l /\ Row[1].cmd = "read") + Num(2 <= l /\ Row[2].cmd = "read"))
               + Num(3 <= l /\ Row[3].cmd = "read")
  BY DEF Nth, IsRead
<1>7. l = n + Num(o # <<>>)
  BY <1>5
<1>8. n = 0 \/ n = 1 \/ n = 2
  <2>1. n \in Nat /\ n <= 2
    BY <1>1
  <2> HIDE DEF n
  <2> QED
    BY <2>1
<1> HIDE DEF l, n, o
<1>9. Num(B) + (Num(A1) + Num(A2)) = Nth(3)
  <2>1. CASE n = 0
    BY <1>5, <1>6, <1>7, <2>1 DEF Num
  <2>2. CASE n = 1
    BY <1>5, <1>6, <1>7, <2>2 DEF Num
  <2>3. CASE n = 2
    BY <1>5, <1>6, <1>7, <2>3 DEF Num
  <2> QED
    BY <1>8, <2>1, <2>2, <2>3
<1> HIDE DEF B, A1, A2
<1>10. reads(o) + reads(r) = Nth(3)
  BY <1>2, <1>3, <1>9
<1> QED
  BY <1>10 DEF o

-----------------------------------------------------------------------------
(* In every reachable state the slots are numbered as the answers that the   *)
(* program waits for, every tag has an empty slot of its own read, and the   *)
(* requests under way will make of the memory what the program made of it.   *)
THEOREM DataSafe == ASSUME NoOddWords PROVE Spec => []DataInv
<1>1. DataInv /\ [Next]_vars => DataInv'
  BY DataNext
<1> QED
  BY <1>1, InitData, PTL DEF Spec

(* For every size of memory, of cache and of queues, and any delay of the    *)
(* memory: a program that writes no word to an odd address reads what its    *)
(* last write left there, whether the cache, the memory or both answered     *)
(* (cpu86_dcache, cpu86_exec_lsu, cpu86_exec_lsu_fifo).                      *)
THEOREM LastWriteRead == ASSUME NoOddWords PROVE Spec => []ReadsReturnLastWrite
<1>1. DataInv => ReadsReturnLastWrite
  <2> SUFFICES ASSUME DataInv, dout # <<>> PROVE dout[1] = Head(expected)
    BY DEF ReadsReturnLastWrite
  <2>1. rd_data_tvalid /\ slot[rd_addr].vld /\ dout[1] = slot[rd_addr].data
    BY DEF dout
  <2>2. fifo_cnt >= 1 /\ fifo_cnt \in Nat /\ Len(expected) = fifo_cnt + Num(reading)
    BY <2>1, Constants DEF DataInv, Counters
  <2>3. Pos(rd_addr, rd_addr) = 1 /\ rd_addr \in Slots
    <3>1. rd_addr \in Slots
      BY DEF DataInv, Shapes
    <3> QED
      BY <3>1, Constants, RingFacts DEF Pos, Slots
  <2>4. slot[rd_addr].data = expected[1]
    BY <2>1, <2>2, <2>3 DEF DataInv, SlotsHold, Live, Wanted
  <2>5. Head(expected) = expected[1]
    BY DEF DataInv, Shapes
  <2> QED
    BY <2>1, <2>4, <2>5
<1> QED
  BY <1>1, DataSafe, PTL

(* For every size of memory, of cache and of queues, and any delay of the    *)
(* memory: a valid line holds what such a program last wrote there, no read  *)
(* is without a slot or a tag, and the tag of an answer is there when the    *)
(* answer is (axis_fifo_inst is written and popped with no ready looked at). *)
THEOREM BooksKept == ASSUME NoOddWords PROVE Spec => []BooksAreTrue
<1>1. DataInv => BooksAreTrue
  <2> SUFFICES ASSUME DataInv PROVE BooksAreTrue
    OBVIOUS
  <2>1. Shapes /\ Counters
    BY DEF DataInv
  <2>2. TypeOK
    <3>1. Len(dcache) <= 1 /\ Len(req_buf) <= 1 /\ Len(mem_req) <= 1 /\ Len(mem_req_reg) <= 2
      BY <2>1, ReadsOfOne DEF Shapes
    <3>2. \A l \in 0 .. LINES - 1 : cache[l].word \in Pair /\ cache[l].vld \in BOOLEAN
      BY <2>1 DEF Shapes, Line
    <3>3. \A i \in Slots : slot[i].data \in Pair
      BY <2>1 DEF Shapes
    <3> QED
      BY <2>1, <3>1, <3>2, <3>3 DEF TypeOK, Shapes, Counters, Addr
  <2>3. LinesAreCurrent
    BY DEF DataInv
  <2>4. Len(expected) = fifo_cnt + reads(dcache)
    <3>1. reads(dcache) = Num(reading)
      BY <2>1, ReadsOfOne DEF Shapes, reading
    <3> QED
      BY <2>1, <3>1 DEF Counters
  <2>5. wr_addr = (rd_addr + fifo_cnt) % SLOTS
    <3> DEFINE n == SLOTS
    <3>1. n \in Nat /\ n >= 2 /\ wr_addr \in 0 .. n - 1 /\ rd_addr \in 0 .. n - 1 /\ fifo_cnt \in 0 .. n - 1
      BY <2>1, Constants DEF Shapes, Counters, Slots
    <3>2. rd_addr + fifo_cnt = wr_addr \/ rd_addr + fifo_cnt = wr_addr + n
      BY <2>1, <3>1 DEF Counters, Pos, Ahead
    <3> HIDE DEF n
    <3>3. \A x \in 0 .. n - 1 : x % n = x /\ (x + n) % n = x
      BY <3>1, Z3
    <3> QED
      BY <3>1, <3>2, <3>3 DEF n
  <2>6. Len(Tags) = reads(mem_req) + reads(mem_req_reg) + Len(mem_pending) + Len(mem_rd)
    <3> DEFINE a == reads(mem_req)
               b == reads(mem_req_reg)
               p == Len(mem_pending)
               r == Len(mem_rd)
               t == Nth(3)
    <3>1. Len(Tags) = (r + p) + t /\ r \in Nat /\ p \in Nat
      BY <2>1, Lengths, TagFacts DEF n_came, n_rd, Num
    <3>2. a + b = t /\ a \in Nat /\ b \in Nat
      <4>1. a + b = t
        BY <2>1, ReadsInRow
      <4>2. mem_req \in Seq(Part) /\ Len(mem_req) <= 2 /\ mem_req_reg \in Seq(Part) /\ Len(mem_req_reg) <= 2
        <5>1. \A S, o : AtMostOneOf(S, o) => o \in Seq(S) /\ Len(o) \in Nat /\ Len(o) <= 1
          BY ReadsOfOne
        <5>2. mem_req \in Seq(Part) /\ Len(mem_req) \in Nat /\ Len(mem_req) <= 1
          BY <2>1, <5>1 DEF Shapes
        <5> QED
          BY <2>1, <5>2 DEF Shapes
      <4>3. \A s : s \in Seq(Part) /\ Len(s) <= 2 => reads(s) \in Nat
        <5>1. \A b1, b2 : Num(b1) + Num(b2) \in Nat
          BY DEF Num
        <5> QED
          BY <5>1, ReadsOf
      <4> QED
        BY <4>1, <4>2, <4>3
    <3> HIDE DEF a, b, p, r, t
    <3>3. Len(Tags) = a + b + p + r
      BY <3>1, <3>2
    <3> QED
      BY <3>3 DEF a, b, p, r
  <2>7. mem_rd # <<>> => fifo_0.res # <<>>
    <3> SUFFICES ASSUME mem_rd # <<>> PROVE n_came # 0
      BY DEF DataInv, TagsInTime
    <3>1. n_rd = 1 /\ n_rd <= n_came /\ n_came \in Nat
      BY <2>1, Lengths, TagFacts DEF n_rd, Num
    <3> QED
      BY <3>1
  <2> QED
    BY <2>2, <2>3, <2>4, <2>5, <2>6, <2>7 DEF BooksAreTrue, RoomForEveryRead, Tags
<1> QED
  BY <1>1, DataSafe, PTL

=============================================================================
