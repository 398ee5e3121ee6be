--------------------------- MODULE AxisProofs ---------------------------
(***************************************************************************)
(* Proofs about AxisFifo, for every depth, every set of words and both      *)
(* values of REGISTER_OUTPUT, and about AxisReg (as Reg, the last part), for *)
(* every set of words.                                                       *)
(***************************************************************************)
EXTENDS AxisFifo, SequenceTheorems, TLAPS

(* The inductive invariant: the control agrees with itself, and the word     *)
(* that waits at the RAM output sits in the slot just behind the read        *)
(* address, which is the slot the ring keeps free.                           *)
HeldBehindRead ==
    bram_tvalid /\ ~bram_bypass_en =>
        mem[address_b] = bram_tdata /\ rd_addr = next_slot(address_b)

IInv ==
    /\ TypeOK
    /\ RingConsistent
    /\ HeldBehindRead
    /\ res_tvalid => REGISTER_OUTPUT

LEMMA SlotArith ==
    ASSUME NEW x \in 0 .. 2 * FIFO_DEPTH - 1
    PROVE  /\ x % FIFO_DEPTH = IF x < FIFO_DEPTH THEN x ELSE x - FIFO_DEPTH
           /\ x % FIFO_DEPTH \in Slots
  BY DepthAssumption, Z3 DEF Slots

LEMMA NextSlot ==
    ASSUME NEW a \in Slots
    PROVE  next_slot(a) = (IF a = FIFO_DEPTH - 1 THEN 0 ELSE a + 1) /\ next_slot(a) \in Slots
  BY SlotArith, DepthAssumption DEF next_slot, Slots

LEMMA RingSlot ==
    ASSUME NEW a \in Slots, NEW n \in Slots
    PROVE  /\ (a + n) % FIFO_DEPTH =
                 (IF a + n < FIFO_DEPTH THEN a + n ELSE a + n - FIFO_DEPTH)
           /\ (a + n) % FIFO_DEPTH \in Slots
  BY SlotArith, DepthAssumption DEF Slots

LEMMA InitIInv == Init => IInv
<1> SUFFICES ASSUME Init PROVE IInv
  OBVIOUS
<1>1. 0 \in Slots
  BY DepthAssumption DEF Slots
<1>2. TypeOK
  BY <1>1 DEF Init, TypeOK, Port
<1>3. RingConsistent
  BY <1>1, RingSlot, DepthAssumption DEF Init, RingConsistent
<1> QED
  BY <1>2, <1>3 DEF Init, IInv, HeldBehindRead

LEMMA TypeStep ==
    ASSUME IInv, NEW v \in BOOLEAN, NEW r \in BOOLEAN, NEW d \in Data,
           Clock(v, d, r) \/ Reset(v, d, r)
    PROVE  TypeOK'
<1> USE DEF IInv, TypeOK, RingConsistent
<1>1. fifo_cnt' \in Slots
  BY DepthAssumption DEF Clock, Reset, RingClock, write, read, rd_data_tvalid, Slots
<1>2. wr_addr' \in Slots /\ rd_addr' \in Slots /\ address_b' \in Slots
  <2>1. 0 \in Slots
    BY DepthAssumption DEF Slots
  <2>2. wr_addr' \in Slots /\ rd_addr' \in Slots
    BY <2>1, NextSlot DEF Clock, Reset, RingClock
  <2>3. address_b' \in Slots
    BY DEF Clock, Reset, RamClock
  <2> QED
    BY <2>2, <2>3
<1>3. wr_data_tready' \in BOOLEAN
  BY DEF Clock, Reset, RingClock
<1>4. mem' \in [Slots -> Data] /\ bram_tdata' \in Data
  BY DEF Clock, Reset, RamClock
<1>5. tdata \in Data /\ m_tdata \in Data
  BY DEF tdata, m_tdata
<1>6. bram_tvalid' \in BOOLEAN /\ bram_bypass_en' \in BOOLEAN /\ bram_bypass_data' \in Data
  BY DEF Clock, Reset, BramClock, use_bypass, write
<1>7. res_tvalid' \in BOOLEAN /\ res_tdata' \in Data
  <2>1. res_tdata' \in Data
    BY <1>5 DEF Clock, Reset, ResClock, ResData
  <2>2. res_tvalid' \in BOOLEAN
    BY DEF Clock, Reset, ResClock
  <2> QED
    BY <2>1, <2>2
<1>8. in' \in Port /\ out' \in Port
  BY <1>5 DEF Clock, Reset, Port
<1> QED
  BY <1>1, <1>2, <1>3, <1>4, <1>6, <1>7, <1>8

LEMMA RingStep ==
    ASSUME IInv, TypeOK', NEW v \in BOOLEAN, NEW r \in BOOLEAN, NEW d \in Data,
           Clock(v, d, r) \/ Reset(v, d, r)
    PROVE  RingConsistent'
<1> USE DEF TypeOK, RingConsistent
<1>1. CASE Reset(v, d, r)
  BY <1>1, RingSlot, DepthAssumption DEF Reset, Slots
<1>2. CASE Clock(v, d, r)
  <2>1. /\ wr_data_tready <=> fifo_cnt < FIFO_DEPTH - 1
        /\ wr_addr = IF rd_addr + fifo_cnt < FIFO_DEPTH THEN rd_addr + fifo_cnt
                     ELSE rd_addr + fifo_cnt - FIFO_DEPTH
        /\ (rd_addr' + fifo_cnt') % FIFO_DEPTH =
              IF rd_addr' + fifo_cnt' < FIFO_DEPTH THEN rd_addr' + fifo_cnt'
              ELSE rd_addr' + fifo_cnt' - FIFO_DEPTH
    BY RingSlot DEF IInv
  <2>2. /\ next_slot(wr_addr) = IF wr_addr = FIFO_DEPTH - 1 THEN 0 ELSE wr_addr + 1
        /\ next_slot(rd_addr) = IF rd_addr = FIFO_DEPTH - 1 THEN 0 ELSE rd_addr + 1
    BY NextSlot DEF IInv
  <2>3. /\ fifo_cnt \in 0 .. FIFO_DEPTH - 1 /\ rd_addr \in 0 .. FIFO_DEPTH - 1
        /\ fifo_cnt' \in 0 .. FIFO_DEPTH - 1
    BY DEF IInv, Slots
  <2>4. CASE write(v) /\ ~read(v, r)
    <3>1. /\ fifo_cnt' = fifo_cnt + 1 /\ rd_addr' = rd_addr
          /\ wr_data_tready' = (fifo_cnt + 1 # FIFO_DEPTH - 1)
          /\ wr_addr' = next_slot(wr_addr)
      BY <1>2, <2>4 DEF Clock, RingClock, closes
    <3>2. (fifo_cnt + 1 # FIFO_DEPTH - 1) <=> fifo_cnt + 1 < FIFO_DEPTH - 1
      BY <2>1, <2>3, <2>4, DepthAssumption DEF write
    <3>3. wr_data_tready' <=> fifo_cnt' < FIFO_DEPTH - 1
      BY <3>1, <3>2
    <3> QED
      BY <2>1, <2>2, <2>3, <3>1, <3>3, DepthAssumption
  <2>5. CASE ~write(v) /\ read(v, r)
    <3>1. /\ fifo_cnt' = fifo_cnt - 1 /\ rd_addr' = next_slot(rd_addr)
          /\ wr_data_tready' = TRUE /\ wr_addr' = wr_addr
      BY <1>2, <2>5 DEF Clock, RingClock
    <3>2. wr_data_tready' <=> fifo_cnt' < FIFO_DEPTH - 1
      BY <2>3, <3>1, DepthAssumption
    <3> QED
      BY <2>1, <2>2, <2>3, <3>1, <3>2, DepthAssumption
  <2>6. CASE write(v) /\ read(v, r)
    <3>1. /\ fifo_cnt' = fifo_cnt /\ rd_addr' = next_slot(rd_addr)
          /\ wr_data_tready' = wr_data_tready /\ wr_addr' = next_slot(wr_addr)
      BY <1>2, <2>6 DEF Clock, RingClock
    <3> QED
      BY <2>1, <2>2, <2>3, <3>1, DepthAssumption
  <2>7. CASE ~write(v) /\ ~read(v, r)
    <3>1. /\ fifo_cnt' = fifo_cnt /\ rd_addr' = rd_addr
          /\ wr_data_tready' = wr_data_tready /\ wr_addr' = wr_addr
      BY <1>2, <2>7 DEF Clock, RingClock
    <3> QED
      BY <2>1, <2>2, <2>3, <3>1, DepthAssumption
  <2> QED
    BY <2>4, <2>5, <2>6, <2>7
<1> QED
  BY <1>1, <1>2

LEMMA HeldStep ==
    ASSUME IInv, NEW v \in BOOLEAN, NEW r \in BOOLEAN, NEW d \in Data, Clock(v, d, r)
    PROVE  HeldBehindRead'
<1> SUFFICES ASSUME bram_tvalid', ~bram_bypass_en'
             PROVE  mem'[address_b'] = bram_tdata' /\ rd_addr' = next_slot(address_b')
  BY DEF HeldBehindRead, next_slot
<1> USE DEF IInv, TypeOK, Clock
<1>1. CASE read(v, r)
  <2>1. fifo_cnt # 0 /\ rd_tready(r)
    BY <1>1 DEF BramClock, use_bypass, read, rd_data_tvalid
  <2>2. address_b' = rd_addr /\ bram_tdata' = mem[rd_addr] /\ rd_addr' = next_slot(rd_addr)
    BY <1>1, <2>1 DEF RamClock, RingClock, read, rd_tready, addressstall_b
  <2>3. wr_addr # rd_addr
    <3>1. wr_addr = IF rd_addr + fifo_cnt < FIFO_DEPTH THEN rd_addr + fifo_cnt
                    ELSE rd_addr + fifo_cnt - FIFO_DEPTH
      BY RingSlot DEF RingConsistent
    <3> QED
      BY <2>1, <3>1, DepthAssumption DEF Slots
  <2> QED
    BY <2>2, <2>3 DEF RamClock
<1>2. CASE ~read(v, r)
  <2>1. bram_tvalid /\ ~bram_tready(r) /\ ~bram_bypass_en
    BY <1>2 DEF BramClock
  <2>2. address_b' = address_b /\ rd_addr' = rd_addr
    BY <1>2, <2>1 DEF RamClock, RingClock, addressstall_b
  <2>3. mem[address_b] = bram_tdata /\ rd_addr = next_slot(address_b)
    BY <2>1 DEF HeldBehindRead
  <2>4. ASSUME write(v) PROVE wr_addr # address_b
    <3>1. next_slot(address_b) = IF address_b = FIFO_DEPTH - 1 THEN 0 ELSE address_b + 1
      BY NextSlot
    <3>2. wr_addr = IF rd_addr + fifo_cnt < FIFO_DEPTH THEN rd_addr + fifo_cnt
                    ELSE rd_addr + fifo_cnt - FIFO_DEPTH
      BY RingSlot DEF RingConsistent
    <3> QED
      BY <2>3, <2>4, <3>1, <3>2, DepthAssumption DEF RingConsistent, write, Slots
  <2> QED
    BY <2>2, <2>3, <2>4, <2>1 DEF RamClock, addressstall_b
<1> QED
  BY <1>1, <1>2

LEMMA NextIInv == IInv /\ [Next]_vars => IInv'
<1> SUFFICES ASSUME IInv, [Next]_vars PROVE IInv'
  OBVIOUS
<1>1. ASSUME NEW v \in BOOLEAN, NEW r \in BOOLEAN, NEW d \in Data, Clock(v, d, r)
      PROVE  IInv'
  <2>1. TypeOK'
    BY <1>1, TypeStep
  <2>2. (res_tvalid => REGISTER_OUTPUT)'
    BY <1>1 DEF Clock, ResClock
  <2> QED
    BY <1>1, <2>1, <2>2, RingStep, HeldStep DEF IInv
<1>2. ASSUME NEW v \in BOOLEAN, NEW r \in BOOLEAN, NEW d \in Data, Reset(v, d, r)
      PROVE  IInv'
  <2>1. TypeOK'
    BY <1>2, TypeStep
  <2>2. RingConsistent'
    BY <1>2, <2>1, RingStep
  <2>3. HeldBehindRead' /\ (res_tvalid => REGISTER_OUTPUT)'
    BY <1>2 DEF Reset, HeldBehindRead
  <2> QED
    BY <2>1, <2>2, <2>3 DEF IInv
<1>3. CASE UNCHANGED vars
  BY <1>3 DEF vars, ring, ram_vars, bram_vars, res_vars, IInv, TypeOK, RingConsistent, HeldBehindRead, next_slot
<1> QED
  BY <1>1, <1>2, <1>3 DEF Next

LEMMA InvariantHolds == Spec => []IInv
<1>1. Init => IInv
  BY InitIInv
<1>2. IInv /\ [Next]_vars => IInv'
  BY NextIInv
<1> QED
  BY <1>1, <1>2, PTL DEF Spec

LEMMA HeldSafe == IInv => HeldSlotNotOverwritten
<1> SUFFICES ASSUME IInv, bram_tvalid, ~bram_bypass_en
             PROVE  /\ mem[address_b] = bram_tdata
                    /\ wr_data_tready => wr_addr # address_b
  BY DEF HeldSlotNotOverwritten
<1> USE DEF IInv, TypeOK
<1>1. mem[address_b] = bram_tdata /\ rd_addr = next_slot(address_b)
  BY DEF HeldBehindRead
<1>2. next_slot(address_b) = IF address_b = FIFO_DEPTH - 1 THEN 0 ELSE address_b + 1
  BY NextSlot
<1>3. wr_addr = IF rd_addr + fifo_cnt < FIFO_DEPTH THEN rd_addr + fifo_cnt
                ELSE rd_addr + fifo_cnt - FIFO_DEPTH
  BY RingSlot DEF RingConsistent
<1> QED
  BY <1>1, <1>2, <1>3, DepthAssumption DEF RingConsistent, Slots

(* The counter and the addresses never leave their ranges and always agree,  *)
(* and no write lands on the slot whose word still waits at the RAM output:  *)
(* axis_fifo_fwft and axis_fifo_bram at every depth of at least three.       *)
THEOREM FifoSafe == Spec => [](TypeOK /\ RingConsistent /\ HeldSlotNotOverwritten)
<1>1. IInv => TypeOK /\ RingConsistent /\ HeldSlotNotOverwritten
  BY HeldSafe DEF IInv
<1> QED
  BY <1>1, InvariantHolds, PTL

-----------------------------------------------------------------------------
(* The ring as a sequence.                                                   *)
Avail(v, d) == Ring \o (IF write(v) THEN <<d>> ELSE <<>>)

RingOf(m, a, n) == [i \in 1 .. n |-> m[(a + (i - 1)) % FIFO_DEPTH]]

LEMMA RingIsSeq ==
    ASSUME NEW m \in [Slots -> Data], NEW a \in Slots, NEW n \in Slots
    PROVE  /\ RingOf(m, a, n) \in Seq(Data) /\ Len(RingOf(m, a, n)) = n
           /\ \A i \in 1 .. n :
                 /\ RingOf(m, a, n)[i] = m[(a + (i - 1)) % FIFO_DEPTH]
                 /\ (a + (i - 1)) % FIFO_DEPTH \in Slots
<1>1. ASSUME NEW i \in 1 .. n
      PROVE  (a + (i - 1)) % FIFO_DEPTH \in Slots
  <2>1. i - 1 \in Slots
    BY DepthAssumption DEF Slots
  <2> QED
    BY <2>1, RingSlot
<1>2. RingOf(m, a, n) \in [1 .. n -> Data] /\ n \in Nat
  BY <1>1, DepthAssumption DEF RingOf, Slots
<1>3. RingOf(m, a, n) \in Seq(Data) /\ Len(RingOf(m, a, n)) = n
  BY <1>2
<1>4. ASSUME NEW i \in 1 .. n
      PROVE  RingOf(m, a, n)[i] = m[(a + (i - 1)) % FIFO_DEPTH]
  BY DEF RingOf
<1> QED
  BY <1>1, <1>3, <1>4

LEMMA RingNow ==
    /\ TypeOK => /\ Ring = RingOf(mem, rd_addr, fifo_cnt)
                 /\ mem \in [Slots -> Data] /\ rd_addr \in Slots /\ fifo_cnt \in Slots
    /\ TypeOK' => /\ Ring' = RingOf(mem', rd_addr', fifo_cnt')
                  /\ mem' \in [Slots -> Data] /\ rd_addr' \in Slots /\ fifo_cnt' \in Slots
  BY DEF Ring, RingOf, TypeOK

LEMMA AvailIsSeq ==
    ASSUME TypeOK, NEW v \in BOOLEAN, NEW d \in Data
    PROVE  /\ Avail(v, d) \in Seq(Data)
           /\ Len(Avail(v, d)) = IF write(v) THEN fifo_cnt + 1 ELSE fifo_cnt
           /\ \A i \in 1 .. fifo_cnt : Avail(v, d)[i] = Ring[i]
           /\ write(v) => Avail(v, d)[fifo_cnt + 1] = d
<1>1. /\ Ring \in Seq(Data) /\ Len(Ring) = fifo_cnt /\ fifo_cnt \in Nat
      /\ <<d>> \in Seq(Data) /\ <<>> \in Seq(Data)
      /\ Len(<<d>>) = 1 /\ <<d>>[1] = d /\ Len(<<>>) = 0
  BY RingIsSeq, RingNow, DepthAssumption DEF Slots
<1>2. CASE write(v)
  BY <1>1, <1>2, ConcatProperties DEF Avail
<1>3. CASE ~write(v)
  BY <1>1, <1>3, ConcatEmptySeq DEF Avail
<1> QED
  BY <1>2, <1>3

\* After the edge the slot of every stored word holds that word.
LEMMA SlotContents ==
    ASSUME IInv, NEW v \in BOOLEAN, NEW r \in BOOLEAN, NEW d \in Data, Clock(v, d, r),
           NEW i \in 1 .. (IF write(v) THEN fifo_cnt + 1 ELSE fifo_cnt)
    PROVE  mem'[(rd_addr + (i - 1)) % FIFO_DEPTH] = Avail(v, d)[i]
<1> USE DEF IInv, TypeOK
<1>1. /\ i - 1 \in Slots
      /\ (rd_addr + (i - 1)) % FIFO_DEPTH =
            (IF rd_addr + (i - 1) < FIFO_DEPTH THEN rd_addr + (i - 1)
             ELSE rd_addr + (i - 1) - FIFO_DEPTH)
      /\ (rd_addr + (i - 1)) % FIFO_DEPTH \in Slots
  <2>1. i - 1 \in Slots
    BY DepthAssumption DEF Slots, RingConsistent, write
  <2> QED
    BY <2>1, RingSlot
<1>2. wr_addr = (rd_addr + fifo_cnt) % FIFO_DEPTH
  BY DEF RingConsistent
<1>3. CASE i <= fifo_cnt
  <2>1. i \in 1 .. fifo_cnt
    BY <1>3, DepthAssumption DEF Slots
  <2>2. Avail(v, d)[i] = mem[(rd_addr + (i - 1)) % FIFO_DEPTH]
    <3>1. Avail(v, d)[i] = Ring[i]
      BY <2>1, AvailIsSeq
    <3>2. Ring[i] = RingOf(mem, rd_addr, fifo_cnt)[i]
      BY RingNow
    <3>3. RingOf(mem, rd_addr, fifo_cnt)[i] = mem[(rd_addr + (i - 1)) % FIFO_DEPTH]
      BY <2>1, RingIsSeq
    <3> QED
      BY <3>1, <3>2, <3>3
  <2>3. (rd_addr + (i - 1)) % FIFO_DEPTH # wr_addr
    <3>1. wr_addr = IF rd_addr + fifo_cnt < FIFO_DEPTH THEN rd_addr + fifo_cnt
                    ELSE rd_addr + fifo_cnt - FIFO_DEPTH
      BY <1>2, RingSlot
    <3> QED
      BY <1>1, <2>1, <3>1, DepthAssumption DEF Slots
  <2> QED
    BY <1>1, <2>2, <2>3 DEF Clock, RamClock
<1>4. CASE i > fifo_cnt
  <2>1. write(v) /\ i - 1 = fifo_cnt
    BY <1>4, DepthAssumption DEF Slots
  <2>2. (rd_addr + (i - 1)) % FIFO_DEPTH = wr_addr
    BY <1>2, <2>1
  <2>3. Avail(v, d)[i] = d
    <3>1. i = fifo_cnt + 1
      BY <2>1, DepthAssumption DEF Slots
    <3> QED
      BY <2>1, <3>1, AvailIsSeq
  <2> QED
    BY <2>1, <2>2, <2>3 DEF Clock, RamClock
<1> QED
  BY <1>3, <1>4, DepthAssumption DEF Slots

LEMMA RingNext ==
    ASSUME IInv, TypeOK', NEW v \in BOOLEAN, NEW r \in BOOLEAN, NEW d \in Data, Clock(v, d, r)
    PROVE  Ring' = IF read(v, r) THEN Tail(Avail(v, d)) ELSE Avail(v, d)
<1> DEFINE total == IF write(v) THEN fifo_cnt + 1 ELSE fifo_cnt
           want  == IF read(v, r) THEN Tail(Avail(v, d)) ELSE Avail(v, d)
           shift == IF read(v, r) THEN 1 ELSE 0
<1> USE DEF IInv, TypeOK
<1>1. fifo_cnt \in Nat /\ total \in Nat
  BY DepthAssumption DEF Slots
<1>2. /\ Avail(v, d) \in Seq(Data) /\ Len(Avail(v, d)) = total
  BY AvailIsSeq
<1>3. read(v, r) => total >= 1
  BY <1>1 DEF read, rd_data_tvalid
<1>4. read(v, r) => Avail(v, d) # <<>>
  BY <1>2, <1>3, EmptySeq
<1>5. /\ want \in Seq(Data) /\ Len(want) = total - shift
      /\ \A i \in 1 .. total - shift : want[i] = Avail(v, d)[i + shift]
  BY <1>1, <1>2, <1>4, HeadTailProperties
<1>6. Ring' \in Seq(Data) /\ Len(Ring') = fifo_cnt'
  BY RingIsSeq, RingNow
<1>7. fifo_cnt' = total - shift
  BY <1>1 DEF Clock, RingClock
<1>8. ASSUME NEW i \in 1 .. fifo_cnt'
      PROVE  Ring'[i] = want[i]
  <2>1. Ring'[i] = mem'[(rd_addr' + (i - 1)) % FIFO_DEPTH]
    <3>1. Ring'[i] = RingOf(mem', rd_addr', fifo_cnt')[i]
      BY RingNow
    <3>2. mem' \in [Slots -> Data] /\ rd_addr' \in Slots /\ fifo_cnt' \in Slots
      BY RingNow
    <3>3. \A k \in 1 .. fifo_cnt' :
             RingOf(mem', rd_addr', fifo_cnt')[k] = mem'[(rd_addr' + (k - 1)) % FIFO_DEPTH]
      BY <3>2, RingIsSeq
    <3> QED
      BY <3>1, <3>3
  <2>2. i + shift \in 1 .. total /\ i \in Nat
    BY <1>1, <1>7
  <2>3. mem'[(rd_addr + (i + shift - 1)) % FIFO_DEPTH] = Avail(v, d)[i + shift]
    BY <2>2, SlotContents
  <2>4. (rd_addr' + (i - 1)) % FIFO_DEPTH = (rd_addr + (i + shift - 1)) % FIFO_DEPTH
    <3>1. CASE ~read(v, r)
      BY <3>1, <2>2 DEF Clock, RingClock
    <3>2. CASE read(v, r)
      <4>1. rd_addr' = IF rd_addr = FIFO_DEPTH - 1 THEN 0 ELSE rd_addr + 1
        BY <3>2, NextSlot DEF Clock, RingClock
      <4>2. i - 1 \in Slots /\ i \in 0 .. FIFO_DEPTH - 1
        BY DepthAssumption DEF Slots
      <4>3. /\ (rd_addr' + (i - 1)) % FIFO_DEPTH =
                  IF rd_addr' + (i - 1) < FIFO_DEPTH THEN rd_addr' + (i - 1)
                  ELSE rd_addr' + (i - 1) - FIFO_DEPTH
            /\ (rd_addr + i) % FIFO_DEPTH =
                  IF rd_addr + i < FIFO_DEPTH THEN rd_addr + i ELSE rd_addr + i - FIFO_DEPTH
        BY <4>2, RingSlot DEF Slots
      <4>4. i + shift - 1 = i
        BY <3>2, <4>2
      <4>5. (rd_addr' + (i - 1)) % FIFO_DEPTH = (rd_addr + i) % FIFO_DEPTH
        BY <4>1, <4>2, <4>3, DepthAssumption DEF Slots
      <4> QED
        BY <4>4, <4>5
    <3> QED
      BY <3>1, <3>2
  <2> QED
    BY <1>5, <1>7, <2>1, <2>3, <2>4
<1> HIDE DEF want, total, shift
<1>9. Ring' = want
  BY <1>5, <1>6, <1>7, <1>8, SeqEqual
<1> QED
  BY <1>9 DEF want

-----------------------------------------------------------------------------
(* FifoStep alone: the words that leave, then the words kept, are the words  *)
(* held, then the word accepted.                                             *)
LEMMA HeadTail ==
    ASSUME NEW s \in Seq(Data), s # <<>>
    PROVE  <<Head(s)>> \o Tail(s) = s
<1>1. <<Head(s)>> \in Seq(Data) /\ Tail(s) \in Seq(Data)
  BY HeadTailProperties
<1>2. Len(<<Head(s)>> \o Tail(s)) = Len(s)
  BY <1>1, HeadTailProperties, ConcatProperties
<1>3. \A i \in 1 .. Len(s) : (<<Head(s)>> \o Tail(s))[i] = s[i]
  BY <1>1, HeadTailProperties, ConcatProperties
<1> QED
  BY <1>1, <1>2, <1>3, SeqEqual

LEMMA Assoc ==
    ASSUME NEW s \in Seq(Data), NEW t \in Seq(Data), NEW u \in Seq(Data)
    PROVE  s \o t \o u = s \o (t \o u)
  BY ConcatAssociative

LEMMA PortIsSeq == Port \subseteq Seq(Data) /\ \A p \in Port : Len(p) <= 1
<1> SUFFICES ASSUME NEW p \in Port PROVE p \in Seq(Data) /\ Len(p) <= 1
  OBVIOUS
<1>1. CASE p = <<>>
  BY <1>1
<1>2. ASSUME NEW d \in Data, p = <<d>> PROVE p \in Seq(Data) /\ Len(p) <= 1
  BY <1>2
<1> QED
  BY <1>1, <1>2 DEF Port

\* The facts about concatenation, for the sequences of words.
LEMMA Concat ==
    /\ <<>> \in Seq(Data)
    /\ \A s \in Seq(Data) : s \o <<>> = s /\ <<>> \o s = s /\ Len(s) \in Nat
    /\ \A s, t \in Seq(Data) : s \o t \in Seq(Data) /\ Len(s \o t) = Len(s) + Len(t)
    /\ \A s, t, u \in Seq(Data) : (s \o t) \o u = s \o (t \o u)
  BY ConcatEmptySeq, ConcatProperties, ConcatAssociative, EmptySeq

FifoType(f, registered) ==
    /\ f.q \in Seq(Data) /\ f.bram \in Port /\ f.res \in Port
    /\ ~registered => f.res = <<>>

LEMMA FifoStepIsTransfer ==
    ASSUME NEW f, NEW depth, NEW registered \in BOOLEAN, FifoType(f, registered),
           NEW offer \in Port, NEW taken \in BOOLEAN
    PROVE  LET g == FifoStep(f, depth, registered, offer, taken)
               accepted == IF FifoReady(f, depth) THEN offer ELSE <<>>
               leaving  == IF taken THEN FifoOut(f, registered) ELSE <<>>
           IN  /\ leaving \o FifoWords(g) = FifoWords(f) \o accepted
               /\ Len(leaving) <= Len(FifoWords(f))
<1> DEFINE g == FifoStep(f, depth, registered, offer, taken)
           accepted == IF FifoReady(f, depth) THEN offer ELSE <<>>
           leaving  == IF taken THEN FifoOut(f, registered) ELSE <<>>
           bram_tr  == IF registered THEN f.res = <<>> \/ taken ELSE taken
           rd_tr    == f.bram = <<>> \/ bram_tr
           avail    == f.q \o accepted
           S        == Seq(Data)
<1>1. /\ f.q \in S /\ f.bram \in S /\ f.res \in S /\ accepted \in S /\ leaving \in S
      /\ avail \in S /\ <<>> \in S
      /\ \A s \in S : s \o <<>> = s /\ <<>> \o s = s
  BY PortIsSeq, Concat DEF FifoType, FifoOut
<1>2. /\ g.q = IF avail # <<>> /\ rd_tr THEN Tail(avail) ELSE avail
      /\ g.bram = IF avail # <<>> /\ rd_tr THEN <<Head(avail)>>
                  ELSE IF bram_tr THEN <<>> ELSE f.bram
      /\ g.res = IF ~registered THEN <<>>
                 ELSE IF bram_tr /\ f.bram # <<>> THEN f.bram
                 ELSE IF taken THEN <<>> ELSE f.res
  BY DEF FifoStep
<1>3. g.q \in S /\ g.bram \in S /\ g.res \in S
  <2>1. CASE avail = <<>>
    BY <1>1, <1>2, <2>1
  <2>2. CASE avail # <<>>
    <3>1. <<Head(avail)>> \in S /\ Tail(avail) \in S
      <4>1. Head(avail) \in Data /\ Tail(avail) \in S
        BY <1>1, <2>2, HeadTailProperties, Zenon
      <4> HIDE DEF avail
      <4> QED
        BY <4>1
    <3> QED
      BY <1>1, <1>2, <3>1
  <2> QED
    BY <2>1, <2>2
<1>4. leaving \o g.res \o (g.bram \o g.q) = f.res \o f.bram \o avail
  <2>1. CASE ~rd_tr
    <3>1. g.q = avail /\ g.bram = f.bram /\ leaving = <<>> /\ g.res = f.res
      BY <1>2, <2>1 DEF FifoType
    <3> HIDE DEF g, avail, leaving, S
    <3>2. f.res \o (f.bram \o avail) = f.res \o f.bram \o avail
      BY <1>1, Assoc, Zenon DEF S
    <3> QED
      BY <1>1, <3>1, <3>2
  <2>2. CASE rd_tr
    <3>1. g.bram \o g.q = avail
      <4>1. CASE avail # <<>>
        BY <1>1, <1>2, <2>2, <4>1, HeadTail
      <4>2. CASE avail = <<>>
        <5>1. g.bram = <<>> /\ g.q = avail
          BY <1>2, <2>2, <4>2
        <5> HIDE DEF g, avail, S
        <5> QED
          BY <1>1, <5>1
      <4> QED
        BY <4>1, <4>2
    <3>2. leaving \o g.res = f.res \o f.bram
      <4>1. CASE ~registered
        <5>1. /\ g.res = <<>> /\ f.res = <<>>
              /\ leaving = f.bram
          BY <1>2, <2>2, <4>1 DEF FifoType, FifoOut
        <5> HIDE DEF g, leaving, S
        <5> QED
          BY <1>1, <5>1
      <4>2. CASE registered /\ f.bram # <<>>
        <5>1. g.res = f.bram /\ leaving = f.res
          BY <1>2, <2>2, <4>2 DEF FifoOut
        <5> QED
          BY <5>1
      <4>3. CASE registered /\ f.bram = <<>> /\ taken
        <5>1. g.res = <<>> /\ leaving = f.res
          BY <1>2, <4>3 DEF FifoOut
        <5> QED
          BY <4>3, <5>1
      <4>4. CASE registered /\ f.bram = <<>> /\ ~taken
        <5>1. g.res = f.res /\ leaving = <<>>
          BY <1>2, <4>4 DEF FifoOut
        <5> HIDE DEF g, leaving, S
        <5> QED
          BY <1>1, <4>4, <5>1
      <4> QED
        BY <4>1, <4>2, <4>3, <4>4
    <3> QED
      BY <3>1, <3>2
  <2> QED
    BY <2>1, <2>2
<1> HIDE DEF g, accepted, leaving, bram_tr, rd_tr
<1>5. leaving \o g.res \o (g.bram \o g.q) = leaving \o (g.res \o g.bram \o g.q)
  <2>1. g.bram \o g.q \in S
    BY <1>3, Concat
  <2>2. (leaving \o g.res) \o (g.bram \o g.q) = leaving \o (g.res \o (g.bram \o g.q))
    <3>1. \A x \in S : (leaving \o g.res) \o x = leaving \o (g.res \o x)
      BY <1>1, <1>3, Assoc, Zenon
    <3> QED
      BY <2>1, <3>1, Zenon
  <2>3. g.res \o (g.bram \o g.q) = g.res \o g.bram \o g.q
    BY <1>3, Assoc, Zenon
  <2> QED
    BY <2>2, <2>3
<1>6. f.res \o f.bram \o avail = f.res \o f.bram \o f.q \o accepted
  <2>1. f.res \o f.bram \in S
    BY <1>1, Concat
  <2> QED
    BY <1>1, <2>1, Assoc, Zenon DEF avail
<1>7. leaving \o FifoWords(g) = FifoWords(f) \o accepted
  BY <1>4, <1>5, <1>6 DEF FifoWords
<1>8. Len(leaving) <= Len(FifoWords(f))
  <2>1. leaving \in {<<>>, f.res, f.bram}
    BY DEF leaving, FifoOut
  <2>2. f.res \o f.bram \in S /\ Len(f.res \o f.bram) = Len(f.res) + Len(f.bram)
    BY <1>1, Concat
  <2>3. Len(FifoWords(f)) = Len(f.res) + Len(f.bram) + Len(f.q)
    BY <1>1, <2>2, Concat DEF FifoWords
  <2>4. Len(f.res) \in Nat /\ Len(f.bram) \in Nat /\ Len(f.q) \in Nat /\ Len(<<>>) = 0
    BY <1>1, Concat
  <2>5. Len(leaving) = 0 \/ Len(leaving) = Len(f.res) \/ Len(leaving) = Len(f.bram)
    BY <2>1, <2>4
  <2>6. \A x, a, b, c \in Nat : x = 0 \/ x = a \/ x = b => x <= a + b + c
    OBVIOUS
  <2>7. Len(leaving) \in Nat
    BY <2>4, <2>5
  <2> QED
    BY <2>3, <2>4, <2>5, <2>6, <2>7, Zenon
<1> QED
  BY <1>7, <1>8 DEF g, accepted, leaving

-----------------------------------------------------------------------------
\* What the ports offer and take, as FifoStep and StreamFifo see it.
LEMMA PortsNow ==
    ASSUME IInv, NEW v \in BOOLEAN, NEW d \in Data
    PROVE  /\ FifoReady(Fifo, FIFO_DEPTH) <=> wr_data_tready
           /\ Fifo.q \o (IF FifoReady(Fifo, FIFO_DEPTH) THEN (IF v THEN <<d>> ELSE <<>>) ELSE <<>>)
                 = Avail(v, d)
           /\ FifoOut(Fifo, REGISTER_OUTPUT) = IF m_tvalid THEN <<m_tdata>> ELSE <<>>
           /\ FifoType(Fifo, REGISTER_OUTPUT)
<1> USE DEF IInv, TypeOK
<1>1. Len(Ring) = fifo_cnt /\ Ring \in Seq(Data)
  BY RingNow, RingIsSeq
<1>2. FifoReady(Fifo, FIFO_DEPTH) <=> wr_data_tready
  <2>1. fifo_cnt # FIFO_DEPTH - 1 <=> fifo_cnt < FIFO_DEPTH - 1
    BY DepthAssumption DEF Slots
  <2> QED
    BY <1>1, <2>1 DEF FifoReady, Fifo, RingConsistent
<1>3. Fifo.q = Ring
  BY DEF Fifo
<1>4. FifoOut(Fifo, REGISTER_OUTPUT) = IF m_tvalid THEN <<m_tdata>> ELSE <<>>
  BY DEF FifoOut, Fifo, m_tvalid, m_tdata
<1>5. FifoType(Fifo, REGISTER_OUTPUT)
  BY <1>1, <1>3 DEF FifoType, Fifo, Port, tdata
<1> QED
  BY <1>2, <1>3, <1>4, <1>5 DEF Avail, write

LEMMA ClockIsFifoStep ==
    ASSUME IInv, TypeOK', NEW v \in BOOLEAN, NEW r \in BOOLEAN, NEW d \in Data, Clock(v, d, r)
    PROVE  Fifo' = FifoStep(Fifo, FIFO_DEPTH, REGISTER_OUTPUT, IF v THEN <<d>> ELSE <<>>, r)
<1> DEFINE B == IF bram_tvalid THEN <<tdata>> ELSE <<>>
           R == IF res_tvalid THEN <<res_tdata>> ELSE <<>>
<1> USE DEF IInv, TypeOK
<1>1. /\ Avail(v, d) \in Seq(Data)
      /\ Len(Avail(v, d)) = IF write(v) THEN fifo_cnt + 1 ELSE fifo_cnt
  BY AvailIsSeq
<1>2. Avail(v, d) # <<>> <=> rd_data_tvalid(v)
  <2>1. fifo_cnt \in Nat
    BY DepthAssumption DEF Slots
  <2>2. Avail(v, d) = <<>> <=> Len(Avail(v, d)) = 0
    BY <1>1
  <2> QED
    BY <1>1, <2>1, <2>2 DEF rd_data_tvalid
<1>3. /\ Fifo.bram = B /\ Fifo.res = R /\ Fifo.q = Ring
      /\ B = <<>> <=> ~bram_tvalid
      /\ R = <<>> <=> ~res_tvalid
  BY DEF Fifo
<1>4. /\ (IF REGISTER_OUTPUT THEN R = <<>> \/ r ELSE r) = bram_tready(r)
      /\ (B = <<>> \/ bram_tready(r)) = rd_tready(r)
  BY <1>3 DEF bram_tready, rd_tready
<1>5. Ring' = IF Avail(v, d) # <<>> /\ rd_tready(r) THEN Tail(Avail(v, d)) ELSE Avail(v, d)
  BY <1>2, RingNext DEF read
<1>6. B' = IF Avail(v, d) # <<>> /\ rd_tready(r) THEN <<Head(Avail(v, d))>>
           ELSE IF bram_tready(r) THEN <<>> ELSE B
  <2>1. CASE read(v, r) /\ fifo_cnt = 0
    <3>1. write(v) /\ bram_tvalid' /\ bram_bypass_en' /\ bram_bypass_data' = d
      BY <2>1 DEF Clock, BramClock, read, rd_data_tvalid, use_bypass
    <3>2. Head(Avail(v, d)) = d
      <4>1. Avail(v, d)[1] = d
        BY <2>1, <3>1, AvailIsSeq
      <4> QED
        BY <4>1, <1>1
    <3> QED
      BY <1>2, <2>1, <3>1, <3>2 DEF tdata, read
  <2>2. CASE read(v, r) /\ fifo_cnt # 0
    <3>1. bram_tvalid' /\ ~bram_bypass_en'
      BY <2>2 DEF Clock, BramClock, use_bypass
    <3>2. bram_tdata' = mem[rd_addr]
      BY <2>2 DEF Clock, RamClock, read, rd_tready, addressstall_b
    <3>3. Head(Avail(v, d)) = mem[rd_addr]
      <4>1. 1 \in 1 .. fifo_cnt /\ rd_addr + (1 - 1) = rd_addr /\ 0 \in Slots
        BY <2>2, DepthAssumption DEF Slots
      <4>2. (rd_addr + (1 - 1)) % FIFO_DEPTH = rd_addr
        <5>1. rd_addr \in 0 .. 2 * FIFO_DEPTH - 1 /\ rd_addr < FIFO_DEPTH
          BY DepthAssumption DEF Slots
        <5>2. rd_addr % FIFO_DEPTH = rd_addr
          BY <5>1, SlotArith
        <5> QED
          BY <4>1, <5>2
      <4>3. Avail(v, d)[1] = Ring[1]
        BY <4>1, AvailIsSeq
      <4>4. Ring[1] = mem[(rd_addr + (1 - 1)) % FIFO_DEPTH]
        BY <4>1 DEF Ring
      <4> QED
        BY <1>1, <4>2, <4>3, <4>4
    <3> QED
      BY <1>2, <2>2, <3>1, <3>2, <3>3 DEF tdata, read
  <2>3. CASE ~read(v, r) /\ bram_tready(r)
    <3>1. ~bram_tvalid'
      BY <2>3 DEF Clock, BramClock
    <3> QED
      BY <1>2, <2>3, <3>1 DEF read
  <2>4. CASE ~read(v, r) /\ ~bram_tready(r)
    <3>1. /\ bram_tvalid' = bram_tvalid /\ bram_bypass_en' = bram_bypass_en
          /\ bram_bypass_data' = bram_bypass_data
      BY <2>4 DEF Clock, BramClock
    <3>2. bram_tvalid /\ ~bram_bypass_en => bram_tdata' = bram_tdata
      BY <2>4 DEF Clock, RamClock, addressstall_b, HeldBehindRead
    <3> QED
      BY <1>2, <2>4, <3>1, <3>2 DEF tdata, read
  <2> QED
    BY <2>1, <2>2, <2>3, <2>4
<1>7. R' = IF ~REGISTER_OUTPUT THEN <<>>
           ELSE IF bram_tready(r) /\ B # <<>> THEN B
           ELSE IF r THEN <<>> ELSE R
  BY <1>3 DEF Clock, ResClock, ResData
<1>8. Fifo' = [q |-> Ring', bram |-> B', res |-> R']
  BY DEF Fifo
<1> HIDE DEF B, R
<1>9. Fifo.q \o (IF FifoReady(Fifo, FIFO_DEPTH) THEN (IF v THEN <<d>> ELSE <<>>) ELSE <<>>)
         = Avail(v, d)
  BY PortsNow
<1> QED
  BY <1>3, <1>4, <1>5, <1>6, <1>7, <1>8, <1>9 DEF FifoStep

(* At every edge the FIFO steps as FifoStep says, or is emptied by reset:    *)
(* the composed modules may stand on FifoStep whatever the depth.            *)
THEOREM FifoStepsAsFifoStep == Spec => StepsAsFifoStep
<1>1. ASSUME IInv, IInv', [Next]_vars
      PROVE  [\/ \E v, r \in BOOLEAN, d \in Data :
                    Fifo' = FifoStep(Fifo, FIFO_DEPTH, REGISTER_OUTPUT,
                                     IF v THEN <<d>> ELSE <<>>, r)
              \/ Fifo' = EmptyFifo]_vars
  <2>1. ASSUME NEW v \in BOOLEAN, NEW r \in BOOLEAN, NEW d \in Data, Clock(v, d, r)
        PROVE  Fifo' = FifoStep(Fifo, FIFO_DEPTH, REGISTER_OUTPUT,
                                IF v THEN <<d>> ELSE <<>>, r)
    BY <1>1, <2>1, ClockIsFifoStep DEF IInv
  <2>2. ASSUME NEW v \in BOOLEAN, NEW r \in BOOLEAN, NEW d \in Data, Reset(v, d, r)
        PROVE  Fifo' = EmptyFifo
    <3>1. Ring' = <<>>
      BY <2>2 DEF Reset, Ring
    <3> QED
      BY <2>2, <3>1 DEF Reset, Fifo, EmptyFifo
  <2> QED
    BY <1>1, <2>1, <2>2 DEF Next
<1> QED
  BY <1>1, InvariantHolds, PTL DEF Spec, StepsAsFifoStep

\* The queue never holds more than the ring, the RAM output and the register.
LEMMA LengthBound ==
    /\ IInv => Len(FifoWords(Fifo)) <= Capacity
    /\ IInv' => Len(FifoWords(Fifo')) <= Capacity
<1>1. ASSUME NEW m \in [Slots -> Data], NEW a \in Slots, NEW n \in Slots,
             NEW b \in Port, NEW x \in Port, x # <<>> => REGISTER_OUTPUT
      PROVE  Len(x \o b \o RingOf(m, a, n)) <= Capacity
  <2>1. /\ RingOf(m, a, n) \in Seq(Data) /\ Len(RingOf(m, a, n)) = n
        /\ b \in Seq(Data) /\ x \in Seq(Data) /\ Len(b) <= 1 /\ Len(x) <= 1
    BY RingIsSeq, PortIsSeq
  <2>2. Len(x \o b \o RingOf(m, a, n)) = Len(x) + Len(b) + n
    BY <2>1, Concat
  <2>3. Len(x) \in Nat /\ Len(b) \in Nat /\ n \in Nat /\ n <= FIFO_DEPTH - 1
    BY <2>1, Concat, DepthAssumption DEF Slots
  <2>4. ~REGISTER_OUTPUT => Len(x) = 0
    BY <1>1
  <2> QED
    BY <2>1, <2>2, <2>3, <2>4, DepthAssumption, RegisterAssumption DEF Capacity
<1>2. IInv => /\ Fifo.bram \in Port /\ Fifo.res \in Port
              /\ Fifo.res # <<>> => REGISTER_OUTPUT
              /\ FifoWords(Fifo) = Fifo.res \o Fifo.bram \o RingOf(mem, rd_addr, fifo_cnt)
  BY RingNow DEF IInv, TypeOK, Fifo, FifoWords, Port, tdata
<1>3. IInv' => /\ Fifo'.bram \in Port /\ Fifo'.res \in Port
               /\ Fifo'.res # <<>> => REGISTER_OUTPUT
               /\ FifoWords(Fifo') = Fifo'.res \o Fifo'.bram \o RingOf(mem', rd_addr', fifo_cnt')
  BY RingNow DEF IInv, TypeOK, Fifo, FifoWords, Port, tdata
<1>4. IInv => TypeOK
  BY DEF IInv
<1> QED
  BY <1>1, <1>2, <1>3, <1>4, RingNow DEF IInv

(* The FIFO implements the abstract queue: nothing is lost, duplicated or    *)
(* reordered between the two ports, and it never holds more than Capacity.   *)
THEOREM FifoImplementsQueue == Spec => ImplementsQueue
<1>1. ASSUME Init PROVE Queue!Init
  <2>1. Ring = <<>>
    BY <1>1 DEF Init, Ring
  <2> QED
    BY <1>1, <2>1 DEF Init, Queue!Init, Fifo, FifoWords
<1>2. ASSUME IInv, IInv', [Next]_vars
      PROVE  [Queue!Next]_(Queue!vars)
  <2>1. ASSUME NEW v \in BOOLEAN, NEW r \in BOOLEAN, NEW d \in Data, Clock(v, d, r)
        PROVE  Queue!Transfer
    <3>1. Fifo' = FifoStep(Fifo, FIFO_DEPTH, REGISTER_OUTPUT, IF v THEN <<d>> ELSE <<>>, r)
      BY <1>2, <2>1, ClockIsFifoStep DEF IInv
    <3>2. /\ FifoReady(Fifo, FIFO_DEPTH) <=> wr_data_tready
          /\ FifoOut(Fifo, REGISTER_OUTPUT) = IF m_tvalid THEN <<m_tdata>> ELSE <<>>
          /\ FifoType(Fifo, REGISTER_OUTPUT)
      BY <1>2, PortsNow
    <3>3. /\ in' = IF FifoReady(Fifo, FIFO_DEPTH) THEN (IF v THEN <<d>> ELSE <<>>) ELSE <<>>
          /\ out' = IF r THEN FifoOut(Fifo, REGISTER_OUTPUT) ELSE <<>>
      BY <2>1, <3>2 DEF Clock, write
    <3>4. (IF v THEN <<d>> ELSE <<>>) \in Port
      BY DEF Port
    <3>5. /\ out' \o FifoWords(Fifo') = FifoWords(Fifo) \o in'
          /\ Len(out') <= Len(FifoWords(Fifo))
      BY <3>1, <3>2, <3>3, <3>4, RegisterAssumption, FifoStepIsTransfer
    <3>6. in' \in Queue!Port /\ out' \in Queue!Port
      BY <1>2 DEF IInv, TypeOK, Port, Queue!Port
    <3>7. Len(FifoWords(Fifo')) <= Capacity
      BY <1>2, LengthBound
    <3> QED
      BY <3>5, <3>6, <3>7 DEF Queue!Transfer
  <2>2. ASSUME NEW v \in BOOLEAN, NEW r \in BOOLEAN, NEW d \in Data, Reset(v, d, r)
        PROVE  Queue!Flush
    <3>1. Ring' = <<>>
      BY <2>2 DEF Reset, Ring
    <3> QED
      BY <2>2, <3>1 DEF Reset, Fifo, FifoWords, Queue!Flush
  <2>3. CASE UNCHANGED vars
    BY <2>3 DEF vars, ring, ram_vars, bram_vars, res_vars, Queue!vars, Fifo, FifoWords, Ring, tdata
  <2> QED
    BY <1>2, <2>1, <2>2, <2>3 DEF Next, Queue!Next
<1> QED
  BY <1>1, <1>2, InvariantHolds, PTL DEF Spec, ImplementsQueue, Queue!Spec

-----------------------------------------------------------------------------
(***************************************************************************)
(* The skid buffer, beside the FIFO.                                        *)
(***************************************************************************)
VARIABLES tmp_tvalid, tmp_tdata, out_tvalid, out_tdata, reg_in, reg_out
Reg == INSTANCE AxisReg WITH in <- reg_in, out <- reg_out

SkidInv == Reg!TypeOK /\ Reg!SkidBehindOutput

LEMMA InitSkidInv == Reg!Init => SkidInv
  BY DEF Reg!Init, SkidInv, Reg!TypeOK, Reg!SkidBehindOutput

LEMMA NextSkidInv == SkidInv /\ [Reg!Next]_(Reg!vars) => SkidInv'
<1> SUFFICES ASSUME SkidInv, [Reg!Next]_(Reg!vars) PROVE SkidInv'
  OBVIOUS
<1> USE DEF SkidInv, Reg!TypeOK, Reg!SkidBehindOutput
<1>1. ASSUME NEW v \in BOOLEAN, NEW r \in BOOLEAN, NEW d \in Data, Reg!Clock(v, d, r)
      PROVE  SkidInv'
  BY <1>1 DEF Reg!Clock, Reg!TmpBuffer, Reg!OutReg, Reg!OutData, Reg!in_tready, Reg!tmp_tready
<1>2. ASSUME NEW v \in BOOLEAN, NEW r \in BOOLEAN, NEW d \in Data, Reg!Reset(v, d, r)
      PROVE  SkidInv'
  BY <1>2 DEF Reg!Reset, Reg!OutData, Reg!in_tready, Reg!tmp_tready
<1>3. CASE UNCHANGED Reg!vars
  BY <1>3 DEF Reg!vars
<1> QED
  BY <1>1, <1>2, <1>3 DEF Reg!Next

(* The skid register is only filled behind a full output register, and every *)
(* register keeps its type.                                                  *)
THEOREM SkidSafe == Reg!Spec => [](Reg!TypeOK /\ Reg!SkidBehindOutput)
<1>1. Reg!Init => SkidInv
  BY InitSkidInv
<1>2. SkidInv /\ [Reg!Next]_(Reg!vars) => SkidInv'
  BY NextSkidInv
<1> QED
  BY <1>1, <1>2, PTL DEF Reg!Spec, SkidInv

-----------------------------------------------------------------------------
LEMMA HeldIsSeq == ASSUME SkidInv PROVE Reg!Held \in Seq(Data) /\ Len(Reg!Held) <= 2
  BY DEF SkidInv, Reg!TypeOK, Reg!Held

\* Every edge without reset moves the words as a queue does.
LEMMA ClockIsTransfer ==
    ASSUME SkidInv, NEW v \in BOOLEAN, NEW r \in BOOLEAN, NEW d \in Data, Reg!Clock(v, d, r)
    PROVE  reg_out' \o Reg!Held' = Reg!Held \o reg_in' /\ Len(reg_out') <= Len(Reg!Held)
<1> DEFINE o == <<out_tdata>>
           t == <<tmp_tdata>>
           x == <<d>>
<1> USE DEF SkidInv, Reg!TypeOK, Reg!SkidBehindOutput, Reg!Clock, Reg!TmpBuffer, Reg!OutReg, Reg!OutData,
            Reg!in_tready, Reg!tmp_tready, Reg!Held
<1>0. /\ o \in Seq(Data) /\ t \in Seq(Data) /\ x \in Seq(Data) /\ <<>> \in Seq(Data)
      /\ \A s \in Seq(Data) : s \o <<>> = s /\ <<>> \o s = s
      /\ Len(o) = 1 /\ Len(<<>>) = 0
  BY ConcatEmptySeq
<1>1. CASE ~out_tvalid
  <2>1. /\ Reg!Held = <<>> \o <<>> /\ reg_out' = <<>>
        /\ Reg!Held' = reg_in' \o <<>> /\ reg_in' \in {<<>>, x}
    BY <1>1
  <2> HIDE DEF SkidInv, Reg!Clock, o, t, x, Reg!Held
  <2> QED
    BY <1>0, <2>1
<1>2. CASE out_tvalid /\ ~tmp_tvalid /\ r
  <2>1. /\ Reg!Held = o \o <<>> /\ reg_out' = o
        /\ Reg!Held' = reg_in' \o <<>> /\ reg_in' \in {<<>>, x}
    BY <1>2
  <2> HIDE DEF SkidInv, Reg!Clock, o, t, x, Reg!Held
  <2> QED
    BY <1>0, <2>1
<1>3. CASE out_tvalid /\ ~tmp_tvalid /\ ~r
  <2>1. /\ Reg!Held = o \o <<>> /\ reg_out' = <<>>
        /\ Reg!Held' = o \o reg_in' /\ reg_in' \in {<<>>, x}
    BY <1>3
  <2> HIDE DEF SkidInv, Reg!Clock, o, t, x, Reg!Held
  <2> QED
    BY <1>0, <2>1
<1>4. CASE out_tvalid /\ tmp_tvalid /\ r
  <2>1. /\ Reg!Held = o \o t /\ reg_out' = o
        /\ Reg!Held' = t \o <<>> /\ reg_in' = <<>>
    BY <1>4
  <2>2. Len(o \o t) = 2
    BY <1>0
  <2> HIDE DEF SkidInv, Reg!Clock, o, t, x, Reg!Held
  <2> QED
    BY <1>0, <2>1, <2>2
<1>5. CASE out_tvalid /\ tmp_tvalid /\ ~r
  <2>1. Reg!Held = o \o t /\ reg_out' = <<>> /\ Reg!Held' = o \o t /\ reg_in' = <<>>
    BY <1>5
  <2> HIDE DEF SkidInv, Reg!Clock, o, t, x, Reg!Held
  <2> QED
    BY <1>0, <2>1
<1> QED
  BY <1>1, <1>2, <1>3, <1>4, <1>5

(* RegStep on the three lengths an axis_reg can have.                        *)
LEMMA RegSteps ==
    ASSUME NEW S, NEW a \in S, NEW b \in S, NEW off \in Seq(S), NEW r \in BOOLEAN
    PROVE  /\ RegStep(<<>>, off, r) = off
           /\ RegStep(<<a>>, off, r) = IF r THEN off ELSE <<a>> \o off
           /\ RegStep(<<a>> \o <<b>>, off, r) = IF r THEN <<b>> ELSE (<<a>> \o <<b>>)
<1> DEFINE ab == <<a>> \o <<b>>
<1>0. /\ Len(<<>>) = 0 /\ Len(<<a>>) = 1 /\ <<a>> # <<>> /\ Tail(<<a>>) = <<>>
      /\ <<a>> \in Seq(S) /\ <<b>> \in Seq(S) /\ <<>> \in Seq(S)
  OBVIOUS
<1>a. ab \in Seq(S) /\ Len(ab) = 2 /\ ab # <<>>
  BY <1>0
<1>b. ab = Append(<<a>>, b) /\ Append(<<>>, b) = <<>> \o <<b>>
  BY <1>0, AppendIsConcat
<1>c. Tail(ab) = Append(<<>>, b)
  BY <1>0, <1>b, HeadTailAppend
<1>2. /\ <<>> \o off = off /\ <<b>> \o <<>> = <<b>> /\ <<>> \o <<b>> = <<b>>
      /\ ab \o <<>> = ab
  BY <1>0, <1>a, ConcatEmptySeq
<1>1. Tail(ab) = <<b>>
  BY <1>b, <1>c, <1>2
<1> HIDE DEF ab
<1>3. RegStep(<<>>, off, r) = off
  BY <1>0, <1>2 DEF RegStep, RegReady
<1>4. RegStep(<<a>>, off, r) = IF r THEN off ELSE <<a>> \o off
  BY <1>0, <1>2 DEF RegStep, RegReady
<1>5. RegStep(ab, off, r) = IF r THEN <<b>> ELSE ab
  <2>1. ~RegReady(ab)
    BY <1>a DEF RegReady
  <2>2. RegStep(ab, off, r) = (IF r THEN Tail(ab) ELSE ab) \o <<>>
    BY <2>1, <1>a, Zenon DEF RegStep
  <2>3. CASE r
    BY <2>2, <2>3, <1>1, <1>2, Zenon
  <2>4. CASE ~r
    BY <2>2, <2>4, <1>2, Zenon
  <2> QED
    BY <2>3, <2>4
<1> QED
  BY <1>3, <1>4, <1>5 DEF ab

LEMMA HeldForms ==
    ASSUME NEW p \in BOOLEAN, NEW q \in BOOLEAN, NEW a \in Data, NEW b \in Data
    PROVE  LET h == (IF p THEN <<a>> ELSE <<>>) \o (IF q THEN <<b>> ELSE <<>>)
           IN  /\ ~p /\ ~q => h = <<>>
               /\ p /\ ~q => h = <<a>>
               /\ p /\ q => h = <<a>> \o <<b>>
<1>0. <<a>> \in Seq(Data) /\ <<b>> \in Seq(Data) /\ <<>> \in Seq(Data)
  OBVIOUS
<1>1. <<>> \o <<>> = <<>> /\ <<a>> \o <<>> = <<a>>
  BY <1>0, ConcatEmptySeq
<1> QED
  BY <1>1, Zenon

(* Every edge of axis_reg is the step of the composed modules.               *)
THEOREM AxisRegStepsAsRegStep == Reg!Spec => Reg!StepsAsRegStep
<1>1. ASSUME SkidInv, NEW v \in BOOLEAN, NEW r \in BOOLEAN, NEW d \in Data, Reg!Clock(v, d, r)
      PROVE  Reg!Held' = RegStep(Reg!Held, IF v THEN <<d>> ELSE <<>>, r)
  <2> DEFINE off == IF v THEN <<d>> ELSE <<>>
  <2>0. off \in Seq(Data) /\ <<out_tdata>> \o <<>> = <<out_tdata>>
    BY <1>1 DEF SkidInv, Reg!TypeOK
  <2> HIDE DEF off
  <2>1. /\ RegStep(<<>>, off, r) = off
        /\ RegStep(<<out_tdata>>, off, r) = IF r THEN off ELSE <<out_tdata>> \o off
        /\ RegStep(<<out_tdata>> \o <<tmp_tdata>>, off, r) =
              IF r THEN <<tmp_tdata>> ELSE <<out_tdata>> \o <<tmp_tdata>>
    BY <1>1, <2>0, RegSteps DEF SkidInv, Reg!TypeOK
  <2>2. /\ ~out_tvalid /\ ~tmp_tvalid => Reg!Held = <<>>
        /\ out_tvalid /\ ~tmp_tvalid => Reg!Held = <<out_tdata>>
        /\ out_tvalid /\ tmp_tvalid => Reg!Held = <<out_tdata>> \o <<tmp_tdata>>
    BY <1>1, HeldForms DEF SkidInv, Reg!TypeOK, Reg!Held
  <2>3. /\ ~out_tvalid' /\ ~tmp_tvalid' => Reg!Held' = <<>>
        /\ out_tvalid' /\ ~tmp_tvalid' => Reg!Held' = <<out_tdata'>>
        /\ out_tvalid' /\ tmp_tvalid' =>
              Reg!Held' = <<out_tdata'>> \o <<tmp_tdata'>>
    <3>1. /\ out_tvalid' \in BOOLEAN /\ tmp_tvalid' \in BOOLEAN
          /\ out_tdata' \in Data /\ tmp_tdata' \in Data
      BY <1>1 DEF SkidInv, Reg!TypeOK, Reg!Clock, Reg!TmpBuffer, Reg!OutReg, Reg!OutData, Reg!in_tready, Reg!tmp_tready
    <3> QED
      BY <3>1, HeldForms DEF Reg!Held
  <2>4. CASE ~out_tvalid
    <3>1. /\ Reg!Held = <<>> /\ ~tmp_tvalid' /\ out_tvalid' = v
          /\ v => out_tdata' = d
      BY <1>1, <2>2, <2>4 DEF SkidInv, Reg!TypeOK, Reg!SkidBehindOutput, Reg!Clock, Reg!TmpBuffer, Reg!OutReg,
                                 Reg!OutData, Reg!in_tready, Reg!tmp_tready
    <3>2. Reg!Held' = off
      BY <3>1, <2>3 DEF off
    <3> QED
      BY <3>1, <3>2, <2>1 DEF off
  <2>5. CASE out_tvalid /\ ~tmp_tvalid /\ r
    <3>1. /\ Reg!Held = <<out_tdata>> /\ ~tmp_tvalid' /\ out_tvalid' = v
          /\ v => out_tdata' = d
      BY <1>1, <2>2, <2>5 DEF SkidInv, Reg!TypeOK, Reg!SkidBehindOutput, Reg!Clock, Reg!TmpBuffer, Reg!OutReg,
                                 Reg!OutData, Reg!in_tready, Reg!tmp_tready
    <3>2. Reg!Held' = off
      BY <3>1, <2>3 DEF off
    <3> QED
      BY <3>1, <3>2, <2>1, <2>5 DEF off
  <2>6. CASE out_tvalid /\ ~tmp_tvalid /\ ~r
    <3>1. /\ Reg!Held = <<out_tdata>> /\ tmp_tvalid' = v /\ out_tvalid' /\ out_tdata' = out_tdata
          /\ v => tmp_tdata' = d
      BY <1>1, <2>2, <2>6 DEF SkidInv, Reg!TypeOK, Reg!SkidBehindOutput, Reg!Clock, Reg!TmpBuffer, Reg!OutReg,
                                 Reg!OutData, Reg!in_tready, Reg!tmp_tready
    <3>2. CASE v
      <4>1. Reg!Held' = <<out_tdata>> \o <<d>> /\ off = <<d>>
        BY <3>1, <3>2, <2>3 DEF off
      <4> QED
        BY <3>1, <3>2, <4>1, <2>1, <2>6 DEF off
    <3>3. CASE ~v
      <4>1. Reg!Held' = <<out_tdata>> /\ off = <<>>
        BY <3>1, <3>3, <2>3 DEF off
      <4> QED
        BY <3>1, <3>3, <4>1, <2>0, <2>1, <2>6 DEF off
    <3> QED
      BY <3>2, <3>3
  <2>7. CASE out_tvalid /\ tmp_tvalid /\ r
    <3>1. /\ Reg!Held = <<out_tdata>> \o <<tmp_tdata>>
          /\ ~tmp_tvalid' /\ out_tvalid' /\ out_tdata' = tmp_tdata
      BY <1>1, <2>2, <2>7 DEF SkidInv, Reg!TypeOK, Reg!SkidBehindOutput, Reg!Clock, Reg!TmpBuffer, Reg!OutReg,
                                 Reg!OutData, Reg!in_tready, Reg!tmp_tready
    <3> QED
      BY <3>1, <2>1, <2>3, <2>7 DEF off
  <2>8. CASE out_tvalid /\ tmp_tvalid /\ ~r
    <3>1. /\ Reg!Held = <<out_tdata>> \o <<tmp_tdata>> /\ out_tvalid' /\ tmp_tvalid'
          /\ out_tdata' = out_tdata /\ tmp_tdata' = tmp_tdata
      BY <1>1, <2>2, <2>8 DEF SkidInv, Reg!TypeOK, Reg!SkidBehindOutput, Reg!Clock, Reg!TmpBuffer, Reg!OutReg,
                                 Reg!OutData, Reg!in_tready, Reg!tmp_tready
    <3> QED
      BY <3>1, <2>1, <2>3, <2>8 DEF off
  <2> QED
    BY <2>4, <2>5, <2>6, <2>7, <2>8
<1>2. SkidInv /\ [Reg!Next]_(Reg!vars) =>
        [\A v, r \in BOOLEAN, d \in Data :
            Reg!Clock(v, d, r) => Reg!Held' = Reg!RegStep(Reg!Held, IF v THEN <<d>> ELSE <<>>, r)]_(Reg!vars)
  BY <1>1 DEF RegStep, RegReady, Reg!RegStep, Reg!RegReady
<1> QED
  BY <1>2, SkidSafe, PTL DEF Reg!Spec, Reg!StepsAsRegStep, SkidInv

(* The skid buffer implements a two-place FIFO.                              *)
THEOREM AxisRegImplementsQueue == Reg!Spec => Reg!ImplementsQueue
<1>1. Reg!Init => Reg!Queue!Init
  BY DEF Reg!Init, Reg!Queue!Init, Reg!Held
<1>2. ASSUME SkidInv, SkidInv', [Reg!Next]_(Reg!vars)
      PROVE  [Reg!Queue!Next]_(Reg!Queue!vars)
  <2>1. ASSUME NEW v \in BOOLEAN, NEW r \in BOOLEAN, NEW d \in Data, Reg!Clock(v, d, r)
        PROVE  Reg!Queue!Transfer
    <3>1. reg_out' \o Reg!Held' = Reg!Held \o reg_in' /\ Len(reg_out') <= Len(Reg!Held)
      BY <1>2, <2>1, ClockIsTransfer
    <3>2. Len(Reg!Held') <= 2
      BY <1>2 DEF SkidInv, Reg!TypeOK, Reg!Held
    <3>3. reg_in' \in Reg!Queue!Port /\ reg_out' \in Reg!Queue!Port
      BY <1>2 DEF SkidInv, Reg!TypeOK, Reg!Queue!Port
    <3> QED
      BY <3>1, <3>2, <3>3 DEF Reg!Queue!Transfer
  <2>2. ASSUME NEW v \in BOOLEAN, NEW r \in BOOLEAN, NEW d \in Data, Reg!Reset(v, d, r)
        PROVE  Reg!Queue!Flush
    BY <2>2 DEF Reg!Reset, Reg!Queue!Flush, Reg!Held
  <2>3. CASE UNCHANGED Reg!vars
    BY <2>3 DEF Reg!vars, Reg!Queue!vars, Reg!Held
  <2> QED
    BY <1>2, <2>1, <2>2, <2>3 DEF Reg!Next, Reg!Queue!Next
<1> QED
  BY <1>1, <1>2, SkidSafe, PTL DEF Reg!Spec, Reg!ImplementsQueue, Reg!Queue!Spec, SkidInv
=============================================================================
