--------------------------- MODULE FrontEndProofs ---------------------------
(***************************************************************************)
(* The front end.  FetchStream: the prefetcher between its neighbours, for  *)
(* every set of segments, every size of IP, every limit of its requests and *)
(* any delay of an in-order memory.  ICache: the instruction cache, for     *)
(* every number of lines, slots and words, is such a memory.                *)
(***************************************************************************)
EXTENDS FetchStream, ICache, QueueProofs

-----------------------------------------------------------------------------
(***************************************************************************)
(* The stream.  Between the consumer and the memory lie, oldest first, the  *)
(* words fetched (Offered), the requests whose answer is awaited (Kept) and *)
(* the next request (Here): At numbers their pointers.                      *)
(***************************************************************************)
Packet  == {[tag |-> <<p>>, word |-> word_of(p)] : p \in Pointer}
Offered == FifoWords(fifo_1)
At(i) == IF i <= Len(Offered) THEN Offered[i].tag[1]
         ELSE IF i <= Len(Offered) + Len(Kept) THEN Kept[i - Len(Offered)]
         ELSE Here

Queues ==
    /\ IsFifo(fifo_0, Pointer)
    /\ IsFifo(fifo_1, Packet) /\ fifo_1.res = <<>>
    /\ pending \in Seq(Words)

(* An answer is that of the oldest request, and older than the last edge; so *)
(* is whatever is at the output of fifo_0.                                   *)
Answering ==
    /\ rd # <<>> => pending # <<>> /\ rd = <<Head(pending)>> /\ Len(pending) > asked_last
    /\ fifo_0.res = <<>> => Len(Kept) <= asked_last

Accounted ==
    /\ mem_hs_cnt = Len(pending)
    /\ Len(pending) = skip_hs_cnt + Len(Kept)
    /\ \A i \in 1 .. Len(Kept) : pending[skip_hs_cnt + i] = word_of(Kept[i])

(* What is discarded is at most what two jumps leave behind: after a word of *)
(* the new stream has come, nothing older is left.                           *)
Limits ==
    /\ max_hs_cnt = Len(Offered) + Len(Kept)
    /\ max_hs_cnt <= LIMIT + 1
    /\ cmd_tvalid => max_hs_cnt <= LIMIT
    /\ Offered # <<>> => skip_hs_cnt = 0
    /\ stream_used => exec_used /\ skip_hs_cnt = 0
    /\ exec_used => skip_hs_cnt <= LIMIT + 1
    /\ skip_hs_cnt <= 2 * (LIMIT + 1)

Sequenced ==
    /\ At(1) = expect
    /\ \A i \in 1 .. Len(Offered) + Len(Kept) : At(i + 1) = next_pointer(At(i))

StreamInv == StreamTypeOK /\ Queues /\ Answering /\ Accounted /\ Limits /\ Sequenced

LEMMA InitStream == StreamInit => StreamInv
<1> SUFFICES ASSUME StreamInit PROVE StreamInv
  OBVIOUS
<1> USE DEF StreamInit, FetcherInit, InstructionMemory!Init
<1>1. Here \in Pointer /\ StreamTypeOK
  <2>1. cs_tdata \in CS /\ ip_tdata \in 0 .. IP_SIZE - 1
    BY SegmentAssumption, IpAssumption
  <2>2. Here \in Pointer
    BY <2>1 DEF Here, Pointer
  <2>3. cmd_tvalid \in BOOLEAN /\ stream_used \in BOOLEAN /\ exec_used \in BOOLEAN
    OBVIOUS
  <2>4. max_hs_cnt \in 0 .. 31 /\ mem_hs_cnt \in 0 .. 31 /\ skip_hs_cnt \in 0 .. 31 /\ asked_last \in 0 .. 1
    OBVIOUS
  <2>5. expect \in Pointer
    BY <2>2
  <2> QED
    BY <2>1, <2>2, <2>3, <2>4, <2>5, Zenon DEF StreamTypeOK
<1>2. IsFifo(fifo_0, Pointer) /\ IsFifo(fifo_1, Packet) /\ Kept = <<>> /\ Offered = <<>>
      /\ fifo_0.res = <<>> /\ fifo_1.res = <<>>
  BY EmptyIsFifo DEF Kept, Offered
<1>3. Len(Kept) = 0 /\ Len(Offered) = 0 /\ Len(pending) = 0 /\ pending \in Seq(Words)
  BY <1>2
<1>4. Queues /\ Answering /\ Accounted
  BY <1>2, <1>3 DEF Queues, Answering, Accounted
<1>5. Limits
  BY <1>2, <1>3, LimitAssumption DEF Limits
<1>6. Sequenced
  BY <1>3 DEF Sequenced, At
<1> QED
  BY <1>1, <1>4, <1>5, <1>6 DEF StreamInv

-----------------------------------------------------------------------------
(***************************************************************************)
(* One edge.                                                                *)
(***************************************************************************)
LEMMA PointerTypes ==
    ASSUME NEW p \in Pointer
    PROVE  next_pointer(p) \in Pointer /\ word_of(p) \in Words
  BY IpAssumption DEF Pointer, next_pointer, next_word_ip, Words

LEMMA Sizes ==
    ASSUME StreamInv
    PROVE  /\ Kept \in Seq(Pointer) /\ Offered \in Seq(Packet) /\ pending \in Seq(Words)
           /\ Len(Kept) \in Nat /\ Len(Offered) \in Nat /\ Len(pending) \in Nat
           /\ Len(Kept) + Len(Offered) <= 5
           /\ skip_hs_cnt \in Nat /\ skip_hs_cnt <= 10 /\ Len(pending) <= 15
           /\ Len(pending) <= 3 * (LIMIT + 1)
           /\ FifoReady(fifo_0, DEPTH_0) /\ FifoReady(fifo_1, DEPTH_1)
           /\ Here \in Pointer
<1>1. Kept \in Seq(Pointer) /\ Offered \in Seq(Packet) /\ pending \in Seq(Words)
  BY FifoType DEF StreamInv, Queues, Kept, Offered
<1>2. Len(Kept) \in Nat /\ Len(Offered) \in Nat /\ Len(pending) \in Nat
  BY <1>1
<1>3. /\ Len(Kept) + Len(Offered) <= 5 /\ skip_hs_cnt \in Nat
      /\ skip_hs_cnt <= 10 /\ Len(pending) <= 15 /\ Len(pending) <= 3 * (LIMIT + 1)
  BY <1>2, LimitAssumption DEF StreamInv, StreamTypeOK, Limits, Accounted
<1>4. /\ Len(fifo_0.q) \in Nat /\ Len(fifo_0.q) <= Len(Kept)
      /\ Len(fifo_1.q) \in Nat /\ Len(fifo_1.q) <= Len(Offered)
  BY FirstOut DEF StreamInv, Queues, Kept, Offered
<1>5. FifoReady(fifo_0, DEPTH_0) /\ FifoReady(fifo_1, DEPTH_1)
  <2> DEFINE n0 == Len(fifo_0.q)
             n1 == Len(fifo_1.q)
  <2>1. n0 \in Nat /\ n0 <= 5 /\ n1 \in Nat /\ n1 <= 5
    BY <1>2, <1>3, <1>4
  <2> HIDE DEF n0, n1
  <2>2. n0 # 16 - 1 /\ n1 # 32 - 1
    BY <2>1
  <2> QED
    BY <2>2 DEF FifoReady, DEPTH_0, DEPTH_1, n0, n1
<1>6. Here \in Pointer
  BY DEF StreamInv, StreamTypeOK, Here, Pointer
<1> QED
  BY <1>1, <1>2, <1>3, <1>5, <1>6

(* The answer that is kept finds its tag.                                    *)
LEMMA TagFound ==
    ASSUME StreamInv, kept(rd)
    PROVE  /\ Len(Kept) > 0 /\ Tag = <<Kept[1]>> /\ rd = <<word_of(Kept[1])>> /\ Kept[1] \in Pointer
           /\ fifo_0.res # <<>>
<1>1. rd # <<>> /\ skip_hs_cnt = 0
  BY DEF kept, answered
<1>2. pending # <<>> /\ rd = <<Head(pending)>> /\ Len(pending) > asked_last /\ Len(pending) = Len(Kept)
      /\ asked_last \in 0 .. 1
  BY <1>1, Sizes DEF StreamInv, Answering, Accounted, StreamTypeOK
<1>3. Len(Kept) > 0 /\ fifo_0.res # <<>>
  BY <1>2, Sizes DEF StreamInv, Answering
<1>4. Tag = <<Kept[1]>>
  BY <1>3, FirstOut DEF StreamInv, Queues, Kept, Tag, FifoOut
<1>5. Kept[1] \in Pointer
  BY <1>3, Sizes
<1>6. Head(pending) = word_of(Kept[1])
  <2>1. pending[skip_hs_cnt + 1] = word_of(Kept[1])
    BY <1>3, Sizes DEF StreamInv, Accounted
  <2>2. Head(pending) = pending[1]
    BY <1>2, Sizes
  <2> QED
    BY <1>1, <2>1, <2>2
<1> QED
  BY <1>2, <1>3, <1>4, <1>5, <1>6

(* Far from its limits a counter counts.                                     *)
LEMMA UpDown ==
    ASSUME NEW m \in Nat, m <= 15, NEW up \in BOOLEAN, NEW down \in BOOLEAN, down => m > 0,
           NEW size \in {32, 64}
    PROVE  up_down(m, up, down, size) = (m - Num(down)) + Num(up)
<1>1. up_down(m, up, down, 32) = (m - Num(down)) + Num(up)
  BY DEF up_down, Num
<1>2. up_down(m, up, down, 64) = (m - Num(down)) + Num(up)
  BY DEF up_down, Num
<1> QED
  BY <1>1, <1>2

(* The memory's queue and the counters of what it holds, jump or not.        *)
LEMMA MemoryStep ==
    ASSUME StreamInv, NEW kind, NEW req_rdy \in BOOLEAN, NEW data_rdy \in BOOLEAN, NEW jmp,
           StreamEdge(kind, req_rdy, jmp, data_rdy)
    PROVE  LET a == Num(asked(req_rdy))
               b == Num(rd # <<>>)
               n == Len(pending) - b
           IN  /\ pending' \in Seq(Words) /\ n \in Nat /\ Len(pending') = n + a
               /\ \A i \in 1 .. n : pending'[i] = pending[i + b]
               /\ asked(req_rdy) => pending'[n + 1] = word_of(Here)
               /\ asked_last' = a
               /\ rd' # <<>> => pending' # <<>> /\ rd' = <<Head(pending')>> /\ Len(pending') > asked_last'
               /\ mem_hs_cnt' = Len(pending') /\ in_flight_after(req_rdy, rd) = Len(pending')
<1> DEFINE ask == IF asked(req_rdy) THEN Request ELSE <<>>
           a   == Num(asked(req_rdy))
           b   == Num(rd # <<>>)
           n   == Len(pending) - b
<1>1. InstructionMemory!Step(ask)
  BY DEF StreamEdge
<1>2. pending' = Cat(Popped(pending, b), ask)
  <2> DEFINE u == IF rd # <<>> THEN Tail(pending) ELSE pending
  <2>1. u = Popped(pending, b)
    BY DEF Popped, Num
  <2>2. pending' = u \o ask
    BY <1>1 DEF InstructionMemory!Step
  <2> HIDE DEF u, ask, b
  <2> QED
    BY <2>1, <2>2 DEF Cat
<1>3. asked_last' = Len(ask) /\ rd' \in {<<>>} \cup (IF Len(pending') > asked_last' THEN {<<Head(pending')>>} ELSE {})
  BY <1>1 DEF InstructionMemory!Step
<1>4. rd # <<>> => pending # <<>>
  BY DEF StreamInv, Answering
<1>5. asked(req_rdy) => ask = <<word_of(Here)>>
  BY DEF asked, Request
<1>6. AtMostOneOf(Words, ask) /\ (ask # <<>> <=> asked(req_rdy)) /\ Len(ask) = a
  <2>1. CASE asked(req_rdy)
    <3>1. word_of(Here) \in Words
      BY Sizes, PointerTypes
    <3> QED
      BY <1>5, <2>1, <3>1, Single, OneIsSeq DEF Num
  <2>2. CASE ~asked(req_rdy)
    BY <2>2 DEF AtMostOneOf, Num
  <2> QED
    BY <2>1, <2>2
<1>7. b \in {0, 1} /\ (b = 1 => pending # <<>>) /\ a \in {0, 1}
  BY <1>4 DEF Num
<1> HIDE DEF ask, b
<1>8. /\ pending' \in Seq(Words) /\ n \in Nat /\ Len(pending') = n + a
      /\ \A i \in 1 .. n : pending'[i] = pending[i + b]
      /\ ask # <<>> => pending'[n + 1] = ask[1]
  <2>1. pending \in Seq(Words)
    BY Sizes
  <2>2. AtMostOneOf(Words, ask) /\ Len(ask) = a
    BY <1>6
  <2> HIDE DEF a
  <2>3. MovedOn(Words, pending, b, ask, pending')
    BY <1>2, <1>7, <2>1, <2>2, Moved
  <2> QED
    BY <2>2, <2>3 DEF MovedOn
<1>9. asked(req_rdy) => pending'[n + 1] = word_of(Here)
  <2>1. ASSUME asked(req_rdy) PROVE pending'[n + 1] = word_of(Here)
    <3>1. ask[1] = word_of(Here) /\ ask # <<>>
      BY <1>5, <1>6, <2>1
    <3> QED
      BY <1>8, <3>1
  <2> QED
    BY <2>1
<1>10. rd' # <<>> => pending' # <<>> /\ rd' = <<Head(pending')>> /\ Len(pending') > asked_last'
  <2>1. asked_last' \in Nat
    BY <1>3, <1>6, <1>7
  <2> QED
    BY <1>3, <1>8, <2>1
<1>11. mem_hs_cnt' = Len(pending') /\ in_flight_after(req_rdy, rd) = Len(pending')
  <2>1. mem_hs_cnt' = up_down(mem_hs_cnt, asked(req_rdy), rd # <<>>, 32)
    BY DEF StreamEdge, FetcherClock, Counters, answered
  <2>2. in_flight_after(req_rdy, rd) = up_down(mem_hs_cnt, asked(req_rdy), rd # <<>>, 64)
    BY DEF in_flight_after, answered
  <2>3. mem_hs_cnt = Len(pending) /\ Len(pending) \in Nat /\ Len(pending) <= 15
    BY Sizes DEF StreamInv, Accounted
  <2>4. rd # <<>> => Len(pending) > 0
    BY <1>4, Sizes
  <2>5. asked(req_rdy) \in BOOLEAN /\ (rd # <<>>) \in BOOLEAN
    BY DEF asked, StreamInv, StreamTypeOK
  <2> DEFINE up == asked(req_rdy)
             down == rd # <<>>
  <2> HIDE DEF up, down
  <2>6. /\ up_down(Len(pending), up, down, 32) = (Len(pending) - Num(down)) + Num(up)
        /\ up_down(Len(pending), up, down, 64) = (Len(pending) - Num(down)) + Num(up)
    BY <2>3, <2>4, <2>5, UpDown DEF up, down
  <2> QED
    BY <1>8, <2>1, <2>2, <2>3, <2>6 DEF up, down, b
<1> QED
  BY <1>3, <1>6, <1>8, <1>9, <1>10, <1>11 DEF b

(* The types of the registers, and when a request may be offered.            *)
LEMMA RegisterStep ==
    ASSUME StreamInv, NEW kind, NEW req_rdy \in BOOLEAN, NEW data_rdy \in BOOLEAN,
           NEW jmp, jmp = <<>> \/ \E t \in Targets : jmp = <<t>>,
           StreamEdge(kind, req_rdy, jmp, data_rdy)
    PROVE  /\ Here' \in Pointer /\ cs_tdata' \in CS /\ ip_tdata' \in 0 .. IP_SIZE - 1
           /\ cmd_tvalid' \in BOOLEAN /\ stream_used' \in BOOLEAN /\ exec_used' \in BOOLEAN
           /\ expect' \in Pointer
           /\ cmd_tvalid' => max_hs_cnt < LIMIT \/ (cmd_tvalid /\ ~asked(req_rdy))
           /\ jmp # <<>> => Here' = jmp[1] /\ expect' = Here'
           /\ jmp = <<>> => Here' = IF asked(req_rdy) THEN next_pointer(Here) ELSE Here
<1>1. cmd_tvalid \in BOOLEAN /\ stream_used \in BOOLEAN /\ exec_used \in BOOLEAN /\ expect \in Pointer
  BY DEF StreamInv, StreamTypeOK
<1>2. Here \in Pointer /\ next_pointer(Here) \in Pointer /\ next_pointer(expect) \in Pointer
  BY <1>1, Sizes, PointerTypes
<1>3. jmp # <<>> => jmp[1] \in Pointer
  BY TargetAssumption
<1>4. PointerNext(req_rdy, jmp) /\ CmdNext(req_rdy) /\ Consumer(kind, jmp, data_rdy)
  BY DEF StreamEdge, FetcherClock
<1>5. Here' = [cs |-> cs_tdata', ip |-> ip_tdata']
  BY DEF Here
<1>6. jmp # <<>> => Here' = jmp[1]
  BY <1>3, <1>4, <1>5 DEF PointerNext, Pointer
<1>7. jmp = <<>> => Here' = IF asked(req_rdy) THEN next_pointer(Here) ELSE Here
  BY <1>4, <1>5 DEF PointerNext, next_pointer, Here
<1>8. Here' \in Pointer
  BY <1>2, <1>3, <1>6, <1>7
<1>9. cs_tdata' \in CS /\ ip_tdata' \in 0 .. IP_SIZE - 1
  BY <1>5, <1>8 DEF Pointer
<1>10. /\ cmd_tvalid' \in BOOLEAN
       /\ cmd_tvalid' => max_hs_cnt < LIMIT \/ (cmd_tvalid /\ ~asked(req_rdy))
  BY <1>1, <1>4 DEF CmdNext, below_limit, asked
<1>11. stream_used' \in BOOLEAN /\ exec_used' \in BOOLEAN
  BY <1>1, <1>4 DEF Consumer
<1>12. expect' \in Pointer /\ (jmp # <<>> => expect' = jmp[1])
  BY <1>1, <1>2, <1>3, <1>4 DEF Consumer
<1> QED
  BY <1>6, <1>7, <1>8, <1>9, <1>10, <1>11, <1>12

(* Without a jump the words move on through both FIFOs.                      *)
StreamAsks(req_rdy) == IF asked(req_rdy) THEN <<Here>> ELSE <<>>

LEMMA FlowStep ==
    ASSUME StreamInv, NEW kind, NEW req_rdy \in BOOLEAN, NEW data_rdy \in BOOLEAN,
           StreamEdge(kind, req_rdy, <<>>, data_rdy)
    PROVE  /\ IsFifo(fifo_0', Pointer) /\ IsFifo(fifo_1', Packet) /\ fifo_1'.res = <<>>
           /\ fifo_0'.res = <<>> => Kept' = StreamAsks(req_rdy)
           /\ Num(kept(rd)) \in {0, 1} /\ Num(consumed(data_rdy)) \in {0, 1}
           /\ MovedOn(Pointer, Kept, Num(kept(rd)), StreamAsks(req_rdy), Kept')
           /\ MovedOn(Packet, Offered, Num(consumed(data_rdy)), word_in(rd), Offered')
           /\ Len(StreamAsks(req_rdy)) = Num(asked(req_rdy))
           /\ asked(req_rdy) => StreamAsks(req_rdy) # <<>> /\ StreamAsks(req_rdy)[1] = Here
           /\ Len(word_in(rd)) = Num(kept(rd))
           /\ kept(rd) => word_in(rd) # <<>> /\ word_in(rd)[1].tag[1] = Kept[1]
           /\ consumed(data_rdy) => Offered # <<>>
<1> DEFINE o0 == StreamAsks(req_rdy)
           o1 == word_in(rd)
           k  == kept(rd)
           c  == Num(consumed(data_rdy))
<1>1. AtMostOneOf(Pointer, o0) /\ Len(o0) = Num(asked(req_rdy))
      /\ (asked(req_rdy) => o0 # <<>> /\ o0[1] = Here)
  <2>1. CASE asked(req_rdy)
    BY <2>1, Sizes, Single DEF StreamAsks, Num
  <2>2. CASE ~asked(req_rdy)
    BY <2>2 DEF StreamAsks, Num, AtMostOneOf
  <2> QED
    BY <2>1, <2>2
<1>2. AtMostOneOf(Packet, o1) /\ Len(o1) = Num(k) /\ (k => o1 # <<>> /\ o1[1].tag[1] = Kept[1])
  <2>1. CASE kept(rd)
    <3> DEFINE x == [tag |-> <<Kept[1]>>, word |-> word_of(Kept[1])]
    <3>1. x \in Packet
      BY <2>1, TagFound DEF Packet
    <3>2. o1 = <<x>>
      BY <2>1, TagFound DEF word_in
    <3>3. x.tag[1] = Kept[1]
      OBVIOUS
    <3> HIDE DEF x
    <3>4. AtMostOneOf(Packet, <<x>>) /\ <<x>> # <<>> /\ Len(<<x>>) = 1 /\ <<x>>[1] = x
      BY <3>1, Single
    <3> QED
      BY <2>1, <3>2, <3>3, <3>4 DEF Num
  <2>2. CASE ~kept(rd)
    BY <2>2 DEF word_in, Num, AtMostOneOf
  <2> QED
    BY <2>1, <2>2
<1>3. /\ k \in BOOLEAN /\ (k => fifo_0.res # <<>> /\ Kept # <<>>)
  BY TagFound, Sizes DEF kept
<1>4. /\ c \in {0, 1} /\ (c = 1 <=> consumed(data_rdy)) /\ (c = 1 => Offered # <<>>)
      /\ c = Num(data_rdy /\ fifo_1.bram # <<>>)
  <2>1. DataOut = fifo_1.bram
    BY DEF DataOut, FifoOut
  <2>2. consumed(data_rdy) <=> data_rdy /\ fifo_1.bram # <<>>
    BY <2>1 DEF consumed
  <2>3. fifo_1.bram # <<>> => Offered # <<>>
    BY FirstOut DEF StreamInv, Queues, Offered
  <2> QED
    BY <2>2, <2>3 DEF Num
<1>5. /\ fifo_0' = FifoStep(fifo_0, DEPTH_0, TRUE, o0, k)
      /\ fifo_1' = FifoStep(fifo_1, DEPTH_1, FALSE, o1, data_rdy)
  BY DEF StreamEdge, FetcherClock, Fifos, flush, StreamAsks
<1>6. /\ IsFifo(fifo_0, Pointer) /\ IsFifo(fifo_1, Packet) /\ fifo_1.res = <<>>
      /\ FifoReady(fifo_0, DEPTH_0) /\ FifoReady(fifo_1, DEPTH_1)
      /\ Kept \in Seq(Pointer) /\ Offered \in Seq(Packet)
  BY Sizes DEF StreamInv, Queues
<1> HIDE DEF o0, o1, k
<1>7. /\ QueueStep(Pointer, fifo_0, fifo_0', Num(k), o0)
      /\ fifo_0'.res = <<>> => FifoWords(fifo_0') = o0
  <2>1. k => fifo_0.res # <<>>
    BY <1>3
  <2>2. RegisteredQueueStep(Pointer, fifo_0, fifo_0', Num(k), o0)
    BY <1>1, <1>3, <1>5, <1>6, <2>1, RegisteredStep
  <2> QED
    BY <2>2 DEF RegisteredQueueStep
<1>8. /\ QueueStep(Packet, fifo_1, fifo_1', Num(data_rdy /\ fifo_1.bram # <<>>), o1)
      /\ fifo_1'.res = <<>>
  BY <1>2, <1>5, <1>6, UnregisteredStep
<1>9. Kept' = Cat(Popped(Kept, Num(k)), o0) /\ Offered' = Cat(Popped(Offered, c), o1)
  <2> HIDE DEF c
  <2> QED
    BY <1>4, <1>7, <1>8 DEF Kept, Offered, QueueStep
<1> DEFINE n == Num(k)
<1>10. n \in {0, 1} /\ (n = 1 => Kept # <<>>)
  BY <1>3 DEF Num
<1> HIDE DEF c, n
<1>11. MovedOn(Pointer, Kept, n, o0, Kept')
  BY <1>1, <1>6, <1>9, <1>10, Moved DEF n
<1>12. MovedOn(Packet, Offered, c, o1, Offered')
  BY <1>2, <1>4, <1>6, <1>9, Moved
<1> QED
  BY <1>1, <1>2, <1>4, <1>7, <1>8, <1>10, <1>11, <1>12 DEF n, c, k, o0, o1, Kept, QueueStep

(* A jump leaves nothing but answers to discard.                             *)
LEMMA JumpStep ==
    ASSUME StreamInv, NEW kind \in JumpKinds, NEW req_rdy \in BOOLEAN, NEW data_rdy \in BOOLEAN,
           NEW jmp \in jumps(kind), jmp # <<>>,
           StreamEdge(kind, req_rdy, jmp, data_rdy)
    PROVE  StreamInv'
<1>1. /\ \E t \in Targets : jmp = <<t>>
      /\ (kind = "predicted" /\ stream_used) \/ (kind = "executed" /\ exec_used)
  BY DEF JumpKinds, jumps
<1> DEFINE a == Num(asked(req_rdy))
           b == Num(rd # <<>>)
           n == Len(pending) - b
<1>2. /\ pending' \in Seq(Words) /\ n \in Nat /\ Len(pending') = n + a
      /\ asked_last' = a
      /\ rd' # <<>> => pending' # <<>> /\ rd' = <<Head(pending')>> /\ Len(pending') > asked_last'
      /\ mem_hs_cnt' = Len(pending') /\ in_flight_after(req_rdy, rd) = Len(pending')
  BY MemoryStep
<1>3. /\ Here' \in Pointer /\ cs_tdata' \in CS /\ ip_tdata' \in 0 .. IP_SIZE - 1
      /\ cmd_tvalid' \in BOOLEAN /\ stream_used' \in BOOLEAN /\ exec_used' \in BOOLEAN
      /\ expect' \in Pointer /\ expect' = Here'
  BY <1>1, RegisterStep
<1>4. fifo_0' = EmptyFifo /\ fifo_1' = EmptyFifo
  BY DEF StreamEdge, FetcherClock, Fifos, flush
<1>5. /\ IsFifo(fifo_0', Pointer) /\ IsFifo(fifo_1', Packet) /\ fifo_1'.res = <<>>
      /\ Kept' = <<>> /\ Offered' = <<>> /\ Len(Kept') = 0 /\ Len(Offered') = 0
  BY <1>4, EmptyIsFifo DEF Kept, Offered
<1>6. max_hs_cnt' = 0 /\ skip_hs_cnt' = Len(pending')
  BY <1>2 DEF StreamEdge, FetcherClock, Counters
<1>7. a \in {0, 1} /\ b \in {0, 1} /\ (a = 1 => cmd_tvalid)
  BY DEF Num, asked
<1>8. Len(pending') \in Nat /\ Len(pending') <= skip_hs_cnt + (LIMIT + 1)
  <2>1. Len(pending) = skip_hs_cnt + Len(Kept) /\ max_hs_cnt = Len(Offered) + Len(Kept)
        /\ max_hs_cnt <= LIMIT + 1 /\ (cmd_tvalid => max_hs_cnt <= LIMIT)
    BY DEF StreamInv, Accounted, Limits
  <2>2. /\ Len(Kept) \in Nat /\ Len(Offered) \in Nat /\ Len(pending) \in Nat /\ skip_hs_cnt \in Nat
        /\ LIMIT \in Nat /\ Len(pending') = (Len(pending) - b) + a /\ Len(pending) - b \in Nat
    BY <1>2, Sizes, LimitAssumption
  <2> HIDE DEF a, b
  <2>3. Len(Kept) + a <= LIMIT + 1
    BY <1>7, <2>1, <2>2
  <2> QED
    BY <1>7, <2>1, <2>2, <2>3
<1>9. /\ stream_used' = FALSE
      /\ exec_used' => kind = "predicted"
  BY <1>1 DEF StreamEdge, Consumer
<1>10. /\ exec_used' => skip_hs_cnt' <= LIMIT + 1
       /\ skip_hs_cnt' <= 2 * (LIMIT + 1)
  <2>1. /\ stream_used => exec_used /\ skip_hs_cnt = 0
        /\ exec_used => skip_hs_cnt <= LIMIT + 1
    BY DEF StreamInv, Limits
  <2> QED
    BY <1>1, <1>6, <1>8, <1>9, <2>1, Sizes, LimitAssumption
<1>11. StreamTypeOK'
  <2>1. Len(pending') <= 10
    BY <1>6, <1>8, <1>10, LimitAssumption
  <2>2. Len(pending') \in 0 .. 31
    <3> DEFINE P1 == Len(pending')
    <3>1. P1 \in Nat /\ P1 <= 10
      BY <1>8, <2>1
    <3> HIDE DEF P1
    <3>2. P1 \in 0 .. 31
      BY <3>1
    <3> QED
      BY <3>2 DEF P1
  <2>3. max_hs_cnt' \in 0 .. 31 /\ mem_hs_cnt' \in 0 .. 31 /\ skip_hs_cnt' \in 0 .. 31
    BY <1>2, <1>6, <2>2
  <2>4. asked_last' \in 0 .. 1
    BY <1>2, <1>7
  <2> QED
    BY <1>3, <2>3, <2>4 DEF StreamTypeOK
<1> HIDE DEF a, b
<1>12. Queues'
  BY <1>2, <1>5 DEF Queues
<1>13. Answering'
  BY <1>2, <1>5, <1>7 DEF Answering
<1>14. Accounted'
  BY <1>2, <1>5, <1>6, <1>8 DEF Accounted
<1>15. Limits'
  BY <1>5, <1>6, <1>9, <1>10, LimitAssumption DEF Limits
<1>16. Sequenced'
  BY <1>3, <1>5 DEF Sequenced, At
<1> QED
  BY <1>11, <1>12, <1>13, <1>14, <1>15, <1>16 DEF StreamInv

(* Without one every word keeps its place behind the one before it.          *)
LEMMA StreamStep ==
    ASSUME StreamInv, NEW kind \in JumpKinds, NEW req_rdy \in BOOLEAN, NEW data_rdy \in BOOLEAN,
           <<>> \in jumps(kind),
           StreamEdge(kind, req_rdy, <<>>, data_rdy)
    PROVE  StreamInv'
<1> DEFINE a == Num(asked(req_rdy))
           b == Num(rd # <<>>)
           k == Num(kept(rd))
           c == Num(consumed(data_rdy))
<1>1. kind = "none"
  BY DEF JumpKinds, jumps
<1>2. /\ pending' \in Seq(Words) /\ Len(pending) - b \in Nat /\ Len(pending') = (Len(pending) - b) + a
      /\ \A i \in 1 .. Len(pending) - b : pending'[i] = pending[i + b]
      /\ asked(req_rdy) => pending'[(Len(pending) - b) + 1] = word_of(Here)
      /\ asked_last' = a
      /\ rd' # <<>> => pending' # <<>> /\ rd' = <<Head(pending')>> /\ Len(pending') > asked_last'
      /\ mem_hs_cnt' = Len(pending')
  BY MemoryStep
<1>3. /\ Here' \in Pointer /\ cs_tdata' \in CS /\ ip_tdata' \in 0 .. IP_SIZE - 1
      /\ cmd_tvalid' \in BOOLEAN /\ stream_used' \in BOOLEAN /\ exec_used' \in BOOLEAN
      /\ expect' \in Pointer
      /\ cmd_tvalid' => max_hs_cnt < LIMIT \/ (cmd_tvalid /\ ~asked(req_rdy))
      /\ Here' = IF asked(req_rdy) THEN next_pointer(Here) ELSE Here
  BY RegisterStep
<1>4. /\ IsFifo(fifo_0', Pointer) /\ IsFifo(fifo_1', Packet) /\ fifo_1'.res = <<>>
      /\ fifo_0'.res = <<>> => Kept' = StreamAsks(req_rdy)
      /\ MovedOn(Pointer, Kept, k, StreamAsks(req_rdy), Kept')
      /\ MovedOn(Packet, Offered, c, word_in(rd), Offered')
      /\ Len(StreamAsks(req_rdy)) = a
      /\ asked(req_rdy) => StreamAsks(req_rdy) # <<>> /\ StreamAsks(req_rdy)[1] = Here
      /\ Len(word_in(rd)) = k
      /\ kept(rd) => word_in(rd) # <<>> /\ word_in(rd)[1].tag[1] = Kept[1]
      /\ consumed(data_rdy) => Offered # <<>>
  BY FlowStep
<1>5. /\ a \in {0, 1} /\ b \in {0, 1} /\ k \in {0, 1} /\ c \in {0, 1}
      /\ (asked(req_rdy) <=> a = 1) /\ (rd # <<>> <=> b = 1) /\ (kept(rd) <=> k = 1)
      /\ (consumed(data_rdy) <=> c = 1)
      /\ (k = 1 <=> b = 1 /\ skip_hs_cnt = 0)
  BY DEF Num, kept, answered
<1>6. /\ Kept' \in Seq(Pointer) /\ Len(Kept) - k \in Nat /\ Len(Kept') = (Len(Kept) - k) + a
      /\ \A i \in 1 .. Len(Kept) - k : Kept'[i] = Kept[i + k]
      /\ a = 1 => Kept'[(Len(Kept) - k) + 1] = Here
  BY <1>4, <1>5 DEF MovedOn
<1>7. /\ Offered' \in Seq(Packet) /\ Len(Offered) - c \in Nat /\ Len(Offered') = (Len(Offered) - c) + k
      /\ \A i \in 1 .. Len(Offered) - c : Offered'[i] = Offered[i + c]
      /\ k = 1 => Offered'[(Len(Offered) - c) + 1].tag[1] = Kept[1]
  BY <1>4, <1>5 DEF MovedOn
<1>8. /\ skip_hs_cnt' = skip_hs_cnt - (b - k) /\ skip_hs_cnt' \in Nat
      /\ (b = 1 /\ k = 0 => skip_hs_cnt > 0)
  <2>1. skip_hs_cnt' = IF answered(rd) /\ skip_hs_cnt # 0 THEN skip_hs_cnt - 1 ELSE skip_hs_cnt
    BY DEF StreamEdge, FetcherClock, Counters
  <2>2. answered(rd) <=> b = 1
    BY <1>5 DEF answered
  <2> HIDE DEF b, k
  <2> QED
    BY <1>5, <2>1, <2>2, Sizes
<1>9. max_hs_cnt' = (max_hs_cnt - c) + a
  <2> DEFINE up == asked(req_rdy)
             down == consumed(data_rdy)
  <2>1. max_hs_cnt' = up_down(max_hs_cnt, up, down, 32)
    BY DEF StreamEdge, FetcherClock, Counters
  <2>2. max_hs_cnt \in Nat /\ max_hs_cnt <= 15 /\ (down => max_hs_cnt > 0)
    BY <1>4, Sizes DEF StreamInv, Limits
  <2>3. up \in BOOLEAN /\ down \in BOOLEAN
    BY DEF asked, consumed, StreamInv, StreamTypeOK
  <2> HIDE DEF up, down
  <2>4. up_down(max_hs_cnt, up, down, 32) = (max_hs_cnt - Num(down)) + Num(up)
    BY <2>2, <2>3, UpDown
  <2> QED
    BY <2>1, <2>4 DEF up, down
<1>10. /\ stream_used' = (stream_used \/ consumed(data_rdy))
       /\ exec_used' = (exec_used \/ consumed(data_rdy))
       /\ expect' = IF consumed(data_rdy) THEN next_pointer(expect) ELSE expect
  BY <1>1 DEF StreamEdge, Consumer
<1> HIDE DEF a, b, k, c
<1>11. /\ max_hs_cnt = Len(Offered) + Len(Kept) /\ max_hs_cnt <= LIMIT + 1
       /\ cmd_tvalid => max_hs_cnt <= LIMIT
       /\ Offered # <<>> => skip_hs_cnt = 0
       /\ stream_used => exec_used /\ skip_hs_cnt = 0
       /\ exec_used => skip_hs_cnt <= LIMIT + 1
       /\ skip_hs_cnt <= 2 * (LIMIT + 1)
       /\ mem_hs_cnt = Len(pending) /\ Len(pending) = skip_hs_cnt + Len(Kept)
  BY DEF StreamInv, Limits, Accounted
<1>12. a = 1 => cmd_tvalid
  BY <1>5 DEF asked
<1> DEFINE K  == Len(Kept)
           O  == Len(Offered)
           P  == Len(pending)
           K1 == Len(Kept')
           O1 == Len(Offered')
           P1 == Len(pending')
           s0 == skip_hs_cnt
           s1 == skip_hs_cnt'
<1>len. /\ K \in Nat /\ O \in Nat /\ P \in Nat /\ s0 \in Nat /\ s1 \in Nat /\ LIMIT \in 1 .. 4
        /\ K - k \in Nat /\ O - c \in Nat /\ P - b \in Nat
        /\ K1 = (K - k) + a /\ O1 = (O - c) + k /\ P1 = (P - b) + a
        /\ s1 = s0 - (b - k) /\ P = s0 + K /\ P <= 15
        /\ a \in {0, 1} /\ b \in {0, 1} /\ k \in {0, 1} /\ c \in {0, 1}
  BY <1>2, <1>5, <1>6, <1>7, <1>8, <1>11, Sizes, LimitAssumption
<1> HIDE DEF K, O, P, K1, O1, P1, s0, s1
<1>13. Limits'
  <2>max. /\ max_hs_cnt = O + K /\ max_hs_cnt' = (max_hs_cnt - c) + a
          /\ max_hs_cnt <= LIMIT + 1 /\ (cmd_tvalid => max_hs_cnt <= LIMIT)
          /\ (a = 1 => cmd_tvalid)
    BY <1>9, <1>11, <1>12 DEF O, K
  <2>1. max_hs_cnt' = Len(Offered') + Len(Kept')
    <3>1. max_hs_cnt' = O1 + K1
      BY <1>len, <2>max
    <3> QED
      BY <3>1 DEF O1, K1
  <2>2. max_hs_cnt' <= LIMIT + 1
    BY <1>len, <2>max
  <2>3. cmd_tvalid' => max_hs_cnt' <= LIMIT
    <3>1. cmd_tvalid' => max_hs_cnt < LIMIT \/ (cmd_tvalid /\ a = 0)
      BY <1>3, <1>5
    <3> QED
      BY <1>len, <2>max, <3>1
  <2>4. skip_hs_cnt' <= skip_hs_cnt
    <3>1. s1 <= s0
      BY <1>5, <1>len
    <3> QED
      BY <3>1 DEF s0, s1
  <2>5. skip_hs_cnt = 0 => skip_hs_cnt' = 0
    BY <1>5, <1>8
  <2>6. Offered' # <<>> => skip_hs_cnt' = 0
    <3>1. CASE Offered # <<>>
      BY <1>11, <2>5, <3>1
    <3>2. CASE Offered = <<>>
      <4>1. Offered' # <<>> => k = 1
        BY <1>5, <1>7, <3>2
      <4> QED
        BY <1>5, <2>5, <4>1
    <3> QED
      BY <3>1, <3>2
  <2>7. consumed(data_rdy) => skip_hs_cnt = 0
    BY <1>4, <1>11
  <2>8. stream_used' => exec_used' /\ skip_hs_cnt' = 0
    BY <1>10, <1>11, <2>5, <2>7
  <2>9. exec_used' => skip_hs_cnt' <= LIMIT + 1
    <3>1. CASE exec_used
      <4>1. skip_hs_cnt <= LIMIT + 1
        BY <1>11, <3>1
      <4> QED
        BY <1>8, <2>4, <4>1, Sizes, LimitAssumption
    <3>2. CASE ~exec_used
      <4>1. exec_used' => skip_hs_cnt' = 0
        BY <1>10, <2>5, <2>7, <3>2
      <4> QED
        BY <4>1, LimitAssumption
    <3> QED
      BY <3>1, <3>2
  <2>10. skip_hs_cnt' <= 2 * (LIMIT + 1)
    BY <1>8, <1>11, <2>4, Sizes, LimitAssumption
  <2> QED
    BY <2>1, <2>2, <2>3, <2>6, <2>8, <2>9, <2>10 DEF Limits
<1>14. Accounted'
  <2>1. Len(pending') = skip_hs_cnt' + Len(Kept')
    <3>1. P1 = s1 + K1
      BY <1>len
    <3> QED
      BY <3>1 DEF P1, s1, K1
  <2>2. ASSUME NEW i \in 1 .. Len(Kept') PROVE pending'[skip_hs_cnt' + i] = word_of(Kept'[i])
    <3>1. CASE i <= Len(Kept) - k
      <4>1. i \in 1 .. Len(Kept) - k /\ i + k \in 1 .. Len(Kept)
        BY <1>5, <1>6, <3>1, Sizes
      <4>2. pending[skip_hs_cnt + (i + k)] = word_of(Kept[i + k])
        BY <4>1 DEF StreamInv, Accounted
      <4>3. skip_hs_cnt' + i \in 1 .. Len(pending) - b /\ (skip_hs_cnt' + i) + b = skip_hs_cnt + (i + k)
        <5>1. i \in 1 .. K - k
          BY <4>1 DEF K
        <5>2. s1 + i \in 1 .. P - b /\ (s1 + i) + b = s0 + (i + k)
          BY <1>len, <5>1
        <5> QED
          BY <5>2 DEF s0, s1, P
      <4>4. pending'[skip_hs_cnt' + i] = pending[(skip_hs_cnt' + i) + b]
        BY <1>2, <4>3
      <4>5. Kept'[i] = Kept[i + k]
        BY <1>6, <4>1
      <4> QED
        BY <4>2, <4>3, <4>4, <4>5
    <3>2. CASE i > Len(Kept) - k
      <4>1. a = 1 /\ i = (Len(Kept) - k) + 1
        BY <1>5, <1>6, <3>2, Sizes
      <4>2. skip_hs_cnt' + i = (Len(pending) - b) + 1
        <5>1. i = (K - k) + 1
          BY <4>1 DEF K
        <5>2. s1 + i = (P - b) + 1
          BY <1>len, <5>1
        <5> QED
          BY <5>2 DEF s1, P
      <4>3. pending'[(Len(pending) - b) + 1] = word_of(Here)
        BY <1>2, <1>5, <4>1
      <4>4. Kept'[i] = Here
        BY <1>6, <4>1
      <4> QED
        BY <4>2, <4>3, <4>4
    <3> QED
      BY <1>5, <1>6, <3>1, <3>2, Sizes
  <2> QED
    BY <1>2, <2>1, <2>2 DEF Accounted
<1>15. StreamTypeOK'
  <2>1. max_hs_cnt' \in 0 .. 31 /\ skip_hs_cnt' \in 0 .. 31 /\ mem_hs_cnt' \in 0 .. 31
    <3>1. O1 + K1 \in 0 .. 31 /\ s1 \in 0 .. 31 /\ P1 \in 0 .. 31
      <4>1. O + K <= 5
        BY Sizes DEF O, K
      <4> QED
        BY <1>len, <4>1
    <3>2. max_hs_cnt' = O1 + K1 /\ skip_hs_cnt' = s1 /\ mem_hs_cnt' = P1
      BY <1>2, <1>13 DEF Limits, O1, K1, s1, P1
    <3> QED
      BY <3>1, <3>2
  <2>2. asked_last' \in 0 .. 1
    BY <1>2, <1>5
  <2> QED
    BY <1>3, <2>1, <2>2 DEF StreamTypeOK
<1>16. Queues'
  BY <1>2, <1>4 DEF Queues
<1>17. Answering'
  <2>1. fifo_0'.res = <<>> => Len(Kept') <= asked_last'
    BY <1>2, <1>4, <1>5
  <2> QED
    BY <1>2, <2>1 DEF Answering
<1>18. Sequenced'
  <2> DEFINE m == O + K
             At2(i) == IF i <= O1 THEN Offered'[i].tag[1]
                       ELSE IF i <= O1 + K1 THEN Kept'[i - O1]
                       ELSE Here'
  <2>1. m \in Nat /\ O1 + K1 = (m - c) + a /\ m - c \in Nat
    BY <1>len
  <2>2. ASSUME NEW i \in 1 .. (m - c) + 1 PROVE At2(i) = At(i + c)
    <3>1. /\ i \in Nat /\ i >= 1
          /\ i <= O - c \/ (k = 1 /\ i = (O - c) + 1) \/ (i > O1 /\ i <= m - c) \/ i = (m - c) + 1
      BY <1>len
    <3>2. CASE i <= O - c
      <4>1. i \in 1 .. O - c /\ i <= O1 /\ i + c <= O
        BY <1>len, <3>1, <3>2
      <4>2. At2(i) = Offered'[i].tag[1] /\ At(i + c) = Offered[i + c].tag[1]
        BY <4>1 DEF At, O
      <4>3. Offered'[i] = Offered[i + c]
        BY <1>7, <4>1 DEF O
      <4> QED
        BY <4>2, <4>3
    <3>3. CASE k = 1 /\ i = (O - c) + 1
      <4>1. i <= O1 /\ ~(i + c <= O) /\ i + c <= O + K /\ (i + c) - O = 1
        BY <1>len, <3>3
      <4>2. At2(i) = Offered'[i].tag[1] /\ At(i + c) = Kept[1]
        BY <4>1 DEF At, O, K
      <4>3. Offered'[i].tag[1] = Kept[1]
        BY <1>7, <3>3 DEF O
      <4> QED
        BY <4>2, <4>3
    <3>4. CASE i > O1 /\ i <= m - c
      <4> DEFINE j == i - O1
      <4>1. /\ j \in 1 .. K - k /\ i <= O1 + K1 /\ ~(i <= O1)
            /\ ~(i + c <= O) /\ i + c <= O + K /\ (i + c) - O = j + k
        BY <1>len, <3>1, <3>4
      <4>2. At2(i) = Kept'[j] /\ At(i + c) = Kept[j + k]
        BY <4>1 DEF At, O, K
      <4> HIDE DEF j
      <4>3. Kept'[j] = Kept[j + k]
        BY <1>6, <4>1 DEF K
      <4> QED
        BY <4>2, <4>3
    <3>5. CASE i = (m - c) + 1
      <4>1. ~(i + c <= O) /\ ~(i + c <= O + K) /\ i = (O1 + (K - k)) + 1
        BY <1>len, <3>5
      <4>2. At(i + c) = Here
        BY <4>1 DEF At, O, K
      <4>3. CASE a = 1
        <5>1. ~(i <= O1) /\ i <= O1 + K1 /\ i - O1 = (K - k) + 1
          BY <1>len, <4>1, <4>3
        <5>2. At2(i) = Kept'[(K - k) + 1]
          BY <5>1
        <5>3. Kept'[(K - k) + 1] = Here
          BY <1>6, <4>3 DEF K
        <5> QED
          BY <4>2, <5>2, <5>3
      <4>4. CASE a = 0
        <5>1. ~(i <= O1) /\ ~(i <= O1 + K1)
          BY <1>len, <4>1, <4>4
        <5>2. Here' = Here
          BY <1>3, <1>5, <4>4
        <5> QED
          BY <4>2, <5>1, <5>2
      <4> QED
        BY <1>5, <4>3, <4>4
    <3> QED
      BY <3>1, <3>2, <3>3, <3>4, <3>5
  <2>3. ASSUME a = 1 PROVE At2((m - c) + 2) = next_pointer(Here)
    <3>1. ~((m - c) + 2 <= O1) /\ ~((m - c) + 2 <= O1 + K1)
      BY <1>len, <2>3
    <3> QED
      BY <1>3, <1>5, <2>3, <3>1
  <2>4. At(m + 1) = Here
    <3>1. ~(m + 1 <= O) /\ ~(m + 1 <= O + K)
      BY <1>len
    <3> QED
      BY <3>1 DEF At, O, K
  <2>5. At(1) = expect /\ \A i \in 1 .. m : At(i + 1) = next_pointer(At(i))
    BY DEF StreamInv, Sequenced, O, K
  <2> HIDE DEF m, At2
  <2>6. At2(1) = expect'
    <3>1. 1 \in 1 .. (m - c) + 1
      BY <2>1
    <3>2. At2(1) = At(1 + c)
      BY <2>2, <3>1
    <3>3. CASE c = 1
      <4>1. 1 \in 1 .. m
        BY <2>1, <3>3
      <4>2. At(1 + 1) = next_pointer(At(1))
        BY <2>5, <4>1
      <4> QED
        BY <1>5, <1>10, <2>5, <3>2, <3>3, <4>2
    <3>4. CASE c = 0
      BY <1>5, <1>10, <2>5, <3>2, <3>4
    <3> QED
      BY <1>5, <3>3, <3>4
  <2>7. ASSUME NEW i \in 1 .. (m - c) + a PROVE At2(i + 1) = next_pointer(At2(i))
    <3>1. i \in 1 .. (m - c) + 1
      BY <1>len, <2>1
    <3>2. At2(i) = At(i + c)
      BY <2>2, <3>1
    <3>3. CASE i <= m - c
      <4>1. i + 1 \in 1 .. (m - c) + 1 /\ i + c \in 1 .. m /\ (i + 1) + c = (i + c) + 1
        BY <1>len, <2>1, <3>3
      <4>2. At2(i + 1) = At((i + 1) + c)
        BY <2>2, <4>1
      <4>3. At((i + c) + 1) = next_pointer(At(i + c))
        BY <2>5, <4>1
      <4> QED
        BY <3>2, <4>1, <4>2, <4>3
    <3>4. CASE i > m - c
      <4>1. a = 1 /\ i = (m - c) + 1 /\ i + c = m + 1 /\ i + 1 = (m - c) + 2
        BY <1>len, <2>1, <3>4
      <4> QED
        BY <2>3, <2>4, <3>2, <4>1
    <3> QED
      BY <1>len, <2>1, <3>3, <3>4
  <2>8. At2(1) = expect' /\ \A i \in 1 .. O1 + K1 : At2(i + 1) = next_pointer(At2(i))
    BY <2>1, <2>6, <2>7
  <2> QED
    BY <2>8 DEF Sequenced, At, At2, O1, K1
<1> QED
  BY <1>13, <1>14, <1>15, <1>16, <1>17, <1>18 DEF StreamInv

LEMMA StreamSteps == StreamInv /\ [StreamNext]_stream_vars => StreamInv'
<1> SUFFICES ASSUME StreamInv, [StreamNext]_stream_vars PROVE StreamInv'
  OBVIOUS
<1>1. CASE StreamNext
  <2>1. PICK kind \in JumpKinds, req_rdy \in BOOLEAN, data_rdy \in BOOLEAN :
               \E jmp \in jumps(kind) : StreamEdge(kind, req_rdy, jmp, data_rdy)
    BY <1>1 DEF StreamNext
  <2>2. PICK jmp \in jumps(kind) : StreamEdge(kind, req_rdy, jmp, data_rdy)
    BY <2>1
  <2>3. CASE jmp # <<>>
    BY <2>2, <2>3, JumpStep
  <2>4. CASE jmp = <<>>
    BY <2>2, <2>4, StreamStep
  <2> QED
    BY <2>3, <2>4
<1>2. CASE UNCHANGED stream_vars
  BY <1>2 DEF stream_vars, fetcher_vars, env_vars, StreamInv, StreamTypeOK, Queues, Answering, Accounted, Limits,
              Sequenced, At, Kept, Offered, Here
<1> QED
  BY <1>1, <1>2

-----------------------------------------------------------------------------
(***************************************************************************)
(* What the invariant says of the wires.                                    *)
(***************************************************************************)
LEMMA NothingLost == StreamInv => NoAnswerLost
<1> SUFFICES ASSUME StreamInv PROVE NoAnswerLost
  OBVIOUS
<1>1. StreamTypeOK
  BY DEF StreamInv
<1>2. AnswersAccounted
  <2>1. rd # <<>> /\ skip_hs_cnt = 0 => Tag # <<>>
    <3>1. rd # <<>> /\ skip_hs_cnt = 0 => kept(rd)
      BY DEF kept, answered
    <3> QED
      BY <3>1, TagFound
  <2> QED
    BY <2>1 DEF StreamInv, Accounted, AnswersAccounted
<1>3. RoomForRequests
  BY Sizes DEF RoomForRequests
<1> QED
  BY <1>1, <1>2, <1>3 DEF NoAnswerLost

LEMMA StreamDelivered == StreamInv => DeliversStream
<1> SUFFICES ASSUME StreamInv, DataOut # <<>>
             PROVE  DataOut[1] = [tag |-> <<expect>>, word |-> word_of(expect)]
  BY DEF DeliversStream
<1>1. IsFifo(fifo_1, Packet) /\ fifo_1.res = <<>> /\ fifo_1.bram # <<>> /\ DataOut = fifo_1.bram
  BY DEF StreamInv, Queues, DataOut, FifoOut
<1>2. Offered # <<>> /\ DataOut = <<Offered[1]>>
  BY <1>1, FirstOut DEF Offered
<1>3. Offered[1] \in Packet /\ 1 <= Len(Offered)
  BY <1>2, Sizes
<1>4. PICK p \in Pointer : Offered[1] = [tag |-> <<p>>, word |-> word_of(p)]
  BY <1>3 DEF Packet
<1>5. At(1) = Offered[1].tag[1]
  BY <1>3 DEF At
<1>6. p = expect
  BY <1>4, <1>5 DEF StreamInv, Sequenced
<1> QED
  BY <1>2, <1>4, <1>6

(* The invariant the two theorems below follow from.                         *)
THEOREM StreamSafe == StreamSpec => []StreamInv
  BY InitStream, StreamSteps, PTL DEF StreamSpec

(* Whatever the memory's delay and wherever the jumps come, every answer is  *)
(* awaited by its own tag or counted as one to discard, the counters never   *)
(* wrap and neither FIFO overflows, for every limit of 1 to 4 requests.      *)
(* (skip_hs_cnt, mem_hs_cnt, the two FIFOs of cpu86_fetcher)                 *)
THEOREM AnswersSafe == StreamSpec => []NoAnswerLost
  BY StreamSafe, NothingLost, PTL

(* The consumer is offered the words of the present stream, each under its   *)
(* own CS:IP, in order and without a gap, for every IP size and every CS.    *)
(* (fifo_resetn, skip_hs_cnt, max_hs_cnt)                                    *)
THEOREM StreamOrder == StreamSpec => []DeliversStream
  BY StreamSafe, StreamDelivered, PTL

-----------------------------------------------------------------------------
(****************************************************************************)
(* The instruction cache.                                                   *)
(****************************************************************************)
(* The requests under way are numbered by their age: the slot of the k-th is *)
(* the k-th from rob_rd_addr on, and Wanted(k) is the word it asked for.         *)
Pos(r, i) == IF i >= r THEN (i - r) + 1 ELSE ((i - r) + 1) + ROB_SIZE
Live(i)   == Pos(rob_rd_addr, i) <= rob_fifo_cnt
Wanted(k) == outstanding[k + Len(cpu_res)]

CacheCounters ==
    /\ rob_fifo_cnt \in 0 .. ROB_SIZE - 1 /\ Pos(rob_rd_addr, rob_wr_addr) = rob_fifo_cnt + 1
    /\ rob_wr_tready <=> rob_fifo_cnt # ROB_SIZE - 1
    /\ rob_rd_tvalid <=> rob_fifo_cnt # 0
    /\ Len(outstanding) = rob_fifo_cnt + Len(cpu_res) /\ Len(outstanding) <= ROB_SIZE - 1
    /\ cpu_res # <<>> => cpu_res = <<outstanding[1]>>

(* A slot in use is empty or holds the word that was asked for.              *)
SlotsHold == \A i \in RobSlots : Live(i) /\ slot[i] # <<>> => slot[i] = <<Wanted(Pos(rob_rd_addr, i))>>

(* The lookups and misses under way, oldest first: those that wait for the   *)
(* memory, the one in the miss register, and the two in axis_bram.           *)
Missed == FifoWords(miss_fifo)
n_miss == Len(Missed)
n_req  == n_miss + Len(mem_req)
n_res  == n_req + Len(res)
n_all  == n_res + Len(bram)
Item(i) == IF i <= n_miss THEN Missed[i]
           ELSE IF i <= n_req THEN mem_req[1]
           ELSE IF i <= n_res THEN res[1] ELSE bram[1]
Place(i) == Pos(rob_rd_addr, Item(i).idx)

(* Each belongs to a slot in use that is still empty, they are in the order  *)
(* of the requests, and between two of them lie as many slots at least.      *)
Flight ==
    /\ \A i \in 1 .. n_all :
          /\ Item(i).idx \in RobSlots /\ Place(i) <= rob_fifo_cnt
          /\ slot[Item(i).idx] = <<>> /\ Item(i).addr = Wanted(Place(i))
    /\ \A i, j \in 1 .. n_all : i < j => Place(j) - Place(i) >= j - i

(* The misses that wait are what the memory was asked or is going to be, in  *)
(* this order, and the oldest is at the output when its answer comes.        *)
ToMemory(i) == IF i <= Len(mem_pending) THEN mem_pending[i] ELSE mem_req_reg[i - Len(mem_pending)]
Misses ==
    /\ n_miss = Len(mem_pending) + Len(mem_req_reg)
    /\ \A i \in 1 .. n_miss : Missed[i].addr = ToMemory(i)
    /\ mem_res # <<>> => mem_pending # <<>> /\ mem_res = <<mem_pending[1]>>
    /\ mem_pending # <<>> => miss_fifo.res # <<>>

(* A valid cell holds a word of its line, under the tag of that word.        *)
Holds(c, l) == c.word \in Word /\ line(c.word) = l /\ tag(c.word) = c.tag
Cells ==
    /\ \A l \in cache_line_vld : Holds(ram[l], l)
    /\ bram # <<>> => /\ bram[1].vld => /\ line(bram[1].addr) \in cache_line_vld
                                        /\ Holds(bram[1].cell, line(bram[1].addr))
                      /\ bram[1].byp # <<>> => Holds(bram[1].byp[1], line(bram[1].addr))
    /\ res # <<>> /\ res[1].vld => Holds(res[1].cell, line(res[1].addr))

CellSet == [tag : Nat, word : Nat]
Lookups == [addr : Word, vld : BOOLEAN, idx : RobSlots, byp : Maybe(CellSet), cell : CellSet]
Founds  == [addr : Word, vld : BOOLEAN, idx : RobSlots, cell : CellSet]

Shapes ==
    /\ working \subseteq Word /\ outstanding \in Seq(Word)
    /\ cache_line_vld \subseteq 0 .. LINES - 1 /\ ram \in [0 .. LINES - 1 -> CellSet]
    /\ AtMostOneOf(Lookups, bram) /\ AtMostOneOf(Founds, res) /\ AtMostOneOf(Miss, mem_req)
    /\ IsFifo(miss_fifo, Miss)
    /\ mem_req_reg \in Seq(Word) /\ Len(mem_req_reg) <= 2 /\ mem_pending \in Seq(Word)
    /\ rob_wr_addr \in RobSlots /\ rob_rd_addr \in RobSlots /\ slot \in [RobSlots -> Maybe(Word)]
    /\ rob_wr_tready \in BOOLEAN /\ rob_rd_tvalid \in BOOLEAN
    /\ AtMostOneOf(Word, cpu_res) /\ AtMostOneOf(Word, mem_res)

CacheInv == Shapes /\ CacheCounters /\ SlotsHold /\ Flight /\ Misses /\ Cells

-----------------------------------------------------------------------------
(* The ring of slots.                                                        *)
LEMMA Constants ==
    /\ ROB_SIZE \in Nat /\ ROB_SIZE >= 3 /\ LINES \in Nat /\ LINES > 0
    /\ MISS_DEPTH \in Nat /\ MISS_DEPTH >= ROB_SIZE /\ Word \subseteq Nat
  BY ICacheAssumption

LEMMA NextSlot ==
    ASSUME NEW i \in RobSlots
    PROVE  next_rob_slot(i) = (IF i = ROB_SIZE - 1 THEN 0 ELSE i + 1) /\ next_rob_slot(i) \in RobSlots
<1>1. CASE i = ROB_SIZE - 1
  <2>1. ROB_SIZE % ROB_SIZE = 0
    BY Constants, Z3
  <2> QED
    BY <1>1, <2>1, Constants DEF next_rob_slot, RobSlots
<1>2. CASE i # ROB_SIZE - 1
  <2>1. i + 1 \in 0 .. ROB_SIZE - 1
    BY <1>2, Constants DEF RobSlots
  <2>2. \A x \in 0 .. ROB_SIZE - 1 : x % ROB_SIZE = x
    BY Constants, Z3
  <2> QED
    BY <1>2, <2>1, <2>2 DEF next_rob_slot, RobSlots
<1> QED
  BY <1>1, <1>2

LEMMA PosFacts ==
    ASSUME NEW r \in RobSlots
    PROVE  /\ Pos(r, r) = 1
           /\ \A i \in RobSlots : Pos(r, i) \in 1 .. ROB_SIZE
           /\ \A i, j \in RobSlots : Pos(r, i) = Pos(r, j) => i = j
  BY Constants DEF Pos, RobSlots

LEMMA PosNext ==
    ASSUME NEW r \in RobSlots
    PROVE  /\ \A i \in RobSlots : Pos(next_rob_slot(r), i) = IF i = r THEN ROB_SIZE ELSE Pos(r, i) - 1
           /\ \A w \in RobSlots : Pos(r, w) < ROB_SIZE => Pos(r, next_rob_slot(w)) = Pos(r, w) + 1
<1>1. next_rob_slot(r) = (IF r = ROB_SIZE - 1 THEN 0 ELSE r + 1)
  BY NextSlot
<1>2. ASSUME NEW i \in RobSlots
      PROVE  Pos(next_rob_slot(r), i) = IF i = r THEN ROB_SIZE ELSE Pos(r, i) - 1
  BY <1>1, Constants DEF Pos, RobSlots
<1>3. ASSUME NEW w \in RobSlots, Pos(r, w) < ROB_SIZE
      PROVE  Pos(r, next_rob_slot(w)) = Pos(r, w) + 1
  <2>1. next_rob_slot(w) = (IF w = ROB_SIZE - 1 THEN 0 ELSE w + 1)
    BY NextSlot
  <2> QED
    BY <1>3, <2>1, Constants DEF Pos, RobSlots
<1> QED
  BY <1>2, <1>3

LEMMA Lengths ==
    ASSUME CacheInv
    PROVE  /\ Len(bram) = Num(bram # <<>>) /\ Len(res) = Num(res # <<>>)
           /\ Len(mem_req) = Num(mem_req # <<>>) /\ Len(cpu_res) = Num(cpu_res # <<>>)
           /\ Len(mem_res) = Num(mem_res # <<>>)
           /\ bram # <<>> => bram[1] \in Lookups /\ bram = <<bram[1]>>
           /\ res # <<>> => res[1] \in Founds /\ res = <<res[1]>>
           /\ mem_req # <<>> => mem_req[1] \in Miss /\ mem_req = <<mem_req[1]>>
           /\ mem_res # <<>> => mem_res[1] \in Word /\ mem_res = <<mem_res[1]>>
           /\ Missed \in Seq(Miss) /\ n_miss \in Nat
           /\ Len(mem_pending) \in Nat /\ Len(mem_req_reg) \in 0 .. 2
<1>1. /\ AtMostOneOf(Lookups, bram) /\ AtMostOneOf(Founds, res) /\ AtMostOneOf(Miss, mem_req)
      /\ AtMostOneOf(Word, cpu_res) /\ AtMostOneOf(Word, mem_res) /\ IsFifo(miss_fifo, Miss)
      /\ mem_req_reg \in Seq(Word) /\ Len(mem_req_reg) <= 2 /\ mem_pending \in Seq(Word)
  BY DEF CacheInv, Shapes
<1>2. Len(bram) = Num(bram # <<>>) /\ (bram # <<>> => bram[1] \in Lookups /\ bram = <<bram[1]>>)
  BY <1>1, OneIsSeq
<1>3. Len(res) = Num(res # <<>>) /\ (res # <<>> => res[1] \in Founds /\ res = <<res[1]>>)
  BY <1>1, OneIsSeq
<1>4. Len(mem_req) = Num(mem_req # <<>>) /\ (mem_req # <<>> => mem_req[1] \in Miss /\ mem_req = <<mem_req[1]>>)
  BY <1>1, OneIsSeq
<1>5. Len(cpu_res) = Num(cpu_res # <<>>)
  BY <1>1, OneIsSeq
<1>6. Len(mem_res) = Num(mem_res # <<>>) /\ (mem_res # <<>> => mem_res[1] \in Word /\ mem_res = <<mem_res[1]>>)
  BY <1>1, OneIsSeq
<1>7. Missed \in Seq(Miss) /\ n_miss \in Nat
  BY <1>1, FifoType DEF Missed, n_miss
<1>8. Len(mem_pending) \in Nat /\ Len(mem_req_reg) \in 0 .. 2
  <2> DEFINE l == Len(mem_req_reg)
  <2>1. Len(mem_pending) \in Nat /\ l \in Nat /\ l <= 2
    BY <1>1
  <2> HIDE DEF l
  <2>2. l \in 0 .. 2
    BY <2>1
  <2> QED
    BY <2>1, <2>2 DEF l
<1> QED
  BY <1>2, <1>3, <1>4, <1>5, <1>6, <1>7, <1>8

-----------------------------------------------------------------------------
LEMMA InitCache == CacheInit => CacheInv
<1> SUFFICES ASSUME CacheInit PROVE CacheInv
  OBVIOUS
<1> USE DEF CacheInit
<1>1. 0 \in RobSlots /\ 0 \in 0 .. LINES - 1
  BY Constants DEF RobSlots
<1>2. \A S : AtMostOneOf(S, <<>>)
  BY DEF AtMostOneOf
<1>3. IsFifo(miss_fifo, Miss) /\ Missed = <<>>
  BY EmptyIsFifo DEF Missed
<1>4. Shapes
  <2>1. working \subseteq Word
    BY ICacheAssumption
  <2>2. ram \in [0 .. LINES - 1 -> CellSet]
    BY DEF CellSet
  <2>3. slot \in [RobSlots -> Maybe(Word)]
    BY DEF Maybe
  <2> QED
    BY <1>1, <1>2, <1>3, <2>1, <2>2, <2>3 DEF Shapes
<1>5. CacheCounters
  BY <1>1, Constants, PosFacts DEF CacheCounters
<1>6. n_miss = 0 /\ n_all = 0
  BY <1>3 DEF n_miss, n_req, n_res, n_all
<1>7. SlotsHold /\ Flight /\ Misses /\ Cells
  BY <1>6 DEF SlotsHold, Flight, Misses, Cells
<1> QED
  BY <1>4, <1>5, <1>7 DEF CacheInv

-----------------------------------------------------------------------------
(* What an edge finds.                                                       *)
LEMMA FillFound ==
    ASSUME CacheInv
    PROVE  /\ fill # <<>> <=> mem_res # <<>>
           /\ mem_res # <<>> => miss_fifo.res # <<>> /\ n_miss > 0 /\ fill = <<Missed[1]>>
           /\ mem_res # <<>> => fill[1] = Missed[1] /\ Missed[1] \in Miss /\ mem_res = <<Missed[1].addr>>
           /\ mem_res # <<>> => mem_pending # <<>>
<1>1. CASE mem_res = <<>>
  BY <1>1 DEF fill
<1>2. CASE mem_res # <<>>
  <2>1. mem_pending # <<>> /\ mem_res = <<mem_pending[1]>> /\ miss_fifo.res # <<>>
    BY <1>2 DEF CacheInv, Misses
  <2>2. miss_fifo.res = <<Missed[1]>> /\ Missed # <<>>
    BY <2>1, FirstOut DEF CacheInv, Shapes, Missed
  <2>3. fill = <<Missed[1]>>
    BY <1>2, <2>2 DEF fill, FifoOut
  <2>4. n_miss > 0 /\ Missed[1] \in Miss
    BY <2>2, Lengths DEF n_miss
  <2>5. Len(mem_pending) >= 1
    BY <2>1, Lengths DEF CacheInv, Shapes
  <2>6. Missed[1].addr = mem_pending[1]
    BY <2>4, <2>5, Lengths DEF CacheInv, Misses, ToMemory
  <2> QED
    BY <1>2, <2>1, <2>2, <2>3, <2>4, <2>6
<1> QED
  BY <1>1, <1>2

(* The misses under way fit in their FIFO.                                   *)
LEMMA MissRoom ==
    ASSUME CacheInv
    PROVE  n_miss <= rob_fifo_cnt /\ FifoReady(miss_fifo, MISS_DEPTH)
<1>1. n_all >= n_miss /\ n_all \in Nat /\ n_miss \in Nat
  BY Lengths DEF n_all, n_res, n_req, Num
<1>2. n_miss <= rob_fifo_cnt
  <2>1. CASE n_miss = 0
    BY <2>1 DEF CacheInv, CacheCounters
  <2>2. CASE n_miss > 0
    <3>1. 1 \in 1 .. n_all /\ n_miss \in 1 .. n_all
      BY <1>1, <2>2
    <3>2. Place(1) >= 1 /\ Place(1) \in Nat /\ Place(n_miss) \in Nat /\ Place(n_miss) <= rob_fifo_cnt
      BY <3>1, PosFacts DEF CacheInv, Flight, Place, Shapes
    <3>3. n_miss > 1 => Place(n_miss) - Place(1) >= n_miss - 1
      BY <3>1 DEF CacheInv, Flight
    <3> DEFINE a == Place(1)
               b == Place(n_miss)
    <3>4. a >= 1 /\ a \in Nat /\ b \in Nat /\ b <= rob_fifo_cnt /\ (n_miss > 1 => b - a >= n_miss - 1)
          /\ (n_miss = 1 => a = b) /\ rob_fifo_cnt \in Nat
      BY <3>2, <3>3 DEF CacheInv, CacheCounters
    <3> HIDE DEF a, b
    <3> QED
      BY <1>1, <2>2, <3>4
  <2> QED
    BY <1>1, <2>1, <2>2
<1>3. Len(miss_fifo.q) \in Nat /\ Len(miss_fifo.q) <= n_miss
  BY FirstOut DEF CacheInv, Shapes, n_miss, Missed
<1>4. miss_fifo.q # <<>> => Len(miss_fifo.q) < n_miss
  <2> SUFFICES ASSUME miss_fifo.q # <<>> PROVE Len(miss_fifo.q) < n_miss
    OBVIOUS
  <2> DEFINE B == miss_fifo.bram
             Q == miss_fifo.q
             R == miss_fifo.res
  <2>1. Q \in Seq(Miss) /\ AtMostOneOf(Miss, B) /\ AtMostOneOf(Miss, R) /\ B # <<>>
        /\ Missed = Cat(Cat(R, B), Q)
    BY FifoType DEF CacheInv, Shapes, IsFifo, Missed
  <2> HIDE DEF B, Q, R
  <2>2. B \in Seq(Miss) /\ R \in Seq(Miss) /\ Len(B) = 1 /\ Len(R) \in Nat /\ Len(Q) \in Nat
    BY <2>1, OneIsSeq DEF Num
  <2>3. Cat(R, B) \in Seq(Miss) /\ Len(Cat(R, B)) = Len(R) + Len(B)
    BY <2>2, CatFacts, ZenonT(30)
  <2>4. Len(Missed) = Len(Cat(R, B)) + Len(Q)
    BY <2>1, <2>3, CatFacts
  <2>5. Len(Q) < n_miss
    BY <2>2, <2>3, <2>4 DEF n_miss
  <2> QED
    BY <2>5 DEF Q
<1>5. Len(miss_fifo.q) # MISS_DEPTH - 1
  <2> DEFINE l == Len(miss_fifo.q)
  <2>1. l \in Nat /\ (l # 0 => l < n_miss)
    BY <1>3, <1>4
  <2>2. rob_fifo_cnt \in 0 .. ROB_SIZE - 1
    BY DEF CacheInv, CacheCounters
  <2> HIDE DEF l
  <2>3. l # MISS_DEPTH - 1
    BY <1>1, <1>2, <2>1, <2>2, Constants
  <2> QED
    BY <2>3 DEF l
<1> QED
  BY <1>2, <1>5 DEF FifoReady

(* A lookup that hits finds the word that was asked for.                     *)
LEMMA SameWord ==
    ASSUME NEW a \in Nat, NEW b \in Nat, line(a) = line(b), tag(a) = tag(b)
    PROVE  a = b
<1>1. \A x \in Nat : x = LINES * (x \div LINES) + (x % LINES)
  BY Constants, Z3
<1> QED
  BY <1>1 DEF line, tag

LEMMA HitFound ==
    ASSUME CacheInv, cache_hit
    PROVE  /\ res # <<>> /\ cache_tready /\ hit(res[1]) /\ res[1].cell.word = res[1].addr
<1>1. res # <<>> /\ cache_tready /\ hit(res[1])
  BY DEF cache_hit, looked_up
<1>2. res[1].vld /\ res[1].cell.tag = tag(res[1].addr) /\ res[1].addr \in Word
  BY <1>1, Lengths DEF hit, Founds
<1>3. Holds(res[1].cell, line(res[1].addr))
  BY <1>1, <1>2 DEF CacheInv, Cells
<1>4. res[1].cell.word \in Nat /\ res[1].addr \in Nat
  BY <1>2, <1>3, Constants DEF Holds
<1> QED
  BY <1>1, <1>2, <1>3, <1>4, SameWord DEF Holds

-----------------------------------------------------------------------------
(* The reorder buffer and the requests it has a slot for.                    *)
LEMMA Asks ==
    ASSUME CacheInv, NEW req \in Requests
    PROVE  /\ AtMostOneOf(Word, Accepted(req))
           /\ Accepted(req) # <<>> => /\ rob_wr_tready /\ rob_fifo_cnt < ROB_SIZE - 1
                                      /\ Len(outstanding) < ROB_SIZE - 1
                                      /\ Accepted(req) = req /\ cpu_req_tready
<1>1. CASE Accepted(req) = <<>>
  BY <1>1 DEF AtMostOneOf
<1>2. CASE Accepted(req) # <<>>
  <2>1. Accepted(req) = req /\ req # <<>> /\ cpu_req_tready
    BY <1>2 DEF Accepted
  <2>2. Len(outstanding) < ROB_SIZE - 1 /\ \E a \in working : req = <<a>>
    BY <2>1 DEF Requests
  <2>3. AtMostOneOf(Word, req)
    BY <2>2 DEF AtMostOneOf, CacheInv, Shapes
  <2>4. Len(cpu_res) \in Nat
    BY Lengths DEF Num
  <2>5. rob_fifo_cnt < ROB_SIZE - 1
    BY <2>2, <2>4, Constants DEF CacheInv, CacheCounters
  <2>6. rob_wr_tready
    BY <2>5, Constants DEF CacheInv, CacheCounters
  <2> QED
    BY <2>1, <2>2, <2>3, <2>5, <2>6
<1> QED
  BY <1>1, <1>2

(* The answer that leaves is the oldest one's.                               *)
LEMMA Leaves ==
    ASSUME CacheInv, rob_taken
    PROVE  rob_fifo_cnt >= 1 /\ Live(rob_rd_addr) /\ slot[rob_rd_addr] # <<>> /\ slot[rob_rd_addr] = <<Wanted(1)>>
<1>1. rob_fifo_cnt >= 1 /\ slot[rob_rd_addr] # <<>> /\ rob_rd_addr \in RobSlots
  BY DEF rob_taken, CacheInv, CacheCounters, Shapes
<1>2. Pos(rob_rd_addr, rob_rd_addr) = 1
  BY <1>1, PosFacts
<1>3. Live(rob_rd_addr)
  BY <1>1, <1>2 DEF Live, CacheInv, CacheCounters
<1> QED
  BY <1>1, <1>2, <1>3 DEF CacheInv, SlotsHold

LEMMA OutstandingStep ==
    ASSUME CacheInv, NEW req \in Requests, NEW mem_rdy \in BOOLEAN, CacheEdge(req, mem_rdy)
    PROVE  /\ outstanding' \in Seq(Word)
           /\ Len(outstanding') = rob_fifo_cnt + Num(Accepted(req) # <<>>)
           /\ \A k \in 1 .. rob_fifo_cnt : outstanding'[k] = Wanted(k)
           /\ Accepted(req) # <<>> => outstanding'[rob_fifo_cnt + 1] = Accepted(req)[1]
<1> DEFINE u == IF cpu_res # <<>> THEN Tail(outstanding) ELSE outstanding
           acc == Accepted(req)
           c == Len(cpu_res)
<1>1. outstanding' = u \o acc /\ AtMostOneOf(Word, acc)
  BY Asks DEF CacheEdge
<1>2. c = Num(cpu_res # <<>>) /\ c \in {0, 1}
  BY Lengths DEF Num
<1>3. u = Popped(outstanding, c)
  BY <1>2 DEF Num, Popped
<1>4. Len(outstanding) = rob_fifo_cnt + c /\ outstanding \in Seq(Word) /\ rob_fifo_cnt \in Nat
  BY DEF CacheInv, CacheCounters, Shapes
<1>5. c = 1 => outstanding # <<>>
  BY <1>4
<1> HIDE DEF u, acc, c
<1>6. MovedOn(Word, outstanding, c, acc, outstanding')
  <2>1. outstanding' = Cat(Popped(outstanding, c), acc)
    BY <1>1, <1>3 DEF Cat
  <2> QED
    BY <1>1, <1>2, <1>4, <1>5, <2>1, Moved
<1>7. Len(acc) = Num(acc # <<>>)
  BY <1>1, OneIsSeq
<1>8. Len(outstanding) - c = rob_fifo_cnt
  BY <1>2, <1>4
<1>9. /\ outstanding' \in Seq(Word)
      /\ Len(outstanding') = rob_fifo_cnt + Num(acc # <<>>)
      /\ \A k \in 1 .. rob_fifo_cnt : outstanding'[k] = outstanding[k + c]
      /\ acc # <<>> => outstanding'[rob_fifo_cnt + 1] = acc[1]
  BY <1>6, <1>7, <1>8 DEF MovedOn
<1> QED
  BY <1>9 DEF acc, c, Wanted

LEMMA CountersStep ==
    ASSUME CacheInv, NEW req \in Requests, NEW mem_rdy \in BOOLEAN, CacheEdge(req, mem_rdy)
    PROVE  /\ CacheCounters' /\ rob_rd_addr' \in RobSlots /\ rob_wr_addr' \in RobSlots
           /\ rob_wr_tready' \in BOOLEAN /\ rob_rd_tvalid' \in BOOLEAN
           /\ AtMostOneOf(Word, cpu_res') /\ Len(cpu_res') = Num(rob_taken)
           /\ rob_fifo_cnt' = (rob_fifo_cnt + Num(Accepted(req) # <<>>)) - Num(rob_taken)
<1> DEFINE w == Accepted(req) # <<>> /\ rob_wr_tready
           a == Accepted(req) # <<>>
           t == rob_taken
<1>1. /\ rob_wr_addr' = (IF w THEN next_rob_slot(rob_wr_addr) ELSE rob_wr_addr)
      /\ rob_rd_addr' = (IF t THEN next_rob_slot(rob_rd_addr) ELSE rob_rd_addr)
      /\ rob_fifo_cnt' = (IF w /\ ~t THEN rob_fifo_cnt + 1 ELSE IF t /\ ~w THEN rob_fifo_cnt - 1 ELSE rob_fifo_cnt)
      /\ rob_wr_tready' = (IF w /\ ~t THEN rob_fifo_cnt + 1 # full_at ELSE rob_wr_tready \/ t)
      /\ rob_rd_tvalid' = (IF t /\ ~w THEN rob_fifo_cnt - 1 # 0 ELSE rob_rd_tvalid \/ w)
      /\ cpu_res' = (IF t THEN slot[rob_rd_addr] ELSE <<>>)
  BY DEF CacheEdge, Rob
<1>2. w <=> a
  BY Asks
<1>3. a => rob_fifo_cnt < ROB_SIZE - 1
  BY Asks
<1>4. t => rob_fifo_cnt >= 1 /\ slot[rob_rd_addr] = <<Wanted(1)>>
  BY Leaves
<1>5. /\ rob_fifo_cnt \in 0 .. ROB_SIZE - 1 /\ Pos(rob_rd_addr, rob_wr_addr) = rob_fifo_cnt + 1
      /\ (rob_wr_tready <=> rob_fifo_cnt # ROB_SIZE - 1) /\ (rob_rd_tvalid <=> rob_fifo_cnt # 0)
      /\ rob_wr_addr \in RobSlots /\ rob_rd_addr \in RobSlots
      /\ rob_wr_tready \in BOOLEAN /\ rob_rd_tvalid \in BOOLEAN
  BY DEF CacheInv, CacheCounters, Shapes
<1>6. t \in BOOLEAN /\ a \in BOOLEAN /\ (a => rob_wr_tready)
  BY <1>2 DEF rob_taken
<1> HIDE DEF w, a, t
<1>7. rob_fifo_cnt' = (rob_fifo_cnt + Num(a)) - Num(t)
  BY <1>1, <1>2, <1>5, <1>6 DEF Num
<1>8. rob_fifo_cnt' \in 0 .. ROB_SIZE - 1
  BY <1>3, <1>4, <1>5, <1>6, <1>7, Constants DEF Num
<1>9. rob_wr_tready' \in BOOLEAN /\ rob_rd_tvalid' \in BOOLEAN
  BY <1>1, <1>5, <1>6
<1>10. rob_wr_tready' <=> rob_fifo_cnt' # ROB_SIZE - 1
  <2>1. full_at = ROB_SIZE - 1
    BY DEF full_at
  <2> QED
    BY <1>1, <1>2, <1>3, <1>4, <1>5, <1>6, <2>1, Constants
<1>11. rob_rd_tvalid' <=> rob_fifo_cnt' # 0
  BY <1>1, <1>2, <1>4, <1>5, <1>6
<1>12. rob_rd_addr' \in RobSlots /\ rob_wr_addr' \in RobSlots
  BY <1>1, <1>5, NextSlot
<1>13. Pos(rob_rd_addr', rob_wr_addr') = rob_fifo_cnt' + 1
  <2> DEFINE w1 == IF a THEN next_rob_slot(rob_wr_addr) ELSE rob_wr_addr
  <2>1. Pos(rob_rd_addr, w1) = (rob_fifo_cnt + 1) + Num(a) /\ w1 \in RobSlots
    <3>1. a => Pos(rob_rd_addr, next_rob_slot(rob_wr_addr)) = (rob_fifo_cnt + 1) + 1
      BY <1>3, <1>5, PosNext, Constants
    <3>2. next_rob_slot(rob_wr_addr) \in RobSlots
      BY <1>5, NextSlot
    <3> QED
      BY <1>5, <3>1, <3>2 DEF Num
  <2>2. rob_wr_addr' = w1
    BY <1>1, <1>2
  <2> HIDE DEF w1
  <2>3. CASE t
    <3>1. w1 # rob_rd_addr
      BY <1>4, <1>5, <1>6, <2>1, <2>3, PosFacts DEF Num
    <3>2. Pos(next_rob_slot(rob_rd_addr), w1) = Pos(rob_rd_addr, w1) - 1
      BY <1>5, <2>1, <3>1, PosNext
    <3> QED
      BY <1>1, <1>5, <1>6, <1>7, <2>1, <2>2, <2>3, <3>2 DEF Num
  <2>4. CASE ~t
    BY <1>1, <1>5, <1>6, <1>7, <2>1, <2>2, <2>4 DEF Num
  <2> QED
    BY <2>3, <2>4
<1>14. /\ AtMostOneOf(Word, cpu_res') /\ Len(cpu_res') = Num(t)
       /\ cpu_res' # <<>> => cpu_res' = <<outstanding'[1]>>
  <2>1. CASE t
    <3>1. 1 \in 1 .. rob_fifo_cnt
      BY <1>4, <1>5, <2>1
    <3>2. outstanding'[1] = Wanted(1)
      BY <3>1, OutstandingStep
    <3>3. outstanding'[1] \in Word
      <4>1. outstanding' \in Seq(Word) /\ Len(outstanding') >= 1
        BY <1>4, <1>5, <1>6, <2>1, OutstandingStep DEF Num
      <4> QED
        BY <4>1
    <3>4. cpu_res' = <<outstanding'[1]>>
      BY <1>1, <1>4, <2>1, <3>2
    <3> QED
      BY <2>1, <3>3, <3>4 DEF AtMostOneOf, Num
  <2>2. CASE ~t
    BY <1>1, <2>2 DEF AtMostOneOf, Num
  <2> QED
    BY <2>1, <2>2
<1>15. Len(outstanding') = rob_fifo_cnt' + Len(cpu_res') /\ Len(outstanding') <= ROB_SIZE - 1
  <2>1. Len(outstanding') = rob_fifo_cnt + Num(a)
    BY OutstandingStep DEF a
  <2>2. a => rob_fifo_cnt < ROB_SIZE - 1
    BY <1>3
  <2>3. Num(a) \in {0, 1} /\ Num(t) \in {0, 1} /\ (Num(a) = 1 => a)
    BY <1>6 DEF Num
  <2> QED
    BY <1>5, <1>7, <1>14, <2>1, <2>2, <2>3, Constants
<1> QED
  BY <1>7, <1>8, <1>9, <1>10, <1>11, <1>12, <1>13, <1>14, <1>15 DEF CacheCounters, a, t

(* How an edge moves the numbers of the requests: the oldest may leave, one  *)
(* may come, and the others keep their slots and their words.                *)
Stays(i)     == Live(i) /\ ~(rob_taken /\ i = rob_rd_addr)
NewPos(i)    == Pos(rob_rd_addr', i)
NewWanted(k) == outstanding'[k + Len(cpu_res')]

LEMMA PlacesStep ==
    ASSUME CacheInv, NEW req \in Requests, NEW mem_rdy \in BOOLEAN, CacheEdge(req, mem_rdy)
    PROVE  /\ \A i \in RobSlots : Stays(i) =>
                 /\ i # rob_wr_addr /\ NewPos(i) = Pos(rob_rd_addr, i) - Num(rob_taken)
                 /\ NewPos(i) <= rob_fifo_cnt'
                 /\ NewWanted(NewPos(i)) = Wanted(Pos(rob_rd_addr, i))
           /\ \A i \in RobSlots : NewPos(i) <= rob_fifo_cnt' =>
                 Stays(i) \/ (Accepted(req) # <<>> /\ i = rob_wr_addr)
           /\ Accepted(req) # <<>> => /\ ~Live(rob_wr_addr)
                                      /\ NewPos(rob_wr_addr) = rob_fifo_cnt' /\ NewWanted(rob_fifo_cnt') = Accepted(req)[1]
<1> DEFINE a == Accepted(req) # <<>>
           t == rob_taken
           c == Len(cpu_res')
<1>1. /\ rob_fifo_cnt \in 0 .. ROB_SIZE - 1 /\ Pos(rob_rd_addr, rob_wr_addr) = rob_fifo_cnt + 1
      /\ rob_wr_addr \in RobSlots /\ rob_rd_addr \in RobSlots
  BY DEF CacheInv, CacheCounters, Shapes
<1>2. t \in BOOLEAN /\ a \in BOOLEAN /\ (t => rob_fifo_cnt >= 1) /\ (a => rob_fifo_cnt < ROB_SIZE - 1)
  BY Leaves, Asks DEF rob_taken
<1>3. rob_fifo_cnt' = (rob_fifo_cnt + Num(a)) - Num(t) /\ c = Num(t)
  BY CountersStep
<1>4. rob_rd_addr' = (IF t THEN next_rob_slot(rob_rd_addr) ELSE rob_rd_addr)
  BY DEF CacheEdge, Rob
<1>5. /\ \A k \in 1 .. rob_fifo_cnt : outstanding'[k] = Wanted(k)
      /\ a => outstanding'[rob_fifo_cnt + 1] = Accepted(req)[1]
  BY OutstandingStep
<1> HIDE DEF a, t, c
<1>6. \A i \in RobSlots : /\ Pos(rob_rd_addr, i) \in 1 .. ROB_SIZE
                          /\ i # rob_rd_addr => Pos(rob_rd_addr, i) > 1
                          /\ i = rob_rd_addr => Pos(rob_rd_addr, i) = 1
  BY <1>1, PosFacts, Constants
<1>7. \A i \in RobSlots : NewPos(i) = IF t THEN (IF i = rob_rd_addr THEN ROB_SIZE ELSE Pos(rob_rd_addr, i) - 1)
                                   ELSE Pos(rob_rd_addr, i)
  BY <1>1, <1>4, PosNext DEF NewPos
<1>8. Num(t) = (IF t THEN 1 ELSE 0) /\ Num(a) = (IF a THEN 1 ELSE 0)
  BY DEF Num
<1>9. ASSUME NEW i \in RobSlots, Pos(rob_rd_addr, i) <= rob_fifo_cnt, ~(t /\ i = rob_rd_addr)
      PROVE  /\ i # rob_wr_addr /\ NewPos(i) = Pos(rob_rd_addr, i) - Num(t) /\ NewPos(i) <= rob_fifo_cnt'
             /\ NewWanted(NewPos(i)) = Wanted(Pos(rob_rd_addr, i))
  <2> DEFINE p == Pos(rob_rd_addr, i)
  <2>1. p \in 1 .. rob_fifo_cnt /\ i # rob_wr_addr
    BY <1>1, <1>6, <1>9
  <2>2. NewPos(i) = p - Num(t)
    BY <1>2, <1>6, <1>7, <1>8, <1>9
  <2> HIDE DEF p
  <2>3. NewPos(i) <= rob_fifo_cnt' /\ NewPos(i) + c = p
    BY <1>1, <1>2, <1>3, <1>8, <2>1, <2>2
  <2>4. NewWanted(NewPos(i)) = outstanding'[p]
    BY <2>3 DEF NewWanted, c
  <2> QED
    BY <1>5, <2>1, <2>2, <2>3, <2>4 DEF p
<1>10. ASSUME NEW i \in RobSlots, NewPos(i) <= rob_fifo_cnt', ~(a /\ i = rob_wr_addr)
       PROVE  Pos(rob_rd_addr, i) <= rob_fifo_cnt /\ ~(t /\ i = rob_rd_addr)
  <2>1. i = rob_wr_addr <=> Pos(rob_rd_addr, i) = rob_fifo_cnt + 1
    BY <1>1, PosFacts
  <2>2. ~(t /\ i = rob_rd_addr)
    BY <1>1, <1>2, <1>3, <1>7, <1>8, <1>10, Constants
  <2> QED
    BY <1>1, <1>2, <1>3, <1>6, <1>7, <1>8, <1>10, <2>1, <2>2
<1>11. ASSUME a
       PROVE  /\ ~(Pos(rob_rd_addr, rob_wr_addr) <= rob_fifo_cnt)
              /\ NewPos(rob_wr_addr) = rob_fifo_cnt' /\ NewWanted(rob_fifo_cnt') = Accepted(req)[1]
  <2>1. rob_wr_addr # rob_rd_addr \/ ~t
    BY <1>1, <1>2, <1>6
  <2>2. NewPos(rob_wr_addr) = rob_fifo_cnt' /\ rob_fifo_cnt' + c = rob_fifo_cnt + 1
    BY <1>1, <1>2, <1>3, <1>7, <1>8, <1>11, <2>1
  <2>3. NewWanted(rob_fifo_cnt') = outstanding'[rob_fifo_cnt + 1]
    BY <2>2 DEF NewWanted, c
  <2> QED
    BY <1>1, <1>5, <1>11, <2>2, <2>3
<1> QED
  BY <1>9, <1>10, <1>11 DEF Stays, Live, a, t

(* The misses that wait for the memory move as one queue with the requests   *)
(* to it.                                                                    *)
Issued == IF miss_issued THEN mem_req ELSE <<>>

LEMMA MissMoves ==
    ASSUME CacheInv, NEW req \in Requests, NEW mem_rdy \in BOOLEAN, CacheEdge(req, mem_rdy)
    PROVE  /\ IsFifo(miss_fifo', Miss) /\ AtMostOneOf(Miss, Issued)
           /\ MovedOn(Miss, Missed, Num(fill # <<>>), Issued, Missed')
           /\ n_miss' = (n_miss - Num(fill # <<>>)) + Num(miss_issued)
           /\ miss_fifo'.res = <<>> => Missed' = Issued
<1>1. AtMostOneOf(Miss, Issued) /\ Len(Issued) = Num(miss_issued)
  BY Lengths DEF Issued, miss_issued, AtMostOneOf, Num
<1>2. mem_res # <<>> => miss_fifo.res # <<>> /\ Missed # <<>>
  <2>1. mem_res # <<>> => miss_fifo.res # <<>>
    BY FillFound
  <2>2. IsFifo(miss_fifo, Miss)
    BY DEF CacheInv, Shapes
  <2>3. miss_fifo.res # <<>> => Missed # <<>>
    BY <2>2, FirstOut DEF Missed
  <2> QED
    BY <2>1, <2>3
<1>3. miss_fifo' = FifoStep(miss_fifo, MISS_DEPTH, TRUE, Issued, mem_res # <<>>)
  BY DEF CacheEdge, MissPath, Issued
<1>4. RegisteredQueueStep(Miss, miss_fifo, miss_fifo', Num(mem_res # <<>>), Issued)
  BY <1>1, <1>2, <1>3, MissRoom, RegisteredStep DEF CacheInv, Shapes
<1>5. /\ IsFifo(miss_fifo', Miss) /\ Missed' = Cat(Popped(Missed, Num(mem_res # <<>>)), Issued)
      /\ miss_fifo'.res = <<>> => Missed' = Issued
  BY <1>4 DEF RegisteredQueueStep, QueueStep, Missed
<1>6. Missed \in Seq(Miss) /\ Num(mem_res # <<>>) \in {0, 1} /\ (Num(mem_res # <<>>) = 1 <=> mem_res # <<>>)
  BY Lengths DEF Num
<1>7. MovedOn(Miss, Missed, Num(mem_res # <<>>), Issued, Missed')
  BY <1>1, <1>2, <1>5, <1>6, Moved
<1>8. Num(mem_res # <<>>) = Num(fill # <<>>)
  BY FillFound
<1>9. n_miss' = (n_miss - Num(fill # <<>>)) + Num(miss_issued)
  BY <1>1, <1>7, <1>8 DEF MovedOn, n_miss
<1> QED
  BY <1>1, <1>5, <1>7, <1>8, <1>9

LEMMA MissStep ==
    ASSUME CacheInv, NEW req \in Requests, NEW mem_rdy \in BOOLEAN, CacheEdge(req, mem_rdy)
    PROVE  /\ Misses' /\ mem_req_reg' \in Seq(Word) /\ Len(mem_req_reg') <= 2
           /\ mem_pending' \in Seq(Word) /\ AtMostOneOf(Word, mem_res')
<1> DEFINE f == Num(fill # <<>>)
           k == Num(mem_rdy /\ mem_req_reg # <<>>)
           m == Num(miss_issued)
           p == Len(mem_pending)
           s == Len(mem_req_reg)
           offer == IF mem_req # <<>> THEN <<mem_req[1].addr>> ELSE <<>>
           e == IF RegReady(mem_req_reg) THEN offer ELSE <<>>
           o == IF mem_rdy THEN RegOut(mem_req_reg) ELSE <<>>
<1>1. /\ mem_pending \in Seq(Word) /\ mem_req_reg \in Seq(Word) /\ s <= 2 /\ s \in Nat /\ p \in Nat
      /\ n_miss = p + s /\ n_miss \in Nat
      /\ mem_res # <<>> => mem_pending # <<>>
  BY Lengths DEF CacheInv, Shapes, Misses
<1>2. f \in {0, 1} /\ k \in {0, 1} /\ m \in {0, 1} /\ (f = 1 => mem_pending # <<>>)
      /\ (f = 1 <=> mem_res # <<>>) /\ (k = 1 => mem_req_reg # <<>>) /\ (k = 1 <=> o # <<>>)
  BY <1>1, FillFound DEF Num, RegOut
<1>3. AtMostOneOf(Word, offer) /\ (e # <<>> <=> miss_issued) /\ (miss_issued => e = <<mem_req[1].addr>> /\ Issued = mem_req)
  BY Lengths DEF AtMostOneOf, Miss, miss_issued, mem_req_tready, Issued
<1>4. AtMostOneOf(Word, e) /\ Len(e) = m
  BY <1>3 DEF AtMostOneOf, Num
<1>5. AtMostOneOf(Word, o) /\ Len(o) = k /\ (k = 1 => o[1] = mem_req_reg[1])
  BY <1>1 DEF AtMostOneOf, Num, RegOut
<1>6. MovedOn(Word, mem_req_reg, k, e, mem_req_reg') /\ Len(mem_req_reg') <= 2
  <2>1. mem_req_reg' = RegStep(mem_req_reg, offer, mem_rdy)
    BY DEF CacheEdge, MissPath
  <2> HIDE DEF offer
  <2>2. /\ Len(RegStep(mem_req_reg, offer, mem_rdy)) <= 2
        /\ MovedOn(Word, mem_req_reg, k, e, RegStep(mem_req_reg, offer, mem_rdy))
    BY <1>1, <1>3, SkidStep
  <2> QED
    BY <2>1, <2>2
<1>7. mem_pending' = Cat(Popped(mem_pending, f), o)
  BY <1>2 DEF CacheEdge, Memory, Cat, Popped
<1>8. mem_res' # <<>> => mem_pending' # <<>> /\ mem_res' = <<Head(mem_pending')>>
  BY DEF CacheEdge, Memory
<1>9. MovedOn(Miss, Missed, f, Issued, Missed') /\ n_miss' = (n_miss - f) + m
      /\ (miss_fifo'.res = <<>> => Missed' = Issued) /\ Len(Missed) = n_miss /\ Len(Missed') = n_miss'
  BY MissMoves DEF n_miss
<1> HIDE DEF f, k, m, e, o, offer
<1>10. MovedOn(Word, mem_pending, f, o, mem_pending')
  BY <1>1, <1>2, <1>5, <1>7, Moved
<1> DEFINE p1 == Len(mem_pending')
           s1 == Len(mem_req_reg')
<1>11. p1 = (p - f) + k /\ s1 = (s - k) + m /\ p1 \in Nat /\ s1 \in Nat /\ p - f \in Nat /\ s - k \in Nat
       /\ mem_pending' \in Seq(Word) /\ mem_req_reg' \in Seq(Word)
  BY <1>4, <1>5, <1>6, <1>10 DEF MovedOn
<1>12. /\ \A i \in 1 .. p - f : mem_pending'[i] = mem_pending[i + f]
       /\ k = 1 => mem_pending'[(p - f) + 1] = mem_req_reg[1]
       /\ \A i \in 1 .. s - k : mem_req_reg'[i] = mem_req_reg[i + k]
       /\ m = 1 => mem_req_reg'[(s - k) + 1] = mem_req[1].addr
       /\ \A i \in 1 .. n_miss - f : Missed'[i] = Missed[i + f]
       /\ m = 1 => Missed'[(n_miss - f) + 1] = mem_req[1]
  <2>1. m = 1 => miss_issued /\ Issued # <<>> /\ Issued[1] = mem_req[1] /\ e # <<>> /\ e[1] = mem_req[1].addr
    BY <1>3 DEF m, Num, miss_issued
  <2>2. k = 1 => o # <<>> /\ o[1] = mem_req_reg[1]
    BY <1>2, <1>5
  <2> QED
    BY <1>6, <1>9, <1>10, <2>1, <2>2 DEF MovedOn
<1>13. \A i \in 1 .. n_miss : Missed[i].addr = IF i <= p THEN mem_pending[i] ELSE mem_req_reg[i - p]
  BY DEF CacheInv, Misses, ToMemory
<1> HIDE DEF p1, s1, p, s
<1>14. n_miss' = p1 + s1 /\ n_miss' = (n_miss - f) + m
  <2>1. n_miss' = (n_miss - f) + m /\ n_miss = p + s
    BY <1>1, <1>9
  <2>2. p \in Nat /\ s \in Nat /\ f \in {0, 1} /\ k \in {0, 1} /\ m \in {0, 1}
    BY <1>1, <1>2
  <2> QED
    BY <1>11, <2>1, <2>2
<1>15. ASSUME NEW i \in 1 .. n_miss'
       PROVE  Missed'[i].addr = IF i <= p1 THEN mem_pending'[i] ELSE mem_req_reg'[i - p1]
  <2>1. CASE i <= p - f
    <3>1. i \in 1 .. n_miss - f /\ i + f \in 1 .. n_miss /\ i + f <= p /\ i <= p1 /\ i \in 1 .. p - f
      BY <1>1, <1>2, <1>11, <2>1
    <3> QED
      BY <1>12, <1>13, <3>1
  <2>2. CASE i > p - f /\ i <= p1
    <3>1. k = 1 /\ i = (p - f) + 1 /\ s >= 1
      BY <1>1, <1>2, <1>11, <2>2
    <3>2. i \in 1 .. n_miss - f /\ i + f \in 1 .. n_miss /\ ~(i + f <= p) /\ (i + f) - p = 1
      BY <1>1, <1>2, <1>11, <3>1
    <3> QED
      BY <1>12, <1>13, <2>2, <3>1, <3>2
  <2>3. CASE i > p1 /\ i <= n_miss - f
    <3>1. /\ i \in 1 .. n_miss - f /\ i + f \in 1 .. n_miss /\ ~(i + f <= p)
          /\ i - p1 \in 1 .. s - k /\ (i - p1) + k = (i + f) - p
      BY <1>1, <1>2, <1>11, <2>3
    <3>2. Missed'[i].addr = mem_req_reg[(i + f) - p]
      BY <1>12, <1>13, <3>1
    <3>3. mem_req_reg'[i - p1] = mem_req_reg[(i - p1) + k]
      BY <1>12, <3>1
    <3>4. ~(i <= p1)
      BY <1>11, <2>3
    <3> QED
      BY <3>1, <3>2, <3>3, <3>4
  <2>4. CASE i > n_miss - f
    <3>1. m = 1 /\ i = (n_miss - f) + 1 /\ ~(i <= p1) /\ i - p1 = (s - k) + 1
      BY <1>1, <1>2, <1>11, <1>14, <2>4
    <3> QED
      BY <1>12, <3>1
  <2> QED
    BY <1>1, <1>2, <1>11, <2>1, <2>2, <2>3, <2>4
<1>16. ASSUME miss_fifo'.res = <<>> PROVE mem_pending' = <<>>
  <2>1. Missed' = Issued /\ n_miss' = m
    BY <1>9, <1>16, MissMoves, Lengths DEF Issued, miss_issued, m, Num
  <2>2. p1 = 0
    BY <1>1, <1>2, <1>9, <1>11, <2>1
  <2> QED
    BY <1>11, <2>2 DEF p1
<1>17. AtMostOneOf(Word, mem_res')
  <2>1. CASE mem_res' = <<>>
    BY <2>1 DEF AtMostOneOf
  <2>2. CASE mem_res' # <<>>
    <3>1. mem_res' = <<Head(mem_pending')>> /\ mem_pending' # <<>> /\ mem_pending' \in Seq(Word)
      BY <1>8, <1>11, <2>2
    <3>2. Head(mem_pending') \in Word
      BY <3>1
    <3> QED
      BY <3>1, <3>2 DEF AtMostOneOf
  <2> QED
    BY <2>1, <2>2
<1>18. mem_res' # <<>> => mem_pending' # <<>> /\ mem_res' = <<mem_pending'[1]>>
  <2>1. mem_pending' # <<>> => Head(mem_pending') = mem_pending'[1]
    BY <1>11
  <2> QED
    BY <1>8, <2>1
<1>19. Misses'
  BY <1>18, <1>14, <1>15, <1>16 DEF Misses, ToMemory, p1, s1
<1> QED
  BY <1>6, <1>11, <1>17, <1>19

(* How an edge moves the lookups: into the miss register unless they hit, or *)
(* nowhere while a miss is stuck in it.                                      *)
Same(x, y)  == x.addr = y.addr /\ x.idx = y.idx
New(x, req) == x.addr = req[1] /\ x.idx = rob_wr_addr

LEMMA PipeStep ==
    ASSUME CacheInv, NEW req \in Requests, NEW mem_rdy \in BOOLEAN, CacheEdge(req, mem_rdy)
    PROVE  LET a == Num(Accepted(req) # <<>>)
               h == Num(cache_hit)
               Follows == /\ Len(res') = Len(bram) /\ (bram # <<>> => Same(res'[1], bram[1]))
                          /\ Len(bram') = a /\ (a = 1 => New(bram'[1], req))
           IN  \/ /\ Num(miss_issued) = Len(mem_req)
                  /\ Len(mem_req') = Len(res) - h /\ (Len(res) - h = 1 => Same(mem_req'[1], res[1]))
                  /\ Follows
               \/ /\ ~miss_issued /\ h = 0 /\ mem_req' = mem_req
                  /\ \/ res = <<>> /\ Follows
                     \/ /\ res # <<>> /\ res' = res
                        /\ Len(bram') = Len(bram) + a
                        /\ bram # <<>> => a = 0 /\ Same(bram'[1], bram[1])
                        /\ a = 1 => New(bram'[1], req)
<1> DEFINE acc == Accepted(req) # <<>>
           a == Num(acc)
           h == Num(cache_hit)
           Follows == /\ Len(res') = Len(bram) /\ (bram # <<>> => Same(res'[1], bram[1]))
                      /\ Len(bram') = a /\ (a = 1 => New(bram'[1], req))
<1>1. /\ bram' = IF acc THEN <<Lookup(req[1])>>
                 ELSE IF lookup_tready THEN <<>>
                 ELSE IF req # <<>> /\ bram # <<>> THEN <<[bram[1] EXCEPT !.cell = ram[line(bram[1].addr)]]>>
                 ELSE bram
      /\ res' = IF bram # <<>> /\ lookup_tready
                THEN <<[addr |-> bram[1].addr, vld |-> bram[1].vld, idx |-> bram[1].idx,
                        cell |-> IF bram[1].byp # <<>> THEN bram[1].byp[1] ELSE bram[1].cell]>>
                ELSE IF cache_tready THEN <<>>
                ELSE res
      /\ mem_req' = IF looked_up
                    THEN IF hit(res[1]) THEN <<>> ELSE <<[addr |-> res[1].addr, idx |-> res[1].idx]>>
                    ELSE IF mem_req_tready THEN <<>>
                    ELSE mem_req
  BY DEF CacheEdge, RamPort, MissPath
<1>2. /\ Len(bram) = Num(bram # <<>>) /\ Len(res) = Num(res # <<>>) /\ Len(mem_req) = Num(mem_req # <<>>)
      /\ bram # <<>> => bram[1] \in Lookups /\ bram = <<bram[1]>>
  BY Lengths
<1>3. acc => cpu_req_tready
  BY Asks
<1>4. acc \in BOOLEAN /\ cache_hit \in BOOLEAN
  BY DEF cache_hit, looked_up
<1> HIDE DEF acc
<1>5. a = (IF acc THEN 1 ELSE 0) /\ h = (IF cache_hit THEN 1 ELSE 0)
  BY DEF Num
<1> HIDE DEF a, h
<1>6. ASSUME lookup_tready
      PROVE  Follows
  <2>1. Len(res') = Len(bram)
    <3>1. CASE bram # <<>>
      BY <1>1, <1>2, <1>6, <3>1 DEF Num
    <3>2. CASE bram = <<>>
      BY <1>1, <1>2, <1>6, <3>2 DEF Num, lookup_tready
    <3> QED
      BY <3>1, <3>2
  <2>2. bram # <<>> => Same(res'[1], bram[1])
    BY <1>1, <1>6 DEF Same
  <2>3. Len(bram') = a /\ (a = 1 => New(bram'[1], req))
    BY <1>1, <1>4, <1>5, <1>6 DEF New, Lookup
  <2> QED
    BY <2>1, <2>2, <2>3
<1>7. CASE cache_tready
  <2>1. lookup_tready /\ Num(miss_issued) = Len(mem_req)
    BY <1>2, <1>7 DEF lookup_tready, cache_tready, miss_issued, Num
  <2>2. CASE res = <<>>
    <3>1. h = 0 /\ Len(res) = 0 /\ ~looked_up
      BY <1>2, <1>5, <2>2 DEF cache_hit, looked_up, Num
    <3>2. mem_req' = <<>>
      BY <1>1, <1>7, <3>1 DEF cache_tready
    <3> QED
      BY <1>6, <2>1, <3>1, <3>2 DEF a, h, acc
  <2>3. CASE res # <<>>
    <3>1. looked_up /\ Len(res) = 1 /\ h = (IF hit(res[1]) THEN 1 ELSE 0)
      BY <1>2, <1>5, <1>7, <2>3 DEF cache_hit, looked_up, Num
    <3>2. Len(mem_req') = Len(res) - h /\ (Len(res) - h = 1 => Same(mem_req'[1], res[1]))
      <4>1. CASE hit(res[1])
        BY <1>1, <3>1, <4>1
      <4>2. CASE ~hit(res[1])
        BY <1>1, <3>1, <4>2 DEF Same
      <4> QED
        BY <4>1, <4>2
    <3> QED
      BY <1>6, <2>1, <3>2 DEF a, h, acc
  <2> QED
    BY <2>2, <2>3
<1>8. CASE ~cache_tready
  <2>1. ~miss_issued /\ h = 0 /\ mem_req' = mem_req
    BY <1>1, <1>5, <1>8 DEF cache_tready, miss_issued, cache_hit, looked_up
  <2>2. CASE res = <<>>
    BY <1>6, <2>1, <2>2 DEF lookup_tready, a, h, acc
  <2>3. CASE res # <<>>
    <3>1. ~lookup_tready /\ (acc => bram = <<>>)
      BY <1>3, <1>8, <2>3 DEF lookup_tready, cpu_req_tready
    <3>2. res' = res
      BY <1>1, <1>8, <3>1
    <3>3. CASE acc
      <4>1. a = 1 /\ bram = <<>> /\ Len(bram) = 0 /\ bram' = <<Lookup(req[1])>>
        BY <1>1, <1>2, <1>5, <3>1, <3>3 DEF Num
      <4>2. Len(bram') = 1 /\ New(bram'[1], req)
        BY <4>1 DEF New, Lookup
      <4> QED
        BY <2>1, <2>3, <3>2, <4>1, <4>2 DEF a, h, acc
    <3>4. CASE ~acc
      <4>1. a = 0
        BY <1>5, <3>4
      <4>2. Len(bram') = Len(bram) /\ (bram # <<>> => Same(bram'[1], bram[1]))
        <5>1. CASE req # <<>> /\ bram # <<>>
          <6>1. bram' = <<[bram[1] EXCEPT !.cell = ram[line(bram[1].addr)]]>>
            BY <1>1, <3>1, <3>4, <5>1
          <6>2. Len(bram') = 1 /\ Len(bram) = 1
            BY <1>2, <5>1, <6>1 DEF Num
          <6>3. Same(bram'[1], bram[1])
            BY <1>2, <5>1, <6>1 DEF Same, Lookups
          <6> QED
            BY <6>2, <6>3
        <5>2. CASE ~(req # <<>> /\ bram # <<>>)
          BY <1>1, <3>1, <3>4, <5>2 DEF Same
        <5> QED
          BY <5>1, <5>2
      <4>3. Len(bram) + 0 = Len(bram)
        BY <1>2 DEF Num
      <4> QED
        BY <2>1, <2>3, <3>2, <4>1, <4>2, <4>3 DEF a, h, acc
    <3> QED
      BY <3>3, <3>4
  <2> QED
    BY <2>2, <2>3
<1> QED
  BY <1>7, <1>8

(* Where the i-th lookup or miss was before the edge: the oldest leaves with *)
(* its word, and the one that hits leaves from among the others.             *)
Gone(i)   == IF cache_hit /\ i + Num(fill # <<>>) >= n_res THEN 1 ELSE 0
Before(i) == (i + Num(fill # <<>>)) + Gone(i)
n_stay    == (n_all - Num(fill # <<>>)) - Num(cache_hit)

LEMMA ItemStep ==
    ASSUME CacheInv, NEW req \in Requests, NEW mem_rdy \in BOOLEAN, CacheEdge(req, mem_rdy)
    PROVE  /\ n_all' = n_stay + Num(Accepted(req) # <<>>) /\ n_stay \in Nat
           /\ \A i \in 1 .. n_stay : Before(i) \in 1 .. n_all /\ Same(Item(i)', Item(Before(i)))
           /\ Accepted(req) # <<>> => New(Item(n_all)', req)
<1> DEFINE a == Num(Accepted(req) # <<>>)
           h == Num(cache_hit)
           f == Num(fill # <<>>)
           q == Len(mem_req)
           r == Len(res)
           b == Len(bram)
           n == n_miss
           m == Num(miss_issued)
           q1 == Len(mem_req')
           r1 == Len(res')
           b1 == Len(bram')
           n1 == n_miss'
<1>1. /\ n \in Nat /\ f \in {0, 1} /\ (f = 1 => n > 0) /\ h \in {0, 1} /\ (h = 1 => r = 1)
      /\ q \in {0, 1} /\ r \in {0, 1} /\ b \in {0, 1} /\ a \in {0, 1} /\ m \in {0, 1}
      /\ (q = 1 <=> mem_req # <<>>) /\ (b = 1 <=> bram # <<>>) /\ (r = 1 <=> res # <<>>)
      /\ (a = 1 <=> Accepted(req) # <<>>) /\ (m = 1 <=> miss_issued) /\ (h = 1 <=> cache_hit)
  <2>1. /\ n \in Nat /\ q \in {0, 1} /\ r \in {0, 1} /\ b \in {0, 1}
        /\ (q = 1 <=> mem_req # <<>>) /\ (b = 1 <=> bram # <<>>) /\ (r = 1 <=> res # <<>>)
    BY Lengths
  <2>2. f \in {0, 1} /\ (f = 1 => n > 0)
    BY FillFound DEF Num
  <2>3. h \in {0, 1} /\ (h = 1 <=> cache_hit)
    BY DEF Num
  <2>4. h = 1 => r = 1
    BY <2>1, <2>3 DEF cache_hit, looked_up
  <2>5. /\ a \in {0, 1} /\ m \in {0, 1}
        /\ (a = 1 <=> Accepted(req) # <<>>) /\ (m = 1 <=> miss_issued)
    BY DEF Num
  <2> QED
    BY <2>1, <2>2, <2>3, <2>4, <2>5
<1>2. /\ n1 = (n - f) + m
      /\ \A i \in 1 .. n - f : Missed'[i] = Missed[i + f]
      /\ m = 1 => Missed'[(n - f) + 1] = mem_req[1]
  BY MissMoves DEF MovedOn, Issued, n_miss, miss_issued, Num
<1>3. LET Follows == /\ r1 = b /\ (bram # <<>> => Same(res'[1], bram[1]))
                     /\ b1 = a /\ (a = 1 => New(bram'[1], req))
      IN  \/ /\ m = q /\ q1 = r - h /\ (r - h = 1 => Same(mem_req'[1], res[1])) /\ Follows
          \/ /\ ~miss_issued /\ h = 0 /\ mem_req' = mem_req
             /\ \/ res = <<>> /\ Follows
                \/ /\ res # <<>> /\ res' = res /\ b1 = b + a
                   /\ bram # <<>> => a = 0 /\ Same(bram'[1], bram[1])
                   /\ a = 1 => New(bram'[1], req)
  BY PipeStep
<1>4. mem_req' = mem_req => q1 = q
  OBVIOUS
<1>5. res' = res => r1 = r
  OBVIOUS
<1>6. n_req = n + q /\ n_res = (n + q) + r /\ n_all = ((n + q) + r) + b
      /\ n_req' = n1 + q1 /\ n_res' = (n1 + q1) + r1 /\ n_all' = ((n1 + q1) + r1) + b1
  BY DEF n_req, n_res, n_all
<1>7. \A i : Item(i) = IF i <= n THEN Missed[i] ELSE IF i <= n + q THEN mem_req[1]
                       ELSE IF i <= (n + q) + r THEN res[1] ELSE bram[1]
  BY <1>6 DEF Item
<1>8. \A i : Item(i)' = IF i <= n1 THEN Missed'[i] ELSE IF i <= n1 + q1 THEN mem_req'[1]
                        ELSE IF i <= (n1 + q1) + r1 THEN res'[1] ELSE bram'[1]
  BY <1>6 DEF Item
<1>9. n_stay = ((((n + q) + r) + b) - f) - h
  BY <1>6 DEF n_stay
<1>10. \A i \in Nat : Before(i) = IF h = 1 /\ i + f >= (n + q) + r THEN (i + f) + 1 ELSE i + f
  BY <1>1, <1>6 DEF Before, Gone
<1>11. \A x, y : x = y => Same(x, y)
  BY DEF Same
<1> HIDE DEF a, h, f, q, r, b, n, m, q1, r1, b1, n1
<1>12. n_stay \in Nat /\ \A i \in 1 .. n_stay : Before(i) \in 1 .. n_all
  <2>1. n_stay \in Nat
    BY <1>1, <1>9
  <2>2. ASSUME NEW i \in 1 .. n_stay PROVE Before(i) \in 1 .. n_all
    BY <1>1, <1>6, <1>9, <1>10, <2>1
  <2> QED
    BY <2>1, <2>2
<1>12a. /\ n1 = (n - f) + m /\ n_all' = ((n1 + q1) + r1) + b1
       /\ n_stay = ((((n + q) + r) + b) - f) - h
       /\ n \in Nat /\ f \in {0, 1} /\ h \in {0, 1} /\ q \in {0, 1} /\ r \in {0, 1} /\ b \in {0, 1} /\ a \in {0, 1}
       /\ m \in {0, 1} /\ (res = <<>> => r = 0) /\ (~miss_issued => m = 0)
  BY <1>1, <1>2, <1>6, <1>9
<1>13. CASE /\ m = q /\ q1 = r - h /\ (r - h = 1 => Same(mem_req'[1], res[1]))
            /\ r1 = b /\ (bram # <<>> => Same(res'[1], bram[1]))
            /\ b1 = a /\ (a = 1 => New(bram'[1], req))
  <2>1. n1 = (n - f) + q /\ n1 + q1 = (((n - f) + q) + r) - h /\ (n1 + q1) + r1 = n_stay
        /\ n_all' = n_stay + a
    BY <1>13, <1>12a
  <2>2. ASSUME NEW i \in 1 .. n_stay PROVE Same(Item(i)', Item(Before(i)))
    <3>1. i \in Nat /\ i >= 1 /\ i <= n_stay
      BY <1>12
    <3>2. CASE i <= n - f
      <4>1. Before(i) = i + f /\ i + f <= n /\ i <= n1 /\ i \in 1 .. n - f
        BY <1>1, <1>10, <2>1, <3>1, <3>2
      <4> QED
        BY <1>2, <1>7, <1>8, <1>11, <4>1
    <3>3. CASE i > n - f /\ i <= n1
      <4>1. q = 1 /\ i = (n - f) + 1 /\ Before(i) = n + 1 /\ i <= n1 /\ ~(n + 1 <= n) /\ n + 1 <= n + q
        BY <1>1, <1>10, <2>1, <3>1, <3>3
      <4> QED
        BY <1>2, <1>7, <1>8, <1>11, <1>13, <4>1
    <3>4. CASE i > n1 /\ i <= n1 + q1
      <4>1. /\ r - h = 1 /\ Before(i) <= (n + q) + r /\ ~(i <= n1)
            /\ ~(Before(i) <= n) /\ ~(Before(i) <= n + q)
        BY <1>1, <1>10, <2>1, <3>1, <3>4
      <4>2. Item(i)' = mem_req'[1] /\ Item(Before(i)) = res[1]
        BY <1>7, <1>8, <3>4, <4>1
      <4> QED
        BY <1>13, <4>1, <4>2
    <3>5. CASE i > n1 + q1
      <4>1. /\ b = 1 /\ Before(i) = ((n + q) + r) + 1 /\ ~(i <= n1) /\ ~(i <= n1 + q1) /\ i <= (n1 + q1) + r1
            /\ ~(((n + q) + r) + 1 <= n) /\ ~(((n + q) + r) + 1 <= n + q) /\ ~(((n + q) + r) + 1 <= (n + q) + r)
        BY <1>1, <1>9, <1>10, <2>1, <3>1, <3>5
      <4>2. Item(i)' = res'[1] /\ Item(Before(i)) = bram[1]
        BY <1>7, <1>8, <4>1
      <4> QED
        BY <1>1, <1>13, <4>1, <4>2
    <3> QED
      BY <1>1, <2>1, <3>1, <3>2, <3>3, <3>4, <3>5
  <2>3. ASSUME a = 1 PROVE New(Item(n_all)', req)
    <3>1. /\ ~(n_all' <= n1) /\ ~(n_all' <= n1 + q1) /\ ~(n_all' <= (n1 + q1) + r1)
      BY <1>1, <1>12, <1>13, <2>1, <2>3
    <3>2. Item(n_all)' = bram'[1]
      BY <1>6, <3>1 DEF Item, n1
    <3> QED
      BY <1>13, <2>3, <3>2
  <2> QED
    BY <1>1, <1>12, <2>1, <2>2, <2>3 DEF a
<1>14. CASE /\ ~miss_issued /\ h = 0 /\ mem_req' = mem_req /\ res = <<>>
            /\ r1 = b /\ (bram # <<>> => Same(res'[1], bram[1]))
            /\ b1 = a /\ (a = 1 => New(bram'[1], req))
  <2>1. n1 = n - f /\ q1 = q /\ n1 + q1 = (n - f) + q /\ (n1 + q1) + r1 = n_stay
        /\ n_all' = n_stay + a
    BY <1>4, <1>14, <1>12a
  <2>2. ASSUME NEW i \in 1 .. n_stay PROVE Same(Item(i)', Item(Before(i)))
    <3>1. i \in Nat /\ i >= 1 /\ i <= n_stay /\ Before(i) = i + f
      BY <1>10, <1>12, <1>14
    <3>2. CASE i <= n - f
      <4>1. i + f <= n /\ i <= n1 /\ i \in 1 .. n - f
        BY <1>1, <2>1, <3>1, <3>2
      <4> QED
        BY <1>2, <1>7, <1>8, <1>11, <3>1, <4>1
    <3>3. CASE i > n - f /\ i <= n1 + q1
      <4>1. ~(i <= n1) /\ ~(i + f <= n) /\ i + f <= n + q
        BY <1>1, <2>1, <3>1, <3>3
      <4>2. Item(i)' = mem_req'[1] /\ Item(Before(i)) = mem_req[1]
        BY <1>7, <1>8, <3>1, <3>3, <4>1
      <4> QED
        BY <1>11, <1>14, <4>2
    <3>4. CASE i > n1 + q1
      <4>1. /\ b = 1 /\ ~(i <= n1) /\ ~(i <= n1 + q1) /\ i <= (n1 + q1) + r1
            /\ ~(i + f <= n) /\ ~(i + f <= n + q) /\ ~(i + f <= (n + q) + r)
        BY <1>1, <1>9, <1>14, <2>1, <3>1, <3>4
      <4>2. Item(i)' = res'[1] /\ Item(Before(i)) = bram[1]
        BY <1>7, <1>8, <3>1, <4>1
      <4> QED
        BY <1>1, <1>14, <4>1, <4>2
    <3> QED
      BY <1>1, <2>1, <3>1, <3>2, <3>3, <3>4
  <2>3. ASSUME a = 1 PROVE New(Item(n_all)', req)
    <3>1. /\ ~(n_all' <= n1) /\ ~(n_all' <= n1 + q1) /\ ~(n_all' <= (n1 + q1) + r1)
      BY <1>1, <1>12, <1>14, <2>1, <2>3
    <3>2. Item(n_all)' = bram'[1]
      BY <1>6, <3>1 DEF Item, n1
    <3> QED
      BY <1>14, <2>3, <3>2
  <2> QED
    BY <1>1, <1>12, <2>1, <2>2, <2>3 DEF a
<1>15. CASE /\ ~miss_issued /\ h = 0 /\ mem_req' = mem_req /\ res # <<>> /\ res' = res /\ b1 = b + a
            /\ bram # <<>> => a = 0 /\ Same(bram'[1], bram[1])
            /\ a = 1 => New(bram'[1], req)
  <2>1. n1 = n - f /\ q1 = q /\ r1 = r /\ n1 + q1 = (n - f) + q /\ (n1 + q1) + r1 = ((n - f) + q) + r
        /\ n_all' = n_stay + a /\ n_stay = (((n - f) + q) + r) + b
    BY <1>4, <1>5, <1>15, <1>12a
  <2>2. ASSUME NEW i \in 1 .. n_stay PROVE Same(Item(i)', Item(Before(i)))
    <3>1. i \in Nat /\ i >= 1 /\ i <= n_stay /\ Before(i) = i + f
      BY <1>10, <1>12, <1>15
    <3>2. CASE i <= n - f
      <4>1. i + f <= n /\ i <= n1 /\ i \in 1 .. n - f
        BY <1>1, <2>1, <3>1, <3>2
      <4> QED
        BY <1>2, <1>7, <1>8, <1>11, <3>1, <4>1
    <3>3. CASE i > n - f /\ i <= n1 + q1
      <4>1. ~(i <= n1) /\ ~(i + f <= n) /\ i + f <= n + q
        BY <1>1, <2>1, <3>1, <3>3
      <4>2. Item(i)' = mem_req'[1] /\ Item(Before(i)) = mem_req[1]
        BY <1>7, <1>8, <3>1, <3>3, <4>1
      <4> QED
        BY <1>11, <1>15, <4>2
    <3>4. CASE i > n1 + q1 /\ i <= (n1 + q1) + r1
      <4>1. ~(i <= n1) /\ ~(i <= n1 + q1) /\ ~(i + f <= n) /\ ~(i + f <= n + q) /\ i + f <= (n + q) + r
        BY <1>1, <2>1, <3>1, <3>4
      <4>2. Item(i)' = res'[1] /\ Item(Before(i)) = res[1]
        BY <1>7, <1>8, <3>1, <3>4, <4>1
      <4> QED
        BY <1>11, <1>15, <4>2
    <3>5. CASE i > (n1 + q1) + r1
      <4>1. /\ b = 1 /\ ~(i <= n1) /\ ~(i <= n1 + q1) /\ ~(i <= (n1 + q1) + r1)
            /\ ~(i + f <= n) /\ ~(i + f <= n + q) /\ ~(i + f <= (n + q) + r)
        BY <1>1, <2>1, <3>1, <3>5
      <4>2. Item(i)' = bram'[1] /\ Item(Before(i)) = bram[1]
        BY <1>7, <1>8, <3>1, <4>1
      <4> QED
        BY <1>1, <1>15, <4>1, <4>2
    <3> QED
      BY <1>1, <2>1, <3>1, <3>2, <3>3, <3>4, <3>5
  <2>3. ASSUME a = 1 PROVE New(Item(n_all)', req)
    <3>1. b = 0
      BY <1>1, <1>15, <2>3
    <3>2. /\ ~(n_all' <= n1) /\ ~(n_all' <= n1 + q1) /\ ~(n_all' <= (n1 + q1) + r1)
      BY <1>1, <1>12, <2>1, <2>3, <3>1
    <3>3. Item(n_all)' = bram'[1]
      BY <1>6, <3>2 DEF Item, n1
    <3> QED
      BY <1>15, <2>3, <3>3
  <2> QED
    BY <1>1, <1>12, <2>1, <2>2, <2>3 DEF a
<1> QED
  BY <1>3, <1>13, <1>14, <1>15

(* The slots that stay in use: the word from memory and the word found each  *)
(* go to the slot of their own request.                                      *)
LEMMA SlotStep ==
    ASSUME CacheInv, NEW req \in Requests, NEW mem_rdy \in BOOLEAN, CacheEdge(req, mem_rdy)
    PROVE  /\ \A i \in RobSlots : Stays(i) =>
                 slot'[i] = IF fill # <<>> /\ Item(1).idx = i THEN <<Item(1).addr>>
                            ELSE IF cache_hit /\ Item(n_res).idx = i THEN <<Item(n_res).addr>>
                            ELSE slot[i]
           /\ Accepted(req) # <<>> => slot'[rob_wr_addr] = <<>>
           /\ slot' \in [RobSlots -> Maybe(Word)]
           /\ fill # <<>> => 1 \in 1 .. n_all
           /\ cache_hit => n_res \in 1 .. n_all
<1>1. slot' = [i \in RobSlots |-> SlotNext(i, req)] /\ rob_wr_addr \in RobSlots /\ slot \in [RobSlots -> Maybe(Word)]
  BY DEF CacheEdge, Rob, CacheInv, Shapes
<1>2. n_miss \in Nat /\ n_req = n_miss + Num(mem_req # <<>>) /\ n_res = n_req + Num(res # <<>>)
      /\ n_all = n_res + Num(bram # <<>>)
  BY Lengths DEF n_req, n_res, n_all
<1>3. ASSUME fill # <<>>
      PROVE  /\ fill[1] = Item(1) /\ mem_res = <<Item(1).addr>> /\ Item(1).addr \in Word /\ 1 \in 1 .. n_all
  <2>1. n_miss > 0 /\ fill[1] = Missed[1] /\ mem_res = <<Missed[1].addr>> /\ Missed[1] \in Miss
    BY <1>3, FillFound
  <2>2. Item(1) = Missed[1] /\ n_all >= 1 /\ n_all \in Nat
    BY <1>2, <2>1 DEF Item, Num
  <2> QED
    BY <2>1, <2>2 DEF Miss
<1>4. ASSUME cache_hit
      PROVE  /\ res[1] = Item(n_res) /\ res[1].cell.word = Item(n_res).addr /\ Item(n_res).addr \in Word
             /\ n_res \in 1 .. n_all
  <2>1. res # <<>> /\ res[1].cell.word = res[1].addr /\ res[1] \in Founds
    BY <1>4, HitFound, Lengths
  <2>2. n_res = n_req + 1 /\ n_req \in Nat /\ n_req >= n_miss /\ n_all >= n_res /\ n_all \in Nat
    BY <1>2, <2>1 DEF Num
  <2>3. Item(n_res) = res[1] /\ n_res \in 1 .. n_all
    BY <1>2, <2>2 DEF Item
  <2> QED
    BY <2>1, <2>3 DEF Founds
<1>5. \A i \in RobSlots : slot'[i] = IF reserved(i, req) THEN <<>>
                                  ELSE IF fill # <<>> /\ Item(1).idx = i THEN <<Item(1).addr>>
                                  ELSE IF cache_hit /\ Item(n_res).idx = i THEN <<Item(n_res).addr>>
                                  ELSE slot[i]
  BY <1>1, <1>3, <1>4 DEF SlotNext
<1>6. \A i \in RobSlots : Stays(i) => ~reserved(i, req)
  BY PlacesStep DEF reserved
<1>7. Accepted(req) # <<>> => slot'[rob_wr_addr] = <<>>
  BY <1>1, <1>5, Asks DEF reserved
<1>8. ASSUME NEW i \in RobSlots PROVE slot'[i] \in Maybe(Word)
  BY <1>1, <1>3, <1>4, <1>5 DEF Maybe
<1>9. slot' \in [RobSlots -> Maybe(Word)]
  BY <1>1, <1>8
<1> QED
  BY <1>3, <1>4, <1>5, <1>6, <1>7, <1>9

(* What an item keeps: its slot stays, and no other item has it.             *)
LEMMA Apart ==
    ASSUME CacheInv
    PROVE  /\ \A i \in 1 .. n_all : /\ Item(i).idx \in RobSlots /\ Stays(Item(i).idx)
                                    /\ Place(i) \in 1 .. rob_fifo_cnt
           /\ \A i, j \in 1 .. n_all : Item(i).idx = Item(j).idx => i = j
<1>1. n_all \in Nat /\ rob_rd_addr \in RobSlots /\ rob_fifo_cnt \in Nat
  <2>1. n_all \in Nat
    BY Lengths DEF n_req, n_res, n_all, Num
  <2>2. rob_rd_addr \in RobSlots /\ rob_fifo_cnt \in Nat
    BY DEF CacheInv, Shapes, CacheCounters
  <2> QED
    BY <2>1, <2>2
<1>2. ASSUME NEW i \in 1 .. n_all
      PROVE  Item(i).idx \in RobSlots /\ Stays(Item(i).idx) /\ Place(i) \in 1 .. rob_fifo_cnt
  <2>1. Item(i).idx \in RobSlots /\ Place(i) <= rob_fifo_cnt /\ slot[Item(i).idx] = <<>>
    BY DEF CacheInv, Flight
  <2>2. Pos(rob_rd_addr, Item(i).idx) \in 1 .. ROB_SIZE
    BY <1>1, <2>1, PosFacts
  <2>3. Place(i) \in 1 .. rob_fifo_cnt /\ Live(Item(i).idx)
    BY <1>1, <2>1, <2>2, Constants DEF Place, Live
  <2> QED
    BY <2>1, <2>3 DEF Stays, rob_taken
<1>3. ASSUME NEW i \in 1 .. n_all, NEW j \in 1 .. n_all, Item(i).idx = Item(j).idx
      PROVE  i = j
  <2>1. Place(i) = Place(j)
    BY <1>3 DEF Place
  <2>2. \A x, y \in 1 .. n_all : x < y => Place(y) - Place(x) >= y - x
    BY DEF CacheInv, Flight
  <2>3. Place(i) \in Nat /\ Place(j) \in Nat
    BY <1>2
  <2> QED
    BY <1>1, <2>1, <2>2, <2>3
<1> QED
  BY <1>2, <1>3

LEMMA FlightStep ==
    ASSUME CacheInv, NEW req \in Requests, NEW mem_rdy \in BOOLEAN, CacheEdge(req, mem_rdy)
    PROVE  Flight' /\ SlotsHold' /\ slot' \in [RobSlots -> Maybe(Word)]
<1> DEFINE a == Accepted(req) # <<>>
           f == Num(fill # <<>>)
           h == Num(cache_hit)
           t == Num(rob_taken)
<1>1. /\ a \in BOOLEAN /\ f \in {0, 1} /\ h \in {0, 1} /\ t \in {0, 1} /\ n_all \in Nat /\ rob_fifo_cnt \in Nat
      /\ (f = 1 <=> fill # <<>>) /\ (h = 1 <=> cache_hit) /\ n_stay \in Nat /\ n_stay = (n_all - f) - h
      /\ n_all' = n_stay + Num(a) /\ rob_wr_addr \in RobSlots /\ rob_rd_addr \in RobSlots /\ n_res \in Nat
  <2>1. n_all \in Nat /\ n_res \in Nat
    BY Lengths DEF n_req, n_res, n_all, Num
  <2>2. n_all' = n_stay + Num(a) /\ n_stay \in Nat
    BY ItemStep
  <2> QED
    BY <2>1, <2>2 DEF Num, n_stay, CacheInv, CacheCounters, Shapes, cache_hit, looked_up, hit
<1>2. Num(a) = IF a THEN 1 ELSE 0
  BY DEF Num
<1>3. \A i \in 1 .. n_stay : /\ Before(i) \in 1 .. n_all
                             /\ Item(i)'.addr = Item(Before(i)).addr /\ Item(i)'.idx = Item(Before(i)).idx
  BY ItemStep DEF Same
<1>4. a => Item(n_all)'.addr = Accepted(req)[1] /\ Item(n_all)'.idx = rob_wr_addr
  BY ItemStep, Asks DEF New
<1>5. \A i \in 1 .. n_stay : Before(i) = IF h = 1 /\ i + f >= n_res THEN (i + f) + 1 ELSE i + f
  BY <1>1 DEF Before, Gone
<1>6. /\ \A i \in RobSlots : Stays(i) =>
            /\ i # rob_wr_addr /\ NewPos(i) = Pos(rob_rd_addr, i) - t /\ NewPos(i) <= rob_fifo_cnt'
            /\ NewWanted(NewPos(i)) = Wanted(Pos(rob_rd_addr, i))
      /\ \A i \in RobSlots : NewPos(i) <= rob_fifo_cnt' => Stays(i) \/ (a /\ i = rob_wr_addr)
      /\ a => NewPos(rob_wr_addr) = rob_fifo_cnt' /\ NewWanted(rob_fifo_cnt') = Accepted(req)[1]
  BY PlacesStep
<1>7. /\ \A i \in RobSlots : Stays(i) =>
            slot'[i] = IF fill # <<>> /\ Item(1).idx = i THEN <<Item(1).addr>>
                       ELSE IF cache_hit /\ Item(n_res).idx = i THEN <<Item(n_res).addr>>
                       ELSE slot[i]
      /\ a => slot'[rob_wr_addr] = <<>>
      /\ slot' \in [RobSlots -> Maybe(Word)]
      /\ fill # <<>> => 1 \in 1 .. n_all
      /\ cache_hit => n_res \in 1 .. n_all
  BY SlotStep
<1>8. rob_fifo_cnt' = (rob_fifo_cnt + Num(a)) - t
  BY CountersStep
<1> HIDE DEF a, f, h, t
<1>9. ASSUME NEW i \in 1 .. n_stay
      PROVE  /\ Item(i)'.idx \in RobSlots /\ Place(i)' <= rob_fifo_cnt' /\ slot'[Item(i)'.idx] = <<>>
             /\ Item(i)'.addr = NewWanted(Place(i)') /\ Place(i)' = Place(Before(i)) - t
  <2> DEFINE g == Before(i)
             x == Item(g).idx
  <2>1. g \in 1 .. n_all /\ Item(i)'.idx = x /\ Item(i)'.addr = Item(g).addr
    BY <1>3
  <2>2. (fill # <<>> => g # 1) /\ (cache_hit => g # n_res)
    BY <1>1, <1>5
  <2> HIDE DEF g
  <2>3. x \in RobSlots /\ Stays(x)
    BY <2>1, Apart
  <2>4. slot[x] = <<>> /\ Item(g).addr = Wanted(Pos(rob_rd_addr, x))
    BY <2>1 DEF CacheInv, Flight, Place
  <2>5. (fill # <<>> => Item(1).idx # x) /\ (cache_hit => Item(n_res).idx # x)
    BY <1>7, <2>1, <2>2, Apart
  <2>6. slot'[x] = <<>>
    BY <1>7, <2>3, <2>4, <2>5
  <2>7. Place(i)' = NewPos(x) /\ Place(g) = Pos(rob_rd_addr, x)
    BY <2>1 DEF Place, NewPos
  <2> QED
    BY <1>6, <2>1, <2>3, <2>4, <2>6, <2>7 DEF g
<1>10. ASSUME a
       PROVE  /\ Item(n_all)'.idx \in RobSlots /\ Place(n_all)' = rob_fifo_cnt' /\ slot'[Item(n_all)'.idx] = <<>>
              /\ Item(n_all)'.addr = NewWanted(Place(n_all)')
  <2>1. Item(n_all)'.idx = rob_wr_addr /\ Place(n_all)' = NewPos(rob_wr_addr)
    BY <1>4, <1>10 DEF Place, NewPos
  <2> QED
    BY <1>1, <1>4, <1>6, <1>7, <1>10, <2>1
<1>11. \A i \in 1 .. n_all' : i \in 1 .. n_stay \/ (a /\ i = n_all' /\ n_all' = n_stay + 1)
  BY <1>1, <1>2
<1>12. \A i \in 1 .. n_all' :
          /\ Item(i)'.idx \in RobSlots /\ Place(i)' <= rob_fifo_cnt' /\ slot'[Item(i)'.idx] = <<>>
          /\ Item(i)'.addr = NewWanted(Place(i)')
  <2> SUFFICES ASSUME NEW i \in 1 .. n_all'
               PROVE  /\ Item(i)'.idx \in RobSlots /\ Place(i)' <= rob_fifo_cnt' /\ slot'[Item(i)'.idx] = <<>>
                      /\ Item(i)'.addr = NewWanted(Place(i)')
    OBVIOUS
  <2>1. CASE i \in 1 .. n_stay
    BY <1>9, <2>1
  <2>2. CASE a /\ i = n_all'
    <3>1. Item(i)' = Item(n_all)' /\ Place(i)' = Place(n_all)'
      BY <2>2 DEF Place, Item
    <3>2. rob_fifo_cnt' \in Int
      BY <1>1, <1>2, <1>8
    <3> QED
      BY <1>10, <2>2, <3>1, <3>2
  <2> QED
    BY <1>11, <2>1, <2>2
<1>13. ASSUME NEW i \in 1 .. n_stay, NEW j \in 1 .. n_stay, i < j
       PROVE  Place(j)' - Place(i)' >= j - i
  <2> DEFINE x == Before(i)
             y == Before(j)
             u == Place(x)
             v == Place(y)
  <2>1. x \in 1 .. n_all /\ y \in 1 .. n_all
    BY <1>3
  <2>2. x < y /\ y - x >= j - i
    BY <1>1, <1>5, <1>13
  <2> HIDE DEF x, y
  <2>3. u \in Nat /\ v \in Nat /\ v - u >= y - x
    <3>1. u \in 1 .. rob_fifo_cnt /\ v \in 1 .. rob_fifo_cnt
      BY <2>1, Apart
    <3>2. v - u >= y - x
      BY <2>1, <2>2 DEF CacheInv, Flight
    <3> QED
      BY <1>1, <3>1, <3>2
  <2>4. Place(i)' = u - t /\ Place(j)' = v - t
    BY <1>9 DEF x, y
  <2> HIDE DEF u, v
  <2>5. (v - t) - (u - t) >= j - i
    BY <1>1, <2>1, <2>2, <2>3
  <2> QED
    BY <2>4, <2>5
<1>14. ASSUME a, NEW i \in 1 .. n_stay
       PROVE  Place(n_all)' - Place(i)' >= n_all' - i
  <2> DEFINE x == Before(i)
             u == Place(x)
             v == Place(n_all)
  <2>1. x \in 1 .. n_all /\ x <= (i + f) + h
    BY <1>1, <1>3, <1>5
  <2> HIDE DEF x
  <2>2. u \in 1 .. rob_fifo_cnt /\ v \in 1 .. rob_fifo_cnt
    <3>1. n_all \in 1 .. n_all
      BY <1>1, <2>1
    <3> QED
      BY <2>1, <3>1, Apart
  <2>3. x < n_all => v - u >= n_all - x
    BY <1>1, <2>1 DEF CacheInv, Flight
  <2>4. Place(i)' = u - t
    BY <1>9 DEF x
  <2>5. Place(n_all)' = (rob_fifo_cnt + 1) - t /\ n_all' = ((n_all - f) - h) + 1
    BY <1>1, <1>2, <1>8, <1>10, <1>14
  <2>6. x = n_all => u = v
    OBVIOUS
  <2> HIDE DEF u, v
  <2>7. ((rob_fifo_cnt + 1) - t) - (u - t) >= (((n_all - f) - h) + 1) - i
    BY <1>1, <2>1, <2>2, <2>3, <2>6
  <2> QED
    BY <2>4, <2>5, <2>7
<1>15. \A i, j \in 1 .. n_all' : i < j => Place(j)' - Place(i)' >= j - i
  <2> SUFFICES ASSUME NEW i \in 1 .. n_all', NEW j \in 1 .. n_all', i < j
               PROVE  Place(j)' - Place(i)' >= j - i
    OBVIOUS
  <2>1. CASE j \in 1 .. n_stay
    <3>1. i \in 1 .. n_stay
      BY <1>1, <2>1
    <3> QED
      BY <1>13, <2>1, <3>1
  <2>2. CASE a /\ j = n_all' /\ n_all' = n_stay + 1
    <3>1. i \in 1 .. n_stay
      <4>1. i \in 1 .. n_stay + 1 /\ i < n_stay + 1
        BY <2>2
      <4> QED
        BY <1>1, <4>1
    <3>2. Place(j)' = Place(n_all)'
      BY <2>2 DEF Place, Item
    <3> QED
      BY <1>14, <2>2, <3>1, <3>2
  <2> QED
    BY <1>11, <2>1, <2>2
<1>16. Flight'
  BY <1>12, <1>15 DEF Flight, NewWanted, Wanted
<1>17. ASSUME NEW i \in RobSlots, NewPos(i) <= rob_fifo_cnt', slot'[i] # <<>>
       PROVE  slot'[i] = <<NewWanted(NewPos(i))>>
  <2>1. Stays(i)
    BY <1>6, <1>7, <1>17
  <2>2. NewWanted(NewPos(i)) = Wanted(Pos(rob_rd_addr, i))
    BY <1>6, <2>1
  <2>3. \A k \in 1 .. n_all : Item(k).idx = i => Item(k).addr = Wanted(Pos(rob_rd_addr, i))
    BY DEF CacheInv, Flight, Place
  <2>4. slot[i] # <<>> => slot[i] = <<Wanted(Pos(rob_rd_addr, i))>>
    BY <2>1 DEF CacheInv, SlotsHold, Stays
  <2> QED
    BY <1>7, <1>17, <2>1, <2>2, <2>3, <2>4
<1>18. SlotsHold'
  BY <1>17 DEF SlotsHold, Live, NewPos, NewWanted, Wanted
<1> QED
  BY <1>7, <1>16, <1>18

(* The cells, and what the lookups found in them.                            *)
LEMMA WordFacts ==
    ASSUME NEW x \in Word
    PROVE  /\ line(x) \in 0 .. LINES - 1 /\ Cell(x) \in CellSet /\ Holds(Cell(x), line(x))
<1>1. x \in Nat
  BY Constants
<1>2. \A y \in Nat : y % LINES \in 0 .. LINES - 1 /\ y \div LINES \in Nat
  BY Constants, Z3
<1> QED
  BY <1>1, <1>2 DEF line, tag, Cell, CellSet, Holds

LEMMA CellStep ==
    ASSUME CacheInv, NEW req \in Requests, NEW mem_rdy \in BOOLEAN, CacheEdge(req, mem_rdy)
    PROVE  /\ Cells' /\ cache_line_vld' \subseteq 0 .. LINES - 1 /\ ram' \in [0 .. LINES - 1 -> CellSet]
           /\ AtMostOneOf(Lookups, bram') /\ AtMostOneOf(Founds, res') /\ AtMostOneOf(Miss, mem_req')
<1> DEFINE wa == fill[1].addr
           found == [addr |-> bram[1].addr, vld |-> bram[1].vld, idx |-> bram[1].idx,
                     cell |-> IF bram[1].byp # <<>> THEN bram[1].byp[1] ELSE bram[1].cell]
           reread == [bram[1] EXCEPT !.cell = ram[line(bram[1].addr)]]
<1>1. /\ ram' = (IF fill # <<>> THEN [ram EXCEPT ![line(wa)] = written] ELSE ram)
      /\ cache_line_vld' = cache_line_vld \cup {line(fill[i].addr) : i \in DOMAIN fill}
      /\ bram' = (IF Accepted(req) # <<>> THEN <<Lookup(req[1])>>
                  ELSE IF lookup_tready THEN <<>>
                  ELSE IF req # <<>> /\ bram # <<>> THEN <<reread>> ELSE bram)
      /\ res' = (IF bram # <<>> /\ lookup_tready THEN <<found>> ELSE IF cache_tready THEN <<>> ELSE res)
      /\ mem_req' = (IF looked_up
                     THEN IF hit(res[1]) THEN <<>> ELSE <<[addr |-> res[1].addr, idx |-> res[1].idx]>>
                     ELSE IF mem_req_tready THEN <<>> ELSE mem_req)
  BY DEF CacheEdge, RamPort, MissPath
<1>2. /\ cache_line_vld \subseteq 0 .. LINES - 1 /\ ram \in [0 .. LINES - 1 -> CellSet]
      /\ AtMostOneOf(Lookups, bram) /\ AtMostOneOf(Founds, res) /\ AtMostOneOf(Miss, mem_req)
      /\ rob_wr_addr \in RobSlots
  BY DEF CacheInv, Shapes
<1>3. /\ bram # <<>> => bram[1] \in Lookups /\ bram = <<bram[1]>>
      /\ res # <<>> => res[1] \in Founds /\ res = <<res[1]>>
  BY Lengths
<1>4. ASSUME fill # <<>>
      PROVE  /\ wa \in Word /\ written = Cell(wa) /\ fill = <<fill[1]>>
  <2>1. fill = <<Missed[1]>> /\ fill[1] = Missed[1] /\ Missed[1] \in Miss /\ mem_res = <<Missed[1].addr>>
    BY <1>4, FillFound
  <2> QED
    BY <2>1 DEF Miss, written, Cell
<1>5. \A l \in cache_line_vld : Holds(ram[l], l)
  BY DEF CacheInv, Cells
<1>6. ASSUME bram # <<>>
      PROVE  /\ bram[1].vld => /\ line(bram[1].addr) \in cache_line_vld
                               /\ Holds(bram[1].cell, line(bram[1].addr))
             /\ bram[1].byp # <<>> => Holds(bram[1].byp[1], line(bram[1].addr))
  BY <1>6 DEF CacheInv, Cells
<1>7. res # <<>> /\ res[1].vld => Holds(res[1].cell, line(res[1].addr))
  BY DEF CacheInv, Cells
<1>8. cache_line_vld' = cache_line_vld \cup (IF fill # <<>> THEN {line(wa)} ELSE {})
  <2>1. CASE fill = <<>>
    BY <1>1, <2>1
  <2>2. CASE fill # <<>>
    <3>1. DOMAIN fill = {1}
      BY <1>4, <2>2
    <3> QED
      BY <1>1, <2>2, <3>1
  <2> QED
    BY <2>1, <2>2
<1> HIDE DEF wa, found, reread
<1>9. cache_line_vld' \subseteq 0 .. LINES - 1 /\ cache_line_vld \subseteq cache_line_vld'
  BY <1>2, <1>4, <1>8, WordFacts
<1>10. ram' \in [0 .. LINES - 1 -> CellSet]
  BY <1>1, <1>2, <1>4, WordFacts
<1>11. ASSUME NEW l \in cache_line_vld' PROVE Holds(ram'[l], l)
  <2>1. CASE fill # <<>> /\ l = line(wa)
    <3>1. ram'[l] = written
      BY <1>1, <1>2, <1>9, <2>1
    <3> QED
      BY <1>4, <2>1, <3>1, WordFacts
  <2>2. CASE ~(fill # <<>> /\ l = line(wa))
    <3>1. ram'[l] = ram[l] /\ l \in cache_line_vld
      BY <1>1, <1>2, <1>8, <1>9, <2>2
    <3> QED
      BY <1>5, <3>1
  <2> QED
    BY <2>1, <2>2
<1>12. ASSUME NEW x \in Word
       PROVE  /\ Lookup(x) \in Lookups /\ Lookup(x).addr = x
              /\ Lookup(x).vld => line(x) \in cache_line_vld /\ Holds(Lookup(x).cell, line(x))
              /\ Lookup(x).byp # <<>> => Holds(Lookup(x).byp[1], line(x))
  <2>1. line(x) \in 0 .. LINES - 1 /\ ram[line(x)] \in CellSet
    BY <1>2, WordFacts
  <2>2. bypass(x) \in Maybe(CellSet) /\ (bypass(x) # <<>> => Holds(bypass(x)[1], line(x)))
    <3>1. CASE fills(x)
      <4>1. fill # <<>> /\ line(wa) = line(x)
        BY <3>1 DEF fills, wa
      <4>2. written \in CellSet /\ Holds(written, line(x))
        BY <1>4, <4>1, WordFacts
      <4> QED
        BY <3>1, <4>2 DEF bypass, Maybe
    <3>2. CASE ~fills(x)
      BY <3>2 DEF bypass, Maybe
    <3> QED
      BY <3>1, <3>2
  <2>3. Lookup(x) = [addr |-> x, vld |-> line(x) \in cache_line_vld, idx |-> rob_wr_addr,
                     byp |-> bypass(x), cell |-> ram[line(x)]]
    BY DEF Lookup
  <2>4. (line(x) \in cache_line_vld) \in BOOLEAN
    OBVIOUS
  <2>5. Lookup(x) \in Lookups
    BY <1>2, <2>1, <2>2, <2>3, <2>4 DEF Lookups
  <2>6. /\ Lookup(x).addr = x /\ Lookup(x).vld = (line(x) \in cache_line_vld)
        /\ Lookup(x).byp = bypass(x) /\ Lookup(x).cell = ram[line(x)]
    BY <2>3
  <2> QED
    BY <1>5, <2>2, <2>5, <2>6
<1>13. /\ AtMostOneOf(Lookups, bram')
       /\ bram' # <<>> => /\ bram'[1].vld => /\ line(bram'[1].addr) \in cache_line_vld'
                                             /\ Holds(bram'[1].cell, line(bram'[1].addr))
                          /\ bram'[1].byp # <<>> => Holds(bram'[1].byp[1], line(bram'[1].addr))
  <2>1. CASE Accepted(req) # <<>>
    <3>1. req[1] \in Word
      <4>1. AtMostOneOf(Word, req) /\ req # <<>>
        BY <2>1, Asks
      <4> QED
        BY <4>1, OneIsSeq
    <3>2. bram' = <<Lookup(req[1])>>
      BY <1>1, <2>1
    <3> QED
      BY <1>9, <1>12, <3>1, <3>2 DEF AtMostOneOf
  <2>2. CASE Accepted(req) = <<>> /\ ~lookup_tready /\ req # <<>> /\ bram # <<>>
    <3>1. bram' = <<reread>>
      BY <1>1, <2>2
    <3>2. bram[1] \in Lookups
      BY <1>3, <2>2
    <3>3. bram[1].addr \in Word /\ line(bram[1].addr) \in 0 .. LINES - 1 /\ ram[line(bram[1].addr)] \in CellSet
      BY <1>2, <3>2, WordFacts DEF Lookups
    <3>4. /\ reread \in Lookups /\ reread.addr = bram[1].addr /\ reread.vld = bram[1].vld
          /\ reread.byp = bram[1].byp /\ reread.cell = ram[line(bram[1].addr)]
      BY <3>2, <3>3 DEF Lookups, reread
    <3> QED
      BY <1>5, <1>6, <1>9, <2>2, <3>1, <3>4 DEF AtMostOneOf
  <2>3. CASE bram' = <<>>
    BY <2>3 DEF AtMostOneOf
  <2>4. CASE bram' = bram
    BY <1>2, <1>6, <1>9, <2>4
  <2> QED
    BY <1>1, <2>1, <2>2, <2>3, <2>4
<1>14. /\ AtMostOneOf(Founds, res')
       /\ res' # <<>> /\ res'[1].vld => Holds(res'[1].cell, line(res'[1].addr))
  <2>1. CASE bram # <<>> /\ lookup_tready
    <3>1. res' = <<found>> /\ bram[1] \in Lookups
      BY <1>1, <1>3, <2>1
    <3>2. bram[1].byp # <<>> => bram[1].byp[1] \in CellSet
      BY <3>1 DEF Lookups, Maybe
    <3>3. /\ found \in Founds /\ found.addr = bram[1].addr /\ found.vld = bram[1].vld
          /\ found.cell = IF bram[1].byp # <<>> THEN bram[1].byp[1] ELSE bram[1].cell
      BY <3>1, <3>2 DEF Lookups, Founds, found
    <3> QED
      BY <1>6, <2>1, <3>1, <3>3 DEF AtMostOneOf
  <2>2. CASE res' = <<>>
    BY <2>2 DEF AtMostOneOf
  <2>3. CASE res' = res
    BY <1>2, <1>7, <2>3
  <2> QED
    BY <1>1, <2>1, <2>2, <2>3
<1>15. AtMostOneOf(Miss, mem_req')
  <2>1. CASE looked_up
    <3>1. res[1] \in Founds
      BY <1>3, <2>1 DEF looked_up
    <3>2. [addr |-> res[1].addr, idx |-> res[1].idx] \in Miss
      BY <3>1 DEF Founds, Miss
    <3> QED
      BY <1>1, <2>1, <3>2 DEF AtMostOneOf
  <2>2. CASE ~looked_up
    BY <1>1, <1>2, <2>2 DEF AtMostOneOf
  <2> QED
    BY <2>1, <2>2
<1>16. Cells'
  BY <1>11, <1>13, <1>14 DEF Cells, Holds, line, tag
<1> QED
  BY <1>9, <1>10, <1>13, <1>14, <1>15, <1>16

-----------------------------------------------------------------------------
LEMMA CacheInvStep == CacheInv /\ [CacheNext]_cache_vars => CacheInv'
<1> SUFFICES ASSUME CacheInv, [CacheNext]_cache_vars PROVE CacheInv'
  OBVIOUS
<1>1. CASE UNCHANGED cache_vars
  <2>1. Shapes' /\ CacheCounters' /\ SlotsHold'
    BY <1>1, ZenonT(30) DEF CacheInv, Shapes, CacheCounters, SlotsHold, Live, Pos, Wanted, RobSlots, Maybe, Miss,
                CellSet, Lookups, Founds, AtMostOneOf, IsFifo, cache_vars, rob_vars
  <2>2. /\ Missed' = Missed /\ n_miss' = n_miss /\ n_req' = n_req /\ n_res' = n_res /\ n_all' = n_all
        /\ \A i : Item(i)' = Item(i) /\ Place(i)' = Place(i)
    BY <1>1 DEF Missed, FifoWords, n_miss, n_req, n_res, n_all, Item, Place, Pos, cache_vars, rob_vars
  <2>3. Flight'
    BY <1>1, <2>2 DEF CacheInv, Flight, Wanted, RobSlots, cache_vars, rob_vars
  <2>4. Misses' /\ Cells'
    BY <1>1, <2>2 DEF CacheInv, Misses, ToMemory, Cells, Holds, line, tag, cache_vars
  <2> QED
    BY <2>1, <2>3, <2>4 DEF CacheInv
<1>2. ASSUME NEW req \in Requests, NEW mem_rdy \in BOOLEAN, CacheEdge(req, mem_rdy)
      PROVE  CacheInv'
  <2>1. CacheCounters' /\ SlotsHold' /\ Flight' /\ Misses' /\ Cells'
    BY <1>2, CountersStep, FlightStep, MissStep, CellStep
  <2>2. working' \subseteq Word /\ outstanding' \in Seq(Word)
    BY <1>2, OutstandingStep DEF CacheEdge, CacheInv, Shapes
  <2>3. /\ cache_line_vld' \subseteq 0 .. LINES - 1 /\ ram' \in [0 .. LINES - 1 -> CellSet]
        /\ AtMostOneOf(Lookups, bram') /\ AtMostOneOf(Founds, res') /\ AtMostOneOf(Miss, mem_req')
    BY <1>2, CellStep
  <2>4. IsFifo(miss_fifo', Miss)
    BY <1>2, MissMoves
  <2>5. /\ mem_req_reg' \in Seq(Word) /\ Len(mem_req_reg') <= 2 /\ mem_pending' \in Seq(Word)
        /\ AtMostOneOf(Word, mem_res')
    BY <1>2, MissStep
  <2>6. /\ rob_rd_addr' \in RobSlots /\ rob_wr_addr' \in RobSlots /\ AtMostOneOf(Word, cpu_res')
        /\ rob_wr_tready' \in BOOLEAN /\ rob_rd_tvalid' \in BOOLEAN
    BY <1>2, CountersStep
  <2>7. slot' \in [RobSlots -> Maybe(Word)]
    BY <1>2, FlightStep
  <2>8. Shapes'
    BY <2>2, <2>3, <2>4, <2>5, <2>6, <2>7
       DEF Shapes, RobSlots, Maybe, Miss, CellSet, Lookups, Founds, AtMostOneOf, IsFifo
  <2> QED
    BY <2>1, <2>8 DEF CacheInv
<1> QED
  BY <1>1, <1>2 DEF CacheNext

(* In every reachable state each lookup and each miss under way has the slot *)
(* of its own request, empty and in use, and the memory is asked for the     *)
(* same words in the same order (cpu86_icache, cpu86_icache_rob).            *)
THEOREM CacheSafe == CacheSpec => []CacheInv
  BY InitCache, CacheInvStep, PTL DEF CacheSpec

(* For every number of lines and of slots, every program and any delay of    *)
(* the memory: the word from memory meets the miss it answers, no slot is    *)
(* given twice, and no request is without one (axis_fifo_inst_0 is popped    *)
(* unread, and the "full" of the reorder buffer is ignored).                 *)
THEOREM AnswersPlaced == CacheSpec => []AnswersHaveAPlace
<1>1. CacheInv => AnswersHaveAPlace
  <2> SUFFICES ASSUME CacheInv PROVE AnswersHaveAPlace
    OBVIOUS
  <2>1. Shapes /\ CacheCounters
    BY DEF CacheInv
  <2>2. \A S, o : AtMostOneOf(S, o) => o \in Maybe(S)
    BY DEF AtMostOneOf, Maybe
  <2>3. CacheTypeOK
    BY <2>1, <2>2 DEF CacheTypeOK, Shapes, CacheCounters, RobSlots
  <2>4. MissIsThere
    <3> SUFFICES ASSUME mem_res # <<>> PROVE fill # <<>> /\ fill[1].addr = mem_res[1]
      BY DEF MissIsThere
    <3>1. fill # <<>> /\ fill[1] = Missed[1] /\ mem_res = <<Missed[1].addr>>
      BY FillFound
    <3> QED
      BY <3>1
  <2>5. Len(cpu_res) \in Nat /\ Len(outstanding) = rob_fifo_cnt + Len(cpu_res) /\ rob_fifo_cnt \in 0 .. ROB_SIZE - 1
        /\ (rob_wr_tready <=> rob_fifo_cnt # ROB_SIZE - 1)
    BY <2>1, Lengths DEF CacheCounters, Num
  <2>6. Requests # {<<>>} => rob_wr_tready
    <3>1. Requests # {<<>>} => Len(outstanding) < ROB_SIZE - 1
      BY DEF Requests
    <3> QED
      BY <2>5, <3>1, Constants
  <2>7. SlotForEveryRequest
    BY <2>5, <2>6 DEF SlotForEveryRequest
  <2> QED
    BY <2>3, <2>4, <2>7 DEF AnswersHaveAPlace
<1> QED
  BY <1>1, CacheSafe, PTL

(* The cache is to the prefetcher an in-order memory: whatever order hits    *)
(* and misses complete in, each request is answered once, in order, with its *)
(* own word and no sooner than two edges after it; the prefetcher's proofs   *)
(* assume no more of what answers it (cpu86_icache_rob).                     *)
THEOREM CacheIsMemory == CacheSpec => ImplementsMemory
<1>1. CacheInit => InOrder!Init
  BY DEF CacheInit, InOrder!Init
<1>2. CacheInv /\ CacheInv' /\ [CacheNext]_cache_vars => [InOrder!Next]_(InOrder!vars)
  <2> SUFFICES ASSUME CacheInv, CacheInv', [CacheNext]_cache_vars
               PROVE  [InOrder!Next]_(InOrder!vars)
    OBVIOUS
  <2>1. CASE UNCHANGED cache_vars
    BY <2>1 DEF cache_vars, rob_vars, InOrder!vars
  <2>2. ASSUME NEW req \in Requests, NEW mem_rdy \in BOOLEAN, CacheEdge(req, mem_rdy)
        PROVE  InOrder!Next
    <3> DEFINE ask == Accepted(req)
    <3>1. AtMostOneOf(Word, ask) /\ ask \in InOrder!Port
      BY <2>2, Asks DEF AtMostOneOf, InOrder!Port
    <3>2. /\ outstanding' = (IF cpu_res # <<>> THEN Tail(outstanding) ELSE outstanding) \o ask
          /\ recent' = Len(ask)
      BY <2>2 DEF CacheEdge
    <3>3. ASSUME cpu_res' # <<>>
          PROVE  /\ Len(outstanding') > recent' /\ outstanding' # <<>>
                 /\ cpu_res' = <<Head(outstanding')>>
      <4>1. Len(cpu_res') = Num(rob_taken) /\ Len(cpu_res') = Num(cpu_res' # <<>>)
        BY <2>2, CountersStep, OneIsSeq
      <4>2. rob_taken
        BY <3>3, <4>1 DEF Num
      <4>3. rob_fifo_cnt >= 1 /\ rob_fifo_cnt \in Nat
        BY <4>2, Leaves DEF CacheInv, CacheCounters
      <4>4. Len(outstanding') = rob_fifo_cnt + Num(ask # <<>>) /\ outstanding' \in Seq(Word)
        BY <2>2, OutstandingStep
      <4>5. Len(ask) = Num(ask # <<>>)
        BY <3>1, OneIsSeq
      <4>6. cpu_res' = <<outstanding'[1]>>
        BY <3>3 DEF CacheInv, CacheCounters
      <4> HIDE DEF ask
      <4>7. Num(ask # <<>>) \in {0, 1}
        BY DEF Num
      <4>8. Len(outstanding') > recent' /\ outstanding' # <<>>
        <5> DEFINE l == Len(outstanding')
                   n == Num(ask # <<>>)
        <5>1. l = rob_fifo_cnt + n /\ recent' = n /\ n \in {0, 1}
          BY <3>2, <4>4, <4>5, <4>7
        <5> HIDE DEF l, n
        <5>2. l > recent' /\ l >= 1
          BY <4>3, <5>1
        <5>3. outstanding' = <<>> => l = 0
          BY DEF l
        <5> QED
          BY <5>2, <5>3 DEF l
      <4>9. Head(outstanding') = outstanding'[1]
        BY <4>4, <4>8
      <4> QED
        BY <4>6, <4>8, <4>9
    <3>4. InOrder!Step(ask)
      BY <3>2, <3>3 DEF InOrder!Step
    <3> QED
      BY <3>1, <3>4 DEF InOrder!Next
  <2> QED
    BY <2>1, <2>2 DEF CacheNext
<1> QED
  BY <1>1, <1>2, CacheSafe, PTL DEF CacheSpec, ImplementsMemory, InOrder!Spec
=============================================================================
