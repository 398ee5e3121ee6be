----------------------------- MODULE QueueProofs -----------------------------
(***************************************************************************)
(* Lemmas about the stream buffers of AxisQueues, for every set of words    *)
(* and every depth: an edge of a FIFO or of a skid register moves its words *)
(* as those of a queue.  The proofs about the components that are built     *)
(* from these buffers cite them.                                            *)
(***************************************************************************)
EXTENDS AxisQueues, SequenceTheorems, TLAPS

-----------------------------------------------------------------------------
(***************************************************************************)
(* Queues.                                                                  *)
(***************************************************************************)
AtMostOneOf(S, o) == o = <<>> \/ \E x \in S : o = <<x>>
Popped(s, k)      == IF k = 1 THEN Tail(s) ELSE s
Cat(a, b)         == a \o b
Num(b)            == IF b THEN 1 ELSE 0

LEMMA Single ==
    ASSUME NEW S, NEW x \in S
    PROVE  <<x>> # <<>> /\ AtMostOneOf(S, <<x>>)
  BY DEF AtMostOneOf

LEMMA OneIsSeq ==
    ASSUME NEW S, NEW o, AtMostOneOf(S, o)
    PROVE  o \in Seq(S) /\ Len(o) = Num(o # <<>>) /\ (o # <<>> => o = <<o[1]>> /\ o[1] \in S)
<1>1. CASE o = <<>>
  BY <1>1 DEF Num
<1>2. CASE o # <<>>
  <2>1. PICK x \in S : o = <<x>>
    BY <1>2 DEF AtMostOneOf
  <2> QED
    BY <2>1 DEF Num
<1> QED
  BY <1>1, <1>2

(* What one edge does to the words of a queue.                               *)
MovedOn(S, s, k, o, r) ==
    /\ r \in Seq(S) /\ Len(s) - k \in Nat
    /\ Len(r) = (Len(s) - k) + Len(o)
    /\ \A i \in 1 .. Len(s) - k : r[i] = s[i + k]
    /\ o # <<>> => r[(Len(s) - k) + 1] = o[1]

LEMMA Moved ==
    ASSUME NEW S, NEW s \in Seq(S), NEW k \in {0, 1}, k = 1 => s # <<>>,
           NEW o, AtMostOneOf(S, o), NEW r, r = Cat(Popped(s, k), o)
    PROVE  MovedOn(S, s, k, o, r)
<1> DEFINE p == Popped(s, k)
           n == Len(s) - k
<1>1. p \in Seq(S) /\ n \in Nat /\ Len(p) = n /\ \A i \in 1 .. n : p[i] = s[i + k]
  <2>1. CASE k = 1
    BY <2>1, HeadTailProperties DEF Popped
  <2>2. CASE k = 0
    BY <2>2 DEF Popped
  <2> QED
    BY <2>1, <2>2
<1>2. o \in Seq(S) /\ Len(o) \in Nat /\ (o # <<>> => Len(o) = 1)
  BY OneIsSeq DEF Num
<1>3. r = p \o o
  BY DEF Cat
<1> HIDE DEF p, n
<1>4. /\ r \in Seq(S) /\ Len(r) = n + Len(o)
      /\ \A i \in 1 .. n + Len(o) : r[i] = IF i <= n THEN p[i] ELSE o[i - n]
  <2>1. /\ p \o o \in Seq(S) /\ Len(p \o o) = Len(p) + Len(o)
        /\ \A i \in 1 .. Len(p) + Len(o) : (p \o o)[i] = IF i <= Len(p) THEN p[i] ELSE o[i - Len(p)]
    BY <1>1, <1>2, ConcatProperties
  <2> QED
    BY <1>1, <1>3, <2>1
<1>5. ASSUME NEW i \in 1 .. n PROVE r[i] = s[i + k]
  <2>1. i \in 1 .. n + Len(o) /\ i <= n
    BY <1>1, <1>2
  <2>2. r[i] = p[i]
    BY <1>4, <2>1
  <2> QED
    BY <1>1, <2>2
<1>6. o # <<>> => r[n + 1] = o[1]
  BY <1>1, <1>2, <1>4
<1> QED
  BY <1>1, <1>4, <1>5, <1>6 DEF n, MovedOn

(* A word in front of a queue.                                               *)
LEMMA FirstWord ==
    ASSUME NEW S, NEW x \in S, NEW q \in Seq(S)
    PROVE  <<x>> \o q \in Seq(S) /\ <<x>> \o q # <<>> /\ Head(<<x>> \o q) = x /\ Tail(<<x>> \o q) = q
<1>1. <<x>> \in Seq(S)
  OBVIOUS
<1>2. /\ <<x>> \o q \in Seq(S) /\ Len(<<x>> \o q) = 1 + Len(q)
      /\ \A i \in 1 .. 1 + Len(q) : (<<x>> \o q)[i] = IF i <= 1 THEN x ELSE q[i - 1]
  BY <1>1, ConcatProperties
<1> DEFINE r == <<x>> \o q
<1> HIDE DEF r
<1>3. r \in Seq(S) /\ Len(r) = 1 + Len(q) /\ \A i \in 1 .. 1 + Len(q) : r[i] = IF i <= 1 THEN x ELSE q[i - 1]
  BY <1>2 DEF r
<1>4. r # <<>> /\ Head(r) = x
  BY <1>3
<1>5. Tail(r) \in Seq(S) /\ Len(Tail(r)) = Len(q) /\ \A i \in 1 .. Len(q) : Tail(r)[i] = q[i]
  BY <1>3, <1>4, HeadTailProperties
<1>6. Tail(r) = q
  BY <1>5, SeqEqual
<1> QED
  BY <1>3, <1>4, <1>6 DEF r

LEMMA HeadAndTail ==
    ASSUME NEW S, NEW q \in Seq(S), q # <<>>
    PROVE  Head(q) \in S /\ Tail(q) \in Seq(S) /\ <<Head(q)>> \o Tail(q) = q
<1>1. Head(q) \in S /\ Tail(q) \in Seq(S) /\ Len(Tail(q)) = Len(q) - 1
      /\ \A i \in 1 .. Len(Tail(q)) : Tail(q)[i] = q[i + 1]
  BY HeadTailProperties
<1>2. /\ <<Head(q)>> \o Tail(q) \in Seq(S) /\ Len(<<Head(q)>> \o Tail(q)) = Len(q)
      /\ \A i \in 1 .. Len(q) : (<<Head(q)>> \o Tail(q))[i] = IF i <= 1 THEN Head(q) ELSE Tail(q)[i - 1]
  <2>1. <<Head(q)>> \in Seq(S) /\ Len(<<Head(q)>>) = 1 /\ <<Head(q)>>[1] = Head(q)
    BY <1>1
  <2> QED
    BY <1>1, <2>1, ConcatProperties
<1>3. \A i \in 1 .. Len(q) : (<<Head(q)>> \o Tail(q))[i] = q[i]
  BY <1>1, <1>2
<1> QED
  BY <1>1, <1>2, <1>3, SeqEqual

-----------------------------------------------------------------------------
(***************************************************************************)
(* The fall-through FIFO: its words move as those of a queue.               *)
(***************************************************************************)
LEMMA CatFacts ==
    ASSUME NEW S
    PROVE  /\ \A a, b \in Seq(S) : Cat(a, b) \in Seq(S)
           /\ \A a, b, c \in Seq(S) : Cat(Cat(a, b), c) = Cat(a, Cat(b, c))
           /\ \A a \in Seq(S) : Cat(<<>>, a) = a /\ Cat(a, <<>>) = a
           /\ \A x \in S, a \in Seq(S) :
                Tail(Cat(<<x>>, a)) = a /\ Cat(<<x>>, a) # <<>> /\ Cat(<<x>>, a)[1] = x
           /\ \A a, b \in Seq(S) : Len(Cat(a, b)) = Len(a) + Len(b)
<1>1. \A a, b \in Seq(S) : a \o b \in Seq(S)
  BY ConcatProperties
<1>2. \A a, b, c \in Seq(S) : (a \o b) \o c = a \o (b \o c)
  BY ConcatAssociative
<1>3. \A a \in Seq(S) : <<>> \o a = a /\ a \o <<>> = a
  BY ConcatEmptySeq
<1>4. \A x \in S, a \in Seq(S) : Tail(<<x>> \o a) = a /\ <<x>> \o a # <<>> /\ (<<x>> \o a)[1] = x
  <2>1. ASSUME NEW x \in S, NEW a \in Seq(S)
        PROVE  Tail(<<x>> \o a) = a /\ <<x>> \o a # <<>> /\ (<<x>> \o a)[1] = x
    <3> DEFINE r == <<x>> \o a
    <3>1. r \in Seq(S) /\ r # <<>> /\ Head(r) = x /\ Tail(r) = a
      BY <2>1, FirstWord
    <3> HIDE DEF r
    <3>2. r[1] = x
      BY <3>1
    <3> QED
      BY <3>1, <3>2 DEF r
  <2> QED
    BY <2>1
<1>5. \A a, b \in Seq(S) : Len(a \o b) = Len(a) + Len(b)
  BY ConcatProperties
<1> QED
  BY <1>1, <1>2, <1>3, <1>4, <1>5, Zenon DEF Cat

IsFifo(f, S) ==
    /\ f.q \in Seq(S) /\ AtMostOneOf(S, f.bram) /\ AtMostOneOf(S, f.res)
    /\ f.q # <<>> => f.bram # <<>>

(* The ring (a: with what is written) and the word at its output, after an   *)
(* edge with that output's ready t.                                          *)
RingReads(a, bram, t) == a # <<>> /\ (bram = <<>> \/ t)
RingQ(a, bram, t) == IF RingReads(a, bram, t) THEN Tail(a) ELSE a
RingB(a, bram, t) == IF RingReads(a, bram, t) THEN <<Head(a)>>
                     ELSE IF t THEN <<>> ELSE bram
Left(bram, t) == IF t THEN <<>> ELSE bram

LEMMA RingStep ==
    ASSUME NEW S, NEW a \in Seq(S), NEW bram, AtMostOneOf(S, bram), NEW t \in BOOLEAN
    PROVE  /\ RingQ(a, bram, t) \in Seq(S) /\ AtMostOneOf(S, RingB(a, bram, t))
           /\ RingQ(a, bram, t) # <<>> => RingB(a, bram, t) # <<>>
           /\ Cat(RingB(a, bram, t), RingQ(a, bram, t)) = Cat(Left(bram, t), a)
<1>1. CASE RingReads(a, bram, t)
  <2>1. RingQ(a, bram, t) = Tail(a) /\ RingB(a, bram, t) = <<Head(a)>>
    BY <1>1 DEF RingQ, RingB
  <2>2. Head(a) \in S /\ Tail(a) \in Seq(S) /\ Cat(<<Head(a)>>, Tail(a)) = a
    BY <1>1, HeadAndTail DEF RingReads, Cat
  <2>3. Left(bram, t) = <<>> /\ Cat(<<>>, a) = a
    BY <1>1, CatFacts DEF RingReads, Left
  <2>4. <<Head(a)>> # <<>> /\ AtMostOneOf(S, <<Head(a)>>)
    BY <2>2, Single
  <2> QED
    BY <2>1, <2>2, <2>3, <2>4
<1>2. CASE ~RingReads(a, bram, t)
  <2>1. RingQ(a, bram, t) = a /\ RingB(a, bram, t) = Left(bram, t)
    BY <1>2 DEF RingQ, RingB, Left
  <2>2. AtMostOneOf(S, Left(bram, t))
    BY DEF AtMostOneOf, Left
  <2>3. a # <<>> => Left(bram, t) # <<>>
    BY <1>2 DEF RingReads, Left
  <2> QED
    BY <2>1, <2>2, <2>3
<1> QED
  BY <1>1, <1>2

(* The words behind the output register of a registered FIFO: its ready t1   *)
(* takes the word at the ring's output along.                                *)
LEMMA MoveAlong ==
    ASSUME NEW S, NEW res, AtMostOneOf(S, res), NEW bram, AtMostOneOf(S, bram),
           NEW q \in Seq(S), q # <<>> => bram # <<>>, NEW o, AtMostOneOf(S, o),
           NEW t \in BOOLEAN, t => res # <<>>,
           NEW t1 \in BOOLEAN, t1 <=> (res = <<>> \/ t),
           NEW r1, r1 = IF t1 THEN bram ELSE res
    PROVE  /\ Cat(r1, Cat(Left(bram, t1), Cat(q, o))) = Cat(Popped(Cat(Cat(res, bram), q), Num(t)), o)
           /\ r1 = <<>> => Cat(r1, Cat(Left(bram, t1), Cat(q, o))) = o
<1>1. res \in Seq(S) /\ bram \in Seq(S) /\ o \in Seq(S) /\ <<>> \in Seq(S)
  BY OneIsSeq
<1> DEFINE bq == Cat(bram, q)
           qo == Cat(q, o)
<1>2. /\ bq \in Seq(S) /\ qo \in Seq(S)
      /\ Cat(bram, qo) = Cat(bq, o)
      /\ Cat(Cat(res, bram), q) = Cat(res, bq)
  BY <1>1, CatFacts
<1>3. \A c \in Seq(S) : Cat(<<>>, c) = c
  BY CatFacts
<1>4. r1 = <<>> => bram = <<>> /\ Left(bram, t1) = <<>> /\ q = <<>>
  BY DEF Left
<1> HIDE DEF bq
<1>5. r1 = <<>> => Cat(r1, Cat(Left(bram, t1), qo)) = o
  BY <1>1, <1>3, <1>4
<1> HIDE DEF qo
<1>6. CASE t
  <2>1. PICK x \in S : res = <<x>>
    BY <1>6 DEF AtMostOneOf
  <2>2. Tail(Cat(<<x>>, bq)) = bq
    BY <1>2, CatFacts
  <2>3. r1 = bram /\ Left(bram, t1) = <<>>
    BY <1>6 DEF Left
  <2>4. Popped(Cat(res, bq), Num(t)) = bq
    BY <1>6, <2>1, <2>2 DEF Popped, Num
  <2> QED
    BY <1>2, <1>3, <1>5, <2>3, <2>4 DEF qo
<1>7. CASE ~t /\ res = <<>>
  <2>1. r1 = bram /\ Left(bram, t1) = <<>>
    BY <1>7 DEF Left
  <2>2. Popped(Cat(res, bq), Num(t)) = bq
    BY <1>2, <1>3, <1>7 DEF Popped, Num
  <2> QED
    BY <1>2, <1>3, <1>5, <2>1, <2>2 DEF qo
<1>8. CASE ~t /\ res # <<>>
  <2>1. r1 = res /\ Left(bram, t1) = bram
    BY <1>8 DEF Left
  <2>2. Popped(Cat(res, bq), Num(t)) = Cat(res, bq)
    BY <1>8 DEF Popped, Num
  <2>3. Cat(Cat(res, bq), o) = Cat(res, Cat(bq, o))
    BY <1>1, <1>2, CatFacts
  <2> QED
    BY <1>2, <1>5, <2>1, <2>2, <2>3 DEF qo
<1> QED
  BY <1>6, <1>7, <1>8

LEMMA FifoType ==
    ASSUME NEW S, NEW f, IsFifo(f, S)
    PROVE  FifoWords(f) \in Seq(S) /\ FifoWords(f) = Cat(Cat(f.res, f.bram), f.q)
<1>1. f.res \in Seq(S) /\ f.bram \in Seq(S) /\ f.q \in Seq(S)
  BY OneIsSeq DEF IsFifo
<1> QED
  BY <1>1, ConcatProperties DEF FifoWords, Cat

(* The word at the output is the first one.                                  *)
LEMMA FirstOut ==
    ASSUME NEW S, NEW f, IsFifo(f, S)
    PROVE  /\ Len(f.q) \in Nat /\ Len(f.q) <= Len(FifoWords(f))
           /\ f.res # <<>> => FifoWords(f) # <<>> /\ f.res = <<FifoWords(f)[1]>>
           /\ f.res = <<>> /\ f.bram # <<>> => FifoWords(f) # <<>> /\ f.bram = <<FifoWords(f)[1]>>
           /\ f.res = <<>> /\ f.bram = <<>> => FifoWords(f) = <<>>
<1> DEFINE R == f.res
           B == f.bram
           Q == f.q
           W == FifoWords(f)
<1>1. /\ Q \in Seq(S) /\ AtMostOneOf(S, B) /\ AtMostOneOf(S, R) /\ (Q # <<>> => B # <<>>)
      /\ W = Cat(Cat(R, B), Q)
  BY FifoType DEF IsFifo
<1> HIDE DEF R, B, Q, W
<1>2. R \in Seq(S) /\ B \in Seq(S) /\ Cat(R, B) \in Seq(S) /\ Cat(B, Q) \in Seq(S) /\ <<>> \in Seq(S)
  BY <1>1, OneIsSeq, CatFacts
<1>3. Len(Q) \in Nat /\ Len(Q) <= Len(W)
  <2>1. Len(W) = (Len(R) + Len(B)) + Len(Q)
    <3>1. \A a, b \in Seq(S) : Len(Cat(a, b)) = Len(a) + Len(b)
      BY CatFacts
    <3> QED
      BY <1>1, <1>2, <3>1
  <2>2. Len(Q) \in Nat /\ Len(R) \in Nat /\ Len(B) \in Nat
    BY <1>1, <1>2
  <2> QED
    BY <2>1, <2>2
<1>4. W = Cat(R, Cat(B, Q)) /\ Cat(<<>>, Cat(B, Q)) = Cat(B, Q) /\ Cat(<<>>, Q) = Q
  BY <1>1, <1>2, CatFacts
<1>5. ASSUME R # <<>> PROVE W # <<>> /\ R = <<W[1]>>
  <2>1. PICK x \in S : R = <<x>>
    BY <1>1, <1>5 DEF AtMostOneOf
  <2>2. Cat(<<x>>, Cat(B, Q)) # <<>> /\ Cat(<<x>>, Cat(B, Q))[1] = x
    BY <1>2, CatFacts
  <2> QED
    BY <1>4, <2>1, <2>2
<1>6. ASSUME R = <<>>, B # <<>> PROVE W # <<>> /\ B = <<W[1]>>
  <2>1. PICK x \in S : B = <<x>>
    BY <1>1, <1>6 DEF AtMostOneOf
  <2>2. Cat(<<x>>, Q) # <<>> /\ Cat(<<x>>, Q)[1] = x
    <3>1. \A y \in S, a \in Seq(S) : Cat(<<y>>, a) # <<>> /\ Cat(<<y>>, a)[1] = y
      BY CatFacts
    <3> QED
      BY <1>1, <3>1
  <2> QED
    BY <1>4, <1>6, <2>1, <2>2
<1>7. ASSUME R = <<>>, B = <<>> PROVE W = <<>>
  BY <1>1, <1>4, <1>7
<1> QED
  BY <1>3, <1>5, <1>6, <1>7 DEF R, B, Q, W

(* From f to g as a queue that n words leave and o enters.                   *)
QueueStep(S, f, g, n, o) ==
    IsFifo(g, S) /\ FifoWords(g) = Cat(Popped(FifoWords(f), n), o)

RegisteredQueueStep(S, f, g, n, o) ==
    QueueStep(S, f, g, n, o) /\ (g.res = <<>> => FifoWords(g) = o)

(* With an output register, which is popped only when it holds a word.       *)
LEMMA RegisteredStep ==
    ASSUME NEW S, NEW f, IsFifo(f, S), NEW depth, FifoReady(f, depth),
           NEW o, AtMostOneOf(S, o), NEW t \in BOOLEAN, t => f.res # <<>>,
           NEW g, g = FifoStep(f, depth, TRUE, o, t)
    PROVE  RegisteredQueueStep(S, f, g, Num(t), o)
<1> DEFINE h  == FifoStep(f, depth, TRUE, o, t)
           t1 == f.res = <<>> \/ t
           a  == Cat(f.q, o)
           q1 == RingQ(a, f.bram, t1)
           b1 == RingB(a, f.bram, t1)
           r1 == IF t1 THEN f.bram ELSE f.res
<1>1. h = [q |-> q1, bram |-> b1, res |-> r1]
  <2>1. r1 = IF ~TRUE THEN <<>> ELSE IF t1 /\ f.bram # <<>> THEN f.bram
             ELSE IF t THEN <<>> ELSE f.res
    OBVIOUS
  <2> HIDE DEF r1
  <2> QED
    BY <2>1 DEF FifoStep, RingQ, RingB, RingReads, Cat
<1>2. /\ f.q \in Seq(S) /\ AtMostOneOf(S, f.bram) /\ (f.q # <<>> => f.bram # <<>>)
      /\ AtMostOneOf(S, f.res) /\ t1 \in BOOLEAN /\ (t1 <=> (f.res = <<>> \/ t))
  BY DEF IsFifo
<1>3. AtMostOneOf(S, r1)
  BY <1>2
<1>4. f.q \in Seq(S) /\ o \in Seq(S) /\ r1 \in Seq(S)
  BY <1>2, <1>3, OneIsSeq
<1>5. a \in Seq(S)
  BY <1>4, CatFacts
<1>6. /\ Cat(r1, Cat(Left(f.bram, t1), a)) = Cat(Popped(Cat(Cat(f.res, f.bram), f.q), Num(t)), o)
      /\ r1 = <<>> => Cat(r1, Cat(Left(f.bram, t1), a)) = o
  <2> DEFINE B == f.bram
             R == f.res
             Q == f.q
  <2>1. r1 = IF t1 THEN B ELSE R
    OBVIOUS
  <2>2. AtMostOneOf(S, B) /\ AtMostOneOf(S, R) /\ Q \in Seq(S) /\ (Q # <<>> => B # <<>>)
        /\ t1 \in BOOLEAN /\ (t1 <=> (R = <<>> \/ t)) /\ (t => R # <<>>)
    BY <1>2
  <2> HIDE DEF B, R, Q, r1, t1
  <2>3. /\ Cat(r1, Cat(Left(B, t1), Cat(Q, o))) = Cat(Popped(Cat(Cat(R, B), Q), Num(t)), o)
        /\ r1 = <<>> => Cat(r1, Cat(Left(B, t1), Cat(Q, o))) = o
    BY <2>1, <2>2, MoveAlong
  <2> QED
    BY <2>3 DEF B, R, Q
<1> HIDE DEF h, t1, a
<1>7. /\ q1 \in Seq(S) /\ AtMostOneOf(S, b1) /\ (q1 # <<>> => b1 # <<>>)
      /\ Cat(b1, q1) = Cat(Left(f.bram, t1), a)
  <2> DEFINE B == f.bram
  <2>1. AtMostOneOf(S, B)
    BY <1>2
  <2> HIDE DEF B
  <2>2. /\ RingQ(a, B, t1) \in Seq(S) /\ AtMostOneOf(S, RingB(a, B, t1))
        /\ RingQ(a, B, t1) # <<>> => RingB(a, B, t1) # <<>>
        /\ Cat(RingB(a, B, t1), RingQ(a, B, t1)) = Cat(Left(B, t1), a)
    BY <1>2, <1>5, <2>1, RingStep
  <2> QED
    BY <2>2 DEF B
<1> HIDE DEF q1, b1, r1
<1>8. h.q = q1 /\ h.bram = b1 /\ h.res = r1
  BY <1>1
<1>9. IsFifo(h, S)
  BY <1>3, <1>7, <1>8 DEF IsFifo
<1>10. FifoWords(h) = Cat(r1, Cat(b1, q1))
  <2>1. b1 \in Seq(S)
    BY <1>7, OneIsSeq
  <2>2. FifoWords(h) = Cat(Cat(r1, b1), q1)
    BY <1>8, <1>9, FifoType
  <2> QED
    BY <1>4, <1>7, <2>1, <2>2, CatFacts
<1>11. FifoWords(f) = Cat(Cat(f.res, f.bram), f.q)
  BY FifoType
<1>12. FifoWords(h) = Cat(Popped(FifoWords(f), Num(t)), o) /\ (h.res = <<>> => FifoWords(h) = o)
  BY <1>6, <1>7, <1>8, <1>10, <1>11
<1> QED
  BY <1>9, <1>12 DEF h, QueueStep, RegisteredQueueStep

(* Without one: a ready that meets no word takes none.                       *)
LEMMA UnregisteredStep ==
    ASSUME NEW S, NEW f, IsFifo(f, S), f.res = <<>>, NEW depth, FifoReady(f, depth),
           NEW o, AtMostOneOf(S, o), NEW t \in BOOLEAN,
           NEW g, g = FifoStep(f, depth, FALSE, o, t)
    PROVE  QueueStep(S, f, g, Num(t /\ f.bram # <<>>), o) /\ g.res = <<>>
<1> DEFINE h  == FifoStep(f, depth, FALSE, o, t)
           B  == f.bram
           Q  == f.q
           a  == Cat(Q, o)
           q1 == RingQ(a, B, t)
           b1 == RingB(a, B, t)
<1>1. h = [q |-> q1, bram |-> b1, res |-> <<>>]
  BY DEF FifoStep, RingQ, RingB, RingReads, Cat
<1>2. Q \in Seq(S) /\ AtMostOneOf(S, B)
  BY DEF IsFifo
<1>3. FifoWords(f) = Cat(Cat(<<>>, B), Q)
  BY FifoType
<1> HIDE DEF h, B, Q
<1>4. Q \in Seq(S) /\ B \in Seq(S) /\ o \in Seq(S) /\ <<>> \in Seq(S)
  BY <1>2, OneIsSeq
<1>5. a \in Seq(S)
  BY <1>4, CatFacts
<1>6. FifoWords(f) = Cat(B, Q)
  BY <1>3, <1>4, CatFacts
<1> HIDE DEF a
<1>7. /\ q1 \in Seq(S) /\ AtMostOneOf(S, b1) /\ (q1 # <<>> => b1 # <<>>)
      /\ Cat(b1, q1) = Cat(Left(B, t), a)
  BY <1>2, <1>5, RingStep
<1> HIDE DEF q1, b1
<1>8. h.q = q1 /\ h.bram = b1 /\ h.res = <<>>
  BY <1>1
<1>9. IsFifo(h, S)
  BY <1>7, <1>8 DEF IsFifo, AtMostOneOf
<1>10. FifoWords(h) = Cat(b1, q1)
  <2>1. b1 \in Seq(S)
    BY <1>7, OneIsSeq
  <2>2. FifoWords(h) = Cat(Cat(<<>>, b1), q1)
    BY <1>8, <1>9, FifoType
  <2> QED
    BY <2>1, <2>2, CatFacts
<1>11. Popped(Cat(B, Q), Num(t /\ B # <<>>)) = Cat(Left(B, t), Q)
  <2>1. CASE t /\ B # <<>>
    <3>1. PICK x \in S : B = <<x>>
      BY <1>2, <2>1 DEF AtMostOneOf
    <3>2. Tail(Cat(B, Q)) = Q /\ Cat(<<>>, Q) = Q
      BY <1>4, <3>1, CatFacts
    <3> QED
      BY <2>1, <3>2 DEF Popped, Left, Num
  <2>2. CASE ~(t /\ B # <<>>)
    BY <2>2 DEF Popped, Left, Num
  <2> QED
    BY <2>1, <2>2
<1>12. Left(B, t) \in Seq(S)
  BY <1>4 DEF Left
<1>13. Cat(Left(B, t), Cat(Q, o)) = Cat(Cat(Left(B, t), Q), o)
  BY <1>4, <1>12, CatFacts
<1>14. FifoWords(h) = Cat(Popped(FifoWords(f), Num(t /\ B # <<>>)), o)
  BY <1>6, <1>7, <1>10, <1>11, <1>13 DEF a
<1> QED
  BY <1>8, <1>9, <1>14 DEF h, B, QueueStep

(* A skid register is a queue of at most two words.                          *)
LEMMA SkidStep ==
    ASSUME NEW S, NEW s \in Seq(S), Len(s) <= 2, NEW o, AtMostOneOf(S, o), NEW t \in BOOLEAN
    PROVE  LET k == Num(t /\ s # <<>>)
               e == IF RegReady(s) THEN o ELSE <<>>
           IN  /\ RegStep(s, o, t) = Cat(Popped(s, k), e) /\ AtMostOneOf(S, e)
               /\ RegStep(s, o, t) \in Seq(S) /\ Len(RegStep(s, o, t)) = (Len(s) - k) + Len(e)
               /\ Len(RegStep(s, o, t)) <= 2
               /\ MovedOn(S, s, k, e, RegStep(s, o, t))
<1> DEFINE k == Num(t /\ s # <<>>)
           e == IF RegReady(s) THEN o ELSE <<>>
           u == IF t /\ s # <<>> THEN Tail(s) ELSE s
<1>1. k \in {0, 1} /\ (k = 1 => s # <<>>) /\ u = Popped(s, k)
  BY DEF Num, Popped
<1>2. AtMostOneOf(S, e) /\ (Len(s) = 2 => e = <<>>)
  BY DEF AtMostOneOf, RegReady
<1>3. RegStep(s, o, t) = u \o e
  BY DEF RegStep
<1> HIDE DEF k, e, u
<1>4. RegStep(s, o, t) = Cat(Popped(s, k), e)
  BY <1>1, <1>3 DEF Cat
<1>5. MovedOn(S, s, k, e, RegStep(s, o, t))
  BY <1>1, <1>2, <1>4, Moved
<1>6. Len(e) = Num(e # <<>>) /\ Len(s) \in Nat
  BY <1>2, OneIsSeq
<1>7. Len(RegStep(s, o, t)) = (Len(s) - k) + Len(e) /\ RegStep(s, o, t) \in Seq(S)
  BY <1>5 DEF MovedOn
<1>8. (Len(s) - k) + Len(e) <= 2
  <2> DEFINE n == Len(s)
             l == Len(e)
  <2>1. n \in Nat /\ n <= 2 /\ l \in 0 .. 1 /\ (n = 2 => l = 0)
    BY <1>2, <1>6 DEF Num
  <2> HIDE DEF n, l
  <2>2. (n - k) + l <= 2
    BY <1>1, <2>1
  <2> QED
    BY <2>2 DEF n, l
<1> QED
  BY <1>2, <1>4, <1>5, <1>7, <1>8 DEF k, e

LEMMA EmptyIsFifo ==
    ASSUME NEW S
    PROVE  IsFifo(EmptyFifo, S) /\ FifoWords(EmptyFifo) = <<>> /\ EmptyFifo.res = <<>>
<1>1. <<>> \in Seq(S)
  OBVIOUS
<1>2. EmptyFifo.q = <<>> /\ EmptyFifo.bram = <<>> /\ EmptyFifo.res = <<>>
  BY DEF EmptyFifo
<1>3. IsFifo(EmptyFifo, S)
  BY <1>1, <1>2 DEF IsFifo, AtMostOneOf
<1> QED
  BY <1>2, <1>3, FirstOut

-----------------------------------------------------------------------------
(***************************************************************************)
(* axis_fifo_er.                                                            *)
(***************************************************************************)
(* A word through axis_fifo_er goes in three edges at least: the output      *)
(* register, the RAM output and the ring give on what they have.             *)
ErShape(f, S) == f.q \in Seq(S) /\ AtMostOneOf(S, f.bram) /\ AtMostOneOf(S, f.res)

ErMoves(S, f, g, t, o) ==
    /\ ErShape(g, S)
    /\ FifoWords(g) = Cat(Popped(FifoWords(f), Num(t)), o)
    /\ g.bram = <<>> => f.q = <<>> /\ g.q = o
    /\ g.res = <<>> => f.bram = <<>> /\ (f.res = <<>> \/ t)
    /\ f.bram = <<>> => g.q = Cat(Popped(f.q, Num(f.q # <<>>)), o)

LEMMA ErWords ==
    ASSUME NEW S, NEW f, ErShape(f, S)
    PROVE  /\ FifoWords(f) \in Seq(S) /\ FifoWords(f) = Cat(f.res, Cat(f.bram, f.q))
           /\ Len(FifoWords(f)) = (Num(f.res # <<>>) + Num(f.bram # <<>>)) + Len(f.q)
           /\ f.res # <<>> => FifoWords(f) # <<>> /\ f.res = <<FifoWords(f)[1]>>
<1> DEFINE R == f.res
           B == f.bram
           Q == f.q
           W == FifoWords(f)
<1>1. Q \in Seq(S) /\ AtMostOneOf(S, B) /\ AtMostOneOf(S, R) /\ W = Cat(Cat(R, B), Q)
  BY DEF ErShape, FifoWords, Cat
<1> HIDE DEF R, B, Q, W
<1>2. R \in Seq(S) /\ B \in Seq(S) /\ Len(R) = Num(R # <<>>) /\ Len(B) = Num(B # <<>>)
  BY <1>1, OneIsSeq
<1>3. W \in Seq(S) /\ W = Cat(R, Cat(B, Q)) /\ Cat(B, Q) \in Seq(S)
  BY <1>1, <1>2, CatFacts
<1>4. Len(W) = (Num(R # <<>>) + Num(B # <<>>)) + Len(Q)
  <2>1. \A a, b \in Seq(S) : Len(Cat(a, b)) = Len(a) + Len(b) /\ Cat(a, b) \in Seq(S)
    BY CatFacts
  <2>2. Len(W) = Len(Cat(R, B)) + Len(Q) /\ Len(Cat(R, B)) = Len(R) + Len(B)
    BY <1>1, <1>2, <2>1
  <2> QED
    BY <1>2, <2>2
<1>5. ASSUME R # <<>> PROVE W # <<>> /\ R = <<W[1]>>
  <2>1. PICK x \in S : R = <<x>>
    BY <1>1, <1>5 DEF AtMostOneOf
  <2>2. Cat(<<x>>, Cat(B, Q)) # <<>> /\ Cat(<<x>>, Cat(B, Q))[1] = x
    BY <1>3, CatFacts
  <2> QED
    BY <1>3, <2>1, <2>2
<1> QED
  BY <1>3, <1>4, <1>5 DEF R, B, Q, W

LEMMA ErStep ==
    ASSUME NEW S, NEW f, ErShape(f, S), NEW depth, NEW o, AtMostOneOf(S, o),
           o # <<>> => FifoReady(f, depth), NEW t \in BOOLEAN, t => f.res # <<>>,
           NEW g, g = FifoErStep(f, depth, o, t)
    PROVE  ErMoves(S, f, g, t, o)
<1> DEFINE R == f.res
           B == f.bram
           Q == f.q
           t1 == R = <<>> \/ t
           rd == Q # <<>> /\ (B = <<>> \/ t1)
           q0 == IF rd THEN Tail(Q) ELSE Q
           q1 == Cat(q0, o)
           b1 == IF rd THEN <<Head(Q)>> ELSE IF t1 THEN <<>> ELSE B
           r1 == IF t1 THEN B ELSE R
           h  == FifoErStep(f, depth, o, t)
<1>1. h = [q |-> q1, bram |-> b1, res |-> r1]
  <2>1. (IF FifoReady(f, depth) THEN o ELSE <<>>) = o
    OBVIOUS
  <2> QED
    BY <2>1 DEF FifoErStep, Cat
<1>2. Q \in Seq(S) /\ AtMostOneOf(S, B) /\ AtMostOneOf(S, R)
  BY DEF ErShape
<1>3. FifoWords(f) = Cat(R, Cat(B, Q))
  BY ErWords
<1>4. t => R # <<>>
  OBVIOUS
<1> HIDE DEF h, R, B, Q
<1>5. R \in Seq(S) /\ B \in Seq(S) /\ o \in Seq(S) /\ <<>> \in Seq(S)
  BY <1>2, OneIsSeq
<1>6. q0 \in Seq(S) /\ AtMostOneOf(S, b1) /\ AtMostOneOf(S, r1)
  <2>1. Q # <<>> => Head(Q) \in S /\ Tail(Q) \in Seq(S)
    BY <1>2, HeadAndTail
  <2> QED
    BY <1>2, <2>1 DEF AtMostOneOf
<1>7. q1 \in Seq(S) /\ b1 \in Seq(S) /\ r1 \in Seq(S)
  BY <1>5, <1>6, OneIsSeq, CatFacts
<1>8. Cat(b1, q0) = Cat(Left(B, t1), Q)
  <2>1. CASE rd
    <3>1. Cat(<<Head(Q)>>, Tail(Q)) = Q
      BY <1>2, <2>1, HeadAndTail DEF Cat
    <3>2. Left(B, t1) = <<>> /\ Cat(<<>>, Q) = Q
      BY <1>2, <2>1, CatFacts DEF Left
    <3> QED
      BY <2>1, <3>1, <3>2
  <2>2. CASE ~rd
    BY <2>2 DEF Left
  <2> QED
    BY <2>1, <2>2
<1>9. ErShape(h, S) /\ h.q = q1 /\ h.bram = b1 /\ h.res = r1
  BY <1>1, <1>6, <1>7 DEF ErShape
<1>10. FifoWords(h) = Cat(r1, Cat(b1, q1))
  BY <1>9, ErWords
<1>11. Cat(b1, q1) = Cat(Left(B, t1), Cat(Q, o))
  <2>1. Left(B, t1) \in Seq(S)
    BY <1>5 DEF Left
  <2>2. Cat(b1, Cat(q0, o)) = Cat(Cat(b1, q0), o) /\ Cat(Cat(Left(B, t1), Q), o) = Cat(Left(B, t1), Cat(Q, o))
    <3> HIDE DEF q0, b1, t1
    <3> QED
      BY <1>2, <1>5, <1>6, <1>7, <2>1, CatFacts
  <2> QED
    BY <1>8, <2>2
<1>12. FifoWords(h) = Cat(Popped(FifoWords(f), Num(t)), o)
  <2>1. Cat(R, Cat(B, Q)) = Cat(Cat(R, B), Q)
    BY <1>2, <1>5, CatFacts
  <2>2. CASE t
    <3>1. PICK x \in S : R = <<x>>
      BY <1>2, <1>4, <2>2 DEF AtMostOneOf
    <3>2. Cat(B, Q) \in Seq(S)
      BY <1>2, <1>5, CatFacts
    <3>3. Popped(FifoWords(f), Num(t)) = Cat(B, Q)
      <4>1. Tail(Cat(<<x>>, Cat(B, Q))) = Cat(B, Q)
        BY <3>2, CatFacts
      <4> QED
        BY <1>3, <2>2, <3>1, <4>1 DEF Popped, Num
    <3>4. Cat(Left(B, t1), Cat(Q, o)) = Cat(Q, o) /\ r1 = B
      <4>1. Cat(Q, o) \in Seq(S)
        BY <1>2, <1>5, CatFacts
      <4> QED
        BY <2>2, <4>1, CatFacts DEF Left
    <3>5. Cat(B, Cat(Q, o)) = Cat(Cat(B, Q), o)
      BY <1>2, <1>5, CatFacts
    <3> QED
      BY <1>10, <1>11, <3>3, <3>4, <3>5
  <2>3. CASE ~t
    <3>1. Popped(FifoWords(f), Num(t)) = Cat(R, Cat(B, Q))
      BY <1>3, <2>3 DEF Popped, Num
    <3>2. Cat(r1, Cat(Left(B, t1), Cat(Q, o))) = Cat(R, Cat(B, Cat(Q, o)))
      <4>1. Cat(Q, o) \in Seq(S)
        BY <1>2, <1>5, CatFacts
      <4>2. Cat(B, Cat(Q, o)) \in Seq(S) /\ Cat(<<>>, Cat(Q, o)) = Cat(Q, o)
        BY <1>5, <4>1, CatFacts
      <4>3. Cat(<<>>, Cat(B, Cat(Q, o))) = Cat(B, Cat(Q, o))
        BY <4>2, CatFacts
      <4> QED
        BY <2>3, <4>2, <4>3 DEF Left
    <3>3. Cat(R, Cat(B, Cat(Q, o))) = Cat(Cat(R, Cat(B, Q)), o)
      <4>1. Cat(B, Cat(Q, o)) = Cat(Cat(B, Q), o) /\ Cat(B, Q) \in Seq(S)
        BY <1>2, <1>5, CatFacts
      <4> QED
        BY <1>5, <4>1, CatFacts
    <3> QED
      BY <1>10, <1>11, <3>1, <3>2, <3>3
  <2> QED
    BY <2>2, <2>3
<1>13. b1 = <<>> => Q = <<>> /\ q1 = o
  <2>1. b1 = <<>> => Q = <<>>
    OBVIOUS
  <2>2. Cat(<<>>, o) = o
    BY <1>5, CatFacts
  <2> QED
    BY <2>1, <2>2
<1>14. r1 = <<>> => B = <<>> /\ (R = <<>> \/ t)
  OBVIOUS
<1>15. B = <<>> => q1 = Cat(Popped(Q, Num(Q # <<>>)), o)
  BY DEF Popped, Num
<1> HIDE DEF q1, b1, r1, t1
<1>16. ErMoves(S, f, h, t, o)
  BY <1>9, <1>12, <1>13, <1>14, <1>15 DEF ErMoves, R, B, Q
<1> QED
  BY <1>16 DEF h

-----------------------------------------------------------------------------
(***************************************************************************)
(* Rings of slots, and remainders.                                          *)
(***************************************************************************)
(* The places of a ring of n slots, counted from r.                          *)
Ahead(n, r, i) == IF i >= r THEN (i - r) + 1 ELSE ((i - r) + 1) + n

LEMMA RingNext ==
    ASSUME NEW n \in Nat, n >= 2, NEW i \in 0 .. n - 1
    PROVE  (i + 1) % n = (IF i = n - 1 THEN 0 ELSE i + 1) /\ (i + 1) % n \in 0 .. n - 1
<1>1. CASE i = n - 1
  <2>1. n % n = 0
    BY Z3
  <2> QED
    BY <1>1, <2>1
<1>2. CASE i # n - 1
  <2>1. i + 1 \in 0 .. n - 1
    BY <1>2
  <2>2. \A x \in 0 .. n - 1 : x % n = x
    BY Z3
  <2> QED
    BY <1>2, <2>1, <2>2
<1> QED
  BY <1>1, <1>2

LEMMA RingFacts ==
    ASSUME NEW n \in Nat, n >= 2, NEW r \in 0 .. n - 1
    PROVE  /\ Ahead(n, r, r) = 1
           /\ \A i \in 0 .. n - 1 : Ahead(n, r, i) \in 1 .. n
           /\ \A i, j \in 0 .. n - 1 : Ahead(n, r, i) = Ahead(n, r, j) => i = j
           /\ \A i \in 0 .. n - 1 :
                Ahead(n, (r + 1) % n, i) = IF i = r THEN n ELSE Ahead(n, r, i) - 1
           /\ \A w \in 0 .. n - 1 : Ahead(n, r, w) < n => Ahead(n, r, (w + 1) % n) = Ahead(n, r, w) + 1
<1>1. (r + 1) % n = (IF r = n - 1 THEN 0 ELSE r + 1)
  BY RingNext
<1>2. ASSUME NEW i \in 0 .. n - 1
      PROVE  Ahead(n, (r + 1) % n, i) = IF i = r THEN n ELSE Ahead(n, r, i) - 1
  BY <1>1 DEF Ahead
<1>3. ASSUME NEW w \in 0 .. n - 1, Ahead(n, r, w) < n
      PROVE  Ahead(n, r, (w + 1) % n) = Ahead(n, r, w) + 1
  <2>1. (w + 1) % n = (IF w = n - 1 THEN 0 ELSE w + 1)
    BY RingNext
  <2> QED
    BY <1>3, <2>1 DEF Ahead
<1>4. /\ Ahead(n, r, r) = 1
      /\ \A i \in 0 .. n - 1 : Ahead(n, r, i) \in 1 .. n
      /\ \A i, j \in 0 .. n - 1 : Ahead(n, r, i) = Ahead(n, r, j) => i = j
  BY DEF Ahead
<1> QED
  BY <1>2, <1>3, <1>4

LEMMA DivMod ==
    ASSUME NEW n \in Nat \ {0}, NEW a \in Nat
    PROVE  a = n * (a \div n) + (a % n) /\ (a \div n) \in Nat /\ a % n \in 0 .. n - 1
  OBVIOUS

(* Two numbers with one quotient are less than n apart, and numbers less     *)
(* than n apart with one remainder are the same.                             *)
LEMMA Quotients ==
    ASSUME NEW n \in Nat \ {0}, NEW a \in Nat, NEW b \in Nat, a \div n = b \div n
    PROVE  a < b + n
<1>1. a = n * (a \div n) + (a % n) /\ a % n \in 0 .. n - 1
  BY DivMod
<1>2. b = n * (b \div n) + (b % n) /\ b % n \in 0 .. n - 1 /\ b \div n \in Nat
  BY DivMod
<1> DEFINE p == n * (b \div n)
<1>3. p \in Int /\ a = p + (a % n) /\ b = p + (b % n)
  BY <1>1, <1>2
<1> HIDE DEF p
<1> QED
  BY <1>1, <1>2, <1>3

LEMMA Remainders ==
    ASSUME NEW n \in Nat \ {0}, NEW a \in Nat, NEW b \in Nat, a <= b, b < a + n, a % n = b % n
    PROVE  a = b
<1> DEFINE p == a \div n
           q == b \div n
<1>1. a = n * p + (a % n) /\ p \in Nat /\ a % n \in 0 .. n - 1
  BY DivMod
<1>2. b = n * q + (b % n) /\ q \in Nat /\ b % n \in 0 .. n - 1
  BY DivMod
<1> HIDE DEF p, q
<1>3. n * (q - p) = b - a /\ q - p \in Int
  BY <1>1, <1>2
<1>4. CASE q - p >= 1
  <2>1. n * (q - p) >= n
    BY <1>1, <1>2, <1>4
  <2> QED
    BY <1>3, <2>1
<1>5. CASE q - p <= -1
  <2>1. n * (p - q) >= n
    BY <1>5, <1>1, <1>2
  <2>2. n * (p - q) = a - b
    BY <1>1, <1>2
  <2> QED
    BY <2>1, <2>2
<1>6. CASE q - p = 0
  BY <1>3, <1>6
<1> QED
  BY <1>1, <1>2, <1>4, <1>5, <1>6

==============================================================================
