------------------------- MODULE PipelineProofs -------------------------
(***************************************************************************)
(* The pipeline: its speculation loop, for every program, every size of the *)
(* predictor's tables and every way its jumps, returns and interrupts may   *)
(* go (Speculation); and how an interrupt gets into it, for every program,  *)
(* every mask and every number of request lines (Interrupts).               *)
(***************************************************************************)
EXTENDS Speculation, Interrupts, SequenceTheorems, WellFoundedInduction, TLAPS

AtMostOne(q) == q = <<>> \/ q = <<q[1]>>

Shapes ==
    /\ AtMostOne(jump_m) /\ AtMostOne(instr_m)
    /\ AtMostOne(rr) /\ AtMostOne(exec) /\ AtMostOne(jmp_dout)
    /\ AtMostOne(instr_reg) \/ instr_reg = <<instr_reg[1], instr_reg[2]>>

(* Where the front end believes the program goes after an instruction.       *)
Follow(i) == IF i.taken THEN i.target[1] ELSE follows(i)

(* Only these are foretold to be taken.                                      *)
Foretells(i) == i.taken => op(i.addr) \in {"BRANCH", "RET"}

(* The address of the next instruction: from the decoder's side, after the   *)
(* predictor's output register, and after register_reader.                   *)
Streamed ==
    IF jump_m # <<>> THEN jump_m[1]
    ELSE IF instr_reg # <<>> THEN instr_reg[1].addr ELSE front_ip
Coming == IF instr_m # <<>> THEN instr_m[1].addr ELSE Streamed
Ahead  == IF rr # <<>> THEN rr[1].addr ELSE Coming

(* Behind a jump that is on its way to the prefetcher anything may wait, for *)
(* it is dropped; otherwise the decoder goes straight on.                    *)
StraightOn ==
    jump_m = <<>> /\ instr_reg # <<>> =>
        \/ /\ instr_reg = <<instr_reg[1]>>
           /\ front_ip = Code[instr_reg[1].addr].next
        \/ /\ instr_reg = <<instr_reg[1], instr_reg[2]>>
           /\ instr_reg[2].addr = Code[instr_reg[1].addr].next
           /\ front_ip = Code[instr_reg[2].addr].next

(* Every instruction is followed by the one foretold to follow it.           *)
FrontInv ==
    /\ StraightOn
    /\ instr_m # <<>> =>
          /\ instr_m[1].taken \in BOOLEAN /\ Foretells(instr_m[1])
          /\ Follow(instr_m[1]) = Streamed

ReaderInv ==
    rr # <<>> =>
        /\ rr[1].ext \in BOOLEAN /\ rr[1].taken \in BOOLEAN
        /\ Foretells(rr[1]) /\ (rr[1].ext => ~rr[1].taken)
        /\ ~rr[1].ext => Follow(rr[1]) = Coming

(* What waits is where the program goes, unless a correction is under way or *)
(* a jump is being worked on, and then it is where the jump was foretold.    *)
ExecInv ==
    /\ exec # <<>> =>
          /\ jmp_dout = <<>>
          /\ exec[1].ext \in BOOLEAN /\ exec[1].taken \in BOOLEAN
          /\ to_resolve(exec[1])
          /\ exec[1].ext => ~exec[1].taken
          /\ ~exec[1].ext => Follow(exec[1]) = Ahead
    /\ event_jump => jmp_dout[1].jump = expect_addr
    /\ exec = <<>> /\ ~event_jump => Ahead = expect_addr

(* The inductive invariant.                                                  *)
OrderInv == Shapes /\ FrontInv /\ ReaderInv /\ ExecInv

LEMMA OrderInit == PathInit => OrderInv
  BY DEF PathInit, BpuInit, OrderInv, Shapes, AtMostOne, FrontInv, StraightOn, ReaderInv, ExecInv,
         Streamed, Coming, Ahead, event_jump, mispredicted

LEMMA OrderGives == OrderInv => TakesProgramOrder
  BY DEF OrderInv, ExecInv, TakesProgramOrder, takes, Ahead, event_jump, mispredicted

-----------------------------------------------------------------------------
(* The skid buffer at the predictor's input.                                 *)
LEMMA Short ==
    ASSUME NEW a, NEW b
    PROVE  /\ <<>> \o <<>> = <<>> /\ <<>> \o <<a>> = <<a>> /\ <<a>> \o <<>> = <<a>>
           /\ <<a, b>> \o <<>> = <<a, b>> /\ <<a>> \o <<b>> = <<a, b>>
           /\ Tail(<<a>>) = <<>> /\ Tail(<<a, b>>) = <<b>>
           /\ Head(<<a>>) = a /\ Head(<<a, b>>) = a
           /\ Len(<<>>) = 0 /\ Len(<<a>>) = 1 /\ Len(<<a, b>>) = 2
<1>1. /\ <<>> \in Seq({a, b}) /\ <<a>> \in Seq({a, b}) /\ <<b>> \in Seq({a, b})
      /\ <<a, b>> \in Seq({a, b})
  OBVIOUS
<1>2. \A s \in Seq({a, b}) : s \o <<>> = s /\ <<>> \o s = s
  BY ConcatEmptySeq
<1>3. /\ Tail(<<a>>) = <<>> /\ Head(<<a>>) = a /\ Head(<<a, b>>) = a
      /\ Len(<<>>) = 0 /\ Len(<<a>>) = 1 /\ Len(<<a, b>>) = 2
  OBVIOUS
<1>4. Tail(<<a, b>>) = <<b>>
  OBVIOUS
<1>5. <<a>> \o <<b>> = <<a, b>>
  <2>1. (<<a>> \o <<b>>) \in Seq({a, b})
    BY <1>1
  <2>2. Len(<<a>> \o <<b>>) = 2 /\ (<<a>> \o <<b>>)[1] = a /\ (<<a>> \o <<b>>)[2] = b
    BY <1>1
  <2>3. \A i \in 1 .. 2 : (<<a>> \o <<b>>)[i] = <<a, b>>[i]
    BY <2>2
  <2> QED
    BY <1>1, <1>3, <2>1, <2>2, <2>3, SeqEqual
<1> QED
  BY <1>1, <1>2, <1>3, <1>4, <1>5

(* The edge of the input register while no jump is sent, by what it holds.   *)
LEMMA SkidEmpty ==
    ASSUME NEW t \in BOOLEAN, NEW e, NEW o, o = <<>> \/ o = <<e>>
    PROVE  RegReady(<<>>) /\ RegOut(<<>>) = <<>> /\ RegStep(<<>>, o, t) = o
<1>1. <<>> \o o = o /\ Len(<<>>) = 0
  BY Short
<1> QED
  BY <1>1 DEF RegStep, RegReady, RegOut

LEMMA SkidOne ==
    ASSUME NEW t \in BOOLEAN, NEW a, NEW e, NEW o, o = <<>> \/ o = <<e>>
    PROVE  /\ RegReady(<<a>>) /\ RegOut(<<a>>) = <<a>>
           /\ t  => RegStep(<<a>>, o, t) = o
           /\ ~t => RegStep(<<a>>, o, t) = (IF o = <<>> THEN <<a>> ELSE <<a, e>>)
<1>1. /\ <<a>> # <<>> /\ Len(<<a>>) = 1 /\ Tail(<<a>>) = <<>> /\ Head(<<a>>) = a
      /\ <<>> \o o = o /\ <<a>> \o o = (IF o = <<>> THEN <<a>> ELSE <<a, e>>)
  BY Short, ZenonT(30)
<1>2. RegReady(<<a>>) /\ RegOut(<<a>>) = <<a>>
  BY <1>1 DEF RegReady, RegOut
<1>3. RegStep(<<a>>, o, t) = (IF t THEN <<>> ELSE <<a>>) \o o
  BY <1>1, <1>2 DEF RegStep
<1> QED
  BY <1>1, <1>2, <1>3

LEMMA SkidTwo ==
    ASSUME NEW t \in BOOLEAN, NEW a, NEW b, NEW o
    PROVE  /\ ~RegReady(<<a, b>>) /\ RegOut(<<a, b>>) = <<a>>
           /\ RegStep(<<a, b>>, o, t) = (IF t THEN <<b>> ELSE <<a, b>>)
<1>1. /\ <<a, b>> # <<>> /\ Len(<<a, b>>) = 2 /\ Tail(<<a, b>>) = <<b>> /\ Head(<<a, b>>) = a
      /\ <<b>> \o <<>> = <<b>> /\ <<a, b>> \o <<>> = <<a, b>>
  BY Short
<1>2. ~RegReady(<<a, b>>) /\ RegOut(<<a, b>>) = <<a>>
  BY <1>1 DEF RegReady, RegOut
<1>3. RegStep(<<a, b>>, o, t) = (IF t THEN <<b>> ELSE <<a, b>>) \o <<>>
  BY <1>1, <1>2 DEF RegStep
<1> QED
  BY <1>1, <1>2, <1>3

-----------------------------------------------------------------------------
(* The front end's edge, whatever is offered.                                *)
FrontEdge(given, m_rdy) ==
    /\ BpuClock(IF given THEN <<front_ip>> ELSE <<>>, m_rdy, jmp_dout)
    /\ front_ip' = IF jump_m # <<>> THEN jump_m[1]
                   ELSE IF given /\ RegReady(instr_reg) THEN Code[front_ip].next
                   ELSE front_ip

(* A correction empties the output register and is sent to the prefetcher.   *)
Corrects == instr_m' = <<>> /\ jump_m' = <<expect_addr>>
(* No instruction passes, and the next one to come stays the same.           *)
Waits(left) == instr_m' = left /\ Streamed' = Streamed
(* The next instruction passes, and what comes after it is what was foretold *)
(* to follow it.                                                             *)
Passes(left) ==
    /\ left = <<>> /\ instr_m' = <<instr_m'[1]>> /\ instr_m'[1].addr = Streamed
    /\ instr_m'[1].taken \in BOOLEAN /\ Foretells(instr_m'[1])
    /\ Follow(instr_m'[1]) = Streamed'

(* What is handed on says where the prefetcher was sent.                     *)
LEMMA PassFollows ==
    ASSUME NEW x, NEW m_rdy \in BOOLEAN, passing(m_rdy, jmp_dout) = <<x>>, ~event_jump,
           Forward(m_rdy, jmp_dout), DriveJump(m_rdy, jmp_dout)
    PROVE  /\ instr_m' = <<instr_m'[1]>> /\ instr_m'[1].addr = x.addr
           /\ instr_m'[1].taken \in BOOLEAN /\ Foretells(instr_m'[1])
           /\ \/ jump_m' = <<>> /\ Follow(instr_m'[1]) = Code[x.addr].next
              \/ jump_m' = <<Follow(instr_m'[1])>>
<1> DEFINE R == [addr |-> x.addr, taken |-> bpu_taken(x), first |-> x.hit = {},
                 target |-> IF bpu_taken(x) THEN <<bpu_target(x)>> ELSE <<>>]
<1>1. <<x>> # <<>> /\ <<x>>[1] = x
  OBVIOUS
<1>2. instr_m' = <<R>>
  BY <1>1 DEF Forward, event_jump
<1>3. instr_m'[1] = R /\ R.addr = x.addr /\ R.taken = bpu_taken(x) /\ R.target =
         (IF bpu_taken(x) THEN <<bpu_target(x)>> ELSE <<>>)
  BY <1>2
<1>4. bpu_taken(x) \in BOOLEAN /\ (bpu_taken(x) => op(x.addr) \in {"BRANCH", "RET"})
  BY DEF bpu_taken, pops, foretold
<1>f. Foretells(R)
  BY <1>3, <1>4 DEF Foretells
<1>5. Follow(R) = IF bpu_taken(x) THEN bpu_target(x) ELSE follows(x)
  BY <1>3, <1>4 DEF Follow, follows
<1>6. jump_m' = IF pops(x) THEN <<Head(lifo)>>
                ELSE IF op(x.addr) \in {"JMPU", "JCALL"} THEN <<Code[x.addr].target>>
                ELSE IF foretold(x) THEN <<item(x).jump>>
                ELSE <<>>
  BY <1>1 DEF DriveJump, event_jump
<1>7. CASE pops(x)
  BY <1>2, <1>3, <1>4, <1>f, <1>5, <1>6, <1>7 DEF bpu_taken, bpu_target
<1>8. CASE ~pops(x) /\ op(x.addr) \in {"JMPU", "JCALL"}
  <2>1. ~foretold(x)
    BY <1>8 DEF foretold
  <2> QED
    BY <1>2, <1>3, <1>4, <1>f, <1>5, <1>6, <1>8, <2>1 DEF bpu_taken, follows
<1>9. CASE ~pops(x) /\ op(x.addr) \notin {"JMPU", "JCALL"} /\ foretold(x)
  BY <1>2, <1>3, <1>4, <1>f, <1>5, <1>6, <1>9 DEF bpu_taken, bpu_target
<1>10. CASE ~pops(x) /\ op(x.addr) \notin {"JMPU", "JCALL"} /\ ~foretold(x)
  BY <1>2, <1>3, <1>4, <1>f, <1>5, <1>6, <1>10 DEF bpu_taken, follows
<1> QED
  BY <1>7, <1>8, <1>9, <1>10

(* Nothing passes.                                                           *)
LEMMA Held ==
    ASSUME NEW m_rdy \in BOOLEAN, passing(m_rdy, jmp_dout) = <<>>,
           Forward(m_rdy, jmp_dout), DriveJump(m_rdy, jmp_dout)
    PROVE  /\ instr_m' = IF event_jump THEN <<>> ELSE IF m_rdy THEN <<>> ELSE instr_m
           /\ jump_m' = IF event_jump THEN <<jmp_dout[1].jump>> ELSE <<>>
  BY DEF Forward, DriveJump, event_jump

LEMMA FrontStep ==
    ASSUME OrderInv, NEW given \in BOOLEAN, NEW m_rdy \in BOOLEAN, FrontEdge(given, m_rdy)
    PROVE  LET left == IF m_rdy THEN <<>> ELSE instr_m IN
           /\ AtMostOne(jump_m)' /\ AtMostOne(instr_m)'
           /\ AtMostOne(instr_reg)' \/ (instr_reg = <<instr_reg[1], instr_reg[2]>>)'
           /\ StraightOn'
           /\ IF event_jump THEN Corrects ELSE Waits(left) \/ Passes(left)
<1> DEFINE left  == IF m_rdy THEN <<>> ELSE instr_m
           ready == instr_s_tready(m_rdy, jmp_dout)
           p == passing(m_rdy, jmp_dout)
           e == [addr |-> front_ip, hit |-> hits(front_ip)]
           o == IF given THEN <<e>> ELSE <<>>
           a == instr_reg[1]
           b == instr_reg[2]
<1>1. Shapes /\ StraightOn /\ (event_jump => jmp_dout[1].jump = expect_addr)
  BY DEF OrderInv, FrontInv, ExecInv
<1>2. /\ o = <<>> \/ o = <<e>>
      /\ e.addr = front_ip
      /\ given => <<e>> # <<>> /\ o = <<e>> /\ <<e>>[1] = e
      /\ ~given => o = <<>>
  OBVIOUS
<1>3. instr_reg' = IF jump_m # <<>> THEN <<>> ELSE RegStep(instr_reg, o, ready)
  BY DEF FrontEdge, BpuClock, InputRegs
<1>4. Forward(m_rdy, jmp_dout) /\ DriveJump(m_rdy, jmp_dout)
  BY DEF FrontEdge, BpuClock
<1>5. front_ip' = IF jump_m # <<>> THEN jump_m[1]
                  ELSE IF given /\ RegReady(instr_reg) THEN Code[front_ip].next
                  ELSE front_ip
  BY DEF FrontEdge
<1>6. ready \in BOOLEAN /\ (ready => jump_m = <<>> /\ ~event_jump /\ left = <<>>)
  BY DEF instr_s_tready, event_jump, mispredicted
<1>7. p = IF ready THEN RegOut(instr_reg) ELSE <<>>
  BY DEF passing
<1>8. AtMostOne(instr_m) /\ AtMostOne(jump_m)
  BY <1>1 DEF Shapes
<1>9. p = <<>> => /\ instr_m' = IF event_jump THEN <<>> ELSE left
                  /\ jump_m' = IF event_jump THEN <<expect_addr>> ELSE <<>>
                  /\ AtMostOne(jump_m)' /\ AtMostOne(instr_m)'
  BY <1>1, <1>4, <1>8, Held DEF AtMostOne
<1>10. ASSUME NEW x, p = <<x>>
       PROVE  /\ instr_m' = <<instr_m'[1]>> /\ instr_m'[1].addr = x.addr
              /\ instr_m'[1].taken \in BOOLEAN /\ Foretells(instr_m'[1])
              /\ \/ jump_m' = <<>> /\ Follow(instr_m'[1]) = Code[x.addr].next
                 \/ jump_m' = <<Follow(instr_m'[1])>>
              /\ ready /\ AtMostOne(jump_m)' /\ AtMostOne(instr_m)'
  <2>1. ready
    BY <1>7, <1>10
  <2>2. /\ instr_m' = <<instr_m'[1]>> /\ instr_m'[1].addr = x.addr
        /\ instr_m'[1].taken \in BOOLEAN /\ Foretells(instr_m'[1])
        /\ \/ jump_m' = <<>> /\ Follow(instr_m'[1]) = Code[x.addr].next
           \/ jump_m' = <<Follow(instr_m'[1])>>
    BY <1>4, <1>6, <1>10, <2>1, PassFollows
  <2> QED
    BY <2>1, <2>2 DEF AtMostOne
<1> HIDE DEF left, ready, p, e, o
<1>11. CASE jump_m # <<>>
  <2>1. p = <<>> /\ instr_reg' = <<>> /\ front_ip' = jump_m[1]
    BY <1>3, <1>5, <1>6, <1>7, <1>11
  <2>2. /\ AtMostOne(instr_reg)' /\ StraightOn'
        /\ ~event_jump => Streamed' = Streamed
    BY <1>9, <1>11, <2>1 DEF AtMostOne, StraightOn, Streamed
  <2> QED
    BY <1>9, <2>1, <2>2 DEF Corrects, Waits, left
<1>12. CASE jump_m = <<>> /\ instr_reg = <<>>
  <2>1. p = <<>> /\ instr_reg' = o /\ front_ip' = IF given THEN Code[front_ip].next ELSE front_ip
    BY <1>2, <1>3, <1>5, <1>6, <1>7, <1>12, SkidEmpty
  <2>2. AtMostOne(instr_reg)' /\ StraightOn'
    BY <1>2, <2>1 DEF AtMostOne, StraightOn
  <2>3. ~event_jump => Streamed' = Streamed
    BY <1>2, <1>9, <1>12, <2>1 DEF Streamed
  <2> QED
    BY <1>9, <2>1, <2>2, <2>3 DEF Corrects, Waits, left
<1>13. CASE jump_m = <<>> /\ instr_reg = <<a>>
  <2>0. <<a>> # <<>> /\ <<a>> # <<a, b>>
    OBVIOUS
  <2>1. front_ip = Code[a.addr].next
    <3> HIDE DEF a, b
    <3>1. a = instr_reg[1] /\ b = instr_reg[2]
      BY DEF a, b
    <3> QED
      BY <1>1, <1>13, <2>0, <3>1 DEF StraightOn
  <2>2. /\ RegReady(<<a>>) /\ RegOut(<<a>>) = <<a>>
        /\ ready  => RegStep(<<a>>, o, ready) = o
        /\ ~ready => RegStep(<<a>>, o, ready) = (IF o = <<>> THEN <<a>> ELSE <<a, e>>)
    BY <1>2, <1>6, SkidOne
  <2>3. front_ip' = IF given THEN Code[front_ip].next ELSE front_ip
    BY <1>5, <1>13, <2>2
  <2>4. CASE ready
    <3>1. p = <<a>> /\ instr_reg' = o
      BY <1>3, <1>7, <1>13, <2>2, <2>4
    <3>2. (AtMostOne(instr_reg) /\ StraightOn)'
      BY <1>2, <2>3, <3>1 DEF AtMostOne, StraightOn
    <3>3. jump_m' = <<>> => Streamed' = Code[a.addr].next
      BY <1>2, <2>1, <2>3, <3>1 DEF Streamed
    <3>4. \A x : jump_m' = <<x>> => Streamed' = x
      BY DEF Streamed
    <3>5. Streamed = a.addr
      BY <1>13 DEF Streamed
    <3>6. Passes(left)
      BY <1>6, <1>10, <2>4, <3>1, <3>3, <3>4, <3>5 DEF Passes
    <3> QED
      BY <1>6, <1>10, <2>4, <3>1, <3>2, <3>6 DEF left
  <2>5. CASE ~ready
    <3>1. p = <<>> /\ instr_reg' = IF given THEN <<a, e>> ELSE <<a>>
      BY <1>2, <1>3, <1>7, <1>13, <2>2, <2>5
    <3>2. (AtMostOne(instr_reg) \/ instr_reg = <<instr_reg[1], instr_reg[2]>>)' /\ StraightOn'
      BY <1>2, <2>1, <2>3, <3>1 DEF AtMostOne, StraightOn
    <3>3. ~event_jump => Streamed' = Streamed
      BY <1>9, <1>13, <3>1 DEF Streamed
    <3> QED
      BY <1>9, <3>1, <3>2, <3>3 DEF Corrects, Waits, left
  <2> QED
    BY <2>4, <2>5
<1>14. CASE jump_m = <<>> /\ instr_reg = <<a, b>>
  <2>1. b.addr = Code[a.addr].next /\ front_ip = Code[b.addr].next
    BY <1>1, <1>14 DEF StraightOn
  <2>2. /\ ~RegReady(<<a, b>>) /\ RegOut(<<a, b>>) = <<a>>
        /\ RegStep(<<a, b>>, o, ready) = (IF ready THEN <<b>> ELSE <<a, b>>)
    BY <1>2, <1>6, SkidTwo
  <2>3. front_ip' = front_ip /\ instr_reg' = IF ready THEN <<b>> ELSE <<a, b>>
    BY <1>3, <1>5, <1>14, <2>2
  <2>4. (AtMostOne(instr_reg) \/ instr_reg = <<instr_reg[1], instr_reg[2]>>)' /\ StraightOn'
    BY <2>1, <2>3 DEF AtMostOne, StraightOn
  <2>5. Streamed = a.addr
    BY <1>14 DEF Streamed
  <2>6. CASE ready
    <3>1. p = <<a>>
      BY <1>7, <1>14, <2>2, <2>6
    <3>2. jump_m' = <<>> => Streamed' = Code[a.addr].next
      BY <2>1, <2>3, <2>6 DEF Streamed
    <3>3. \A x : jump_m' = <<x>> => Streamed' = x
      BY DEF Streamed
    <3>4. Passes(left)
      BY <1>6, <1>10, <2>5, <2>6, <3>1, <3>2, <3>3 DEF Passes
    <3> QED
      BY <1>6, <1>10, <2>4, <2>6, <3>1, <3>4 DEF left
  <2>7. CASE ~ready
    <3>1. p = <<>>
      BY <1>7, <2>7
    <3>2. ~event_jump => Streamed' = Streamed
      BY <1>9, <1>14, <2>3, <2>7, <3>1 DEF Streamed
    <3> QED
      BY <1>9, <2>4, <3>1, <3>2 DEF Corrects, Waits, left
  <2> QED
    BY <2>6, <2>7
<1> QED
  BY <1>1, <1>11, <1>12, <1>13, <1>14 DEF Shapes, AtMostOne, left

-----------------------------------------------------------------------------
(* What an outcome does to the expectation.                                  *)
LEMMA Resolved ==
    ASSUME NEW i, i.ext \in BOOLEAN, i.taken \in BOOLEAN, to_resolve(i), i.ext => ~i.taken,
           NEW o \in Outcomes(i)
    PROVE  LET r == Resolution(i, o)
               x == IF o.taken THEN o.target ELSE Code[i.addr].next
           IN  /\ r.mismatch \in BOOLEAN
               /\ r.mismatch => r.jump = x
               /\ ~r.mismatch => ~i.ext /\ Follow(i) = x
<1> DEFINE r == Resolution(i, o)
           x == IF o.taken THEN o.target ELSE Code[i.addr].next
<1>1. o.taken \in BOOLEAN /\ (i.ext => o.taken)
  BY DEF Outcomes
<1>2. /\ r.mismatch = (i.taken # o.taken \/ (i.taken /\ o.taken /\ i.target # <<o.target>>))
      /\ r.jump = IF i.taken /\ ~o.taken THEN Code[i.addr].next ELSE o.target
  BY DEF Resolution, mismatch
<1>3. r.mismatch => r.jump = x
  BY <1>1, <1>2
<1>4. ASSUME ~r.mismatch PROVE ~i.ext /\ Follow(i) = x
  <2>1. i.taken = o.taken /\ ~i.ext
    BY <1>1, <1>2, <1>4
  <2>2. CASE i.taken
    <3>1. i.target = <<o.target>> /\ x = o.target
      BY <1>2, <1>4, <2>1, <2>2
    <3>2. i.target[1] = o.target
      BY <3>1
    <3> QED
      BY <2>1, <2>2, <3>1, <3>2 DEF Follow
  <2>3. CASE ~i.taken
    BY <2>1, <2>3 DEF Follow, follows, to_resolve
  <2> QED
    BY <2>1, <2>2, <2>3
<1> QED
  BY <1>1, <1>2, <1>3, <1>4

(* What the edge does to what register_reader and the predictor hold, when   *)
(* no correction is under way.                                               *)
LEMMA ReaderStep ==
    ASSUME OrderInv, NEW given \in BOOLEAN, NEW rdy \in BOOLEAN, NEW ext \in BOOLEAN,
           NEW go \in BOOLEAN, NEW done \in BOOLEAN, Edge(given, rdy, ext, go, done), ~event_jump
    PROVE  /\ FrontInv' /\ ReaderInv' /\ AtMostOne(rr)'
           /\ Ahead' = IF takes(go) THEN Coming ELSE Ahead
<1> DEFINE m    == IF rdy THEN <<>> ELSE instr_m
           Left == IF m # <<>> THEN instr_m[1].addr ELSE Streamed
<1>1. /\ StraightOn'
      /\ Waits(m) \/ Passes(m)
  <2> DEFINE m_rdy == rdy /\ ~ext /\ reader_ready(go) /\ instr_m # <<>>
  <2>1. m_rdy \in BOOLEAN /\ FrontEdge(given, m_rdy)
    BY DEF Edge, FrontEdge
  <2>2. (IF m_rdy THEN <<>> ELSE instr_m) = m
    BY DEF Edge
  <2>3. LET left == IF m_rdy THEN <<>> ELSE instr_m IN StraightOn' /\ (Waits(left) \/ Passes(left))
    <3> HIDE DEF m_rdy
    <3> QED
      BY <2>1, FrontStep
  <2> QED
    BY <2>2, <2>3
<1>2. /\ rdy => reader_ready(go)
      /\ ext => instr_m # <<>> /\ rr = <<>> /\ ~rdy
      /\ Reader(go, rdy, ext)
  BY DEF Edge
<1>3. instr_m # <<>> =>
         /\ instr_m[1].taken \in BOOLEAN /\ Foretells(instr_m[1])
         /\ Follow(instr_m[1]) = Streamed
  BY DEF OrderInv, FrontInv
<1>4. FrontInv'
  <2>1. CASE Waits(m)
    BY <1>1, <1>3, <2>1 DEF FrontInv, Waits
  <2>2. CASE Passes(m)
    BY <1>1, <2>2 DEF FrontInv, Passes
  <2> QED
    BY <1>1, <2>1, <2>2
<1>5. Coming' = Left
  <2>1. CASE Waits(m)
    BY <2>1 DEF Waits, Coming
  <2>2. CASE Passes(m)
    <3>1. \A x : <<x>> # <<>>
      OBVIOUS
    <3>2. instr_m' # <<>>
      BY <2>2, <3>1 DEF Passes
    <3> QED
      BY <2>2, <3>2 DEF Passes, Coming
  <2> QED
    BY <1>1, <2>1, <2>2
<1>6. takes(go) => rr # <<>>
  BY DEF takes
<1>7. AtMostOne(rr) /\ ReaderInv
  BY DEF OrderInv, Shapes
<1> HIDE DEF m, Left
<1>8. CASE ext
  <2> DEFINE x == [addr |-> instr_m[1].addr, ext |-> TRUE, first |-> TRUE,
                   taken |-> FALSE, target |-> <<>>]
  <2>1. rr' = <<x>>
    BY <1>2, <1>8 DEF Reader
  <2>2. Left = instr_m[1].addr /\ Ahead = instr_m[1].addr /\ ~takes(go)
    BY <1>2, <1>6, <1>8 DEF Left, m, Ahead, Coming
  <2>3. ReaderInv' /\ AtMostOne(rr)' /\ Ahead' = instr_m[1].addr
    BY <2>1 DEF ReaderInv, AtMostOne, Ahead, Foretells
  <2> QED
    BY <1>4, <2>2, <2>3
<1>9. CASE ~ext /\ rdy /\ instr_m # <<>>
  <2> DEFINE x == [addr |-> instr_m[1].addr, ext |-> FALSE, first |-> instr_m[1].first,
                   taken |-> instr_m[1].taken, target |-> instr_m[1].target]
  <2>1. rr' = <<x>>
    BY <1>2, <1>9 DEF Reader
  <2>2. Left = Streamed /\ Coming = instr_m[1].addr /\ (~takes(go) => Ahead = Coming)
    BY <1>2, <1>9 DEF Left, m, Ahead, Coming, reader_ready
  <2>3. Follow(x) = Follow(instr_m[1]) /\ Foretells(x)
    BY <1>3, <1>9 DEF Follow, follows, Foretells
  <2>4. /\ rr' # <<>> /\ rr'[1] = x /\ x.ext = FALSE /\ x.taken \in BOOLEAN
        /\ x.addr = instr_m[1].addr
    BY <1>3, <1>9, <2>1
  <2> HIDE DEF x
  <2>5. ReaderInv' /\ AtMostOne(rr)' /\ Ahead' = instr_m[1].addr
    BY <1>3, <1>5, <1>9, <2>1, <2>2, <2>3, <2>4 DEF ReaderInv, AtMostOne, Ahead
  <2> QED
    BY <1>4, <2>2, <2>5
<1>10. CASE ~ext /\ ~(rdy /\ instr_m # <<>>)
  <2>1. Left = Coming
    BY <1>10 DEF Left, m, Coming
  <2>2. rr' = IF takes(go) THEN <<>> ELSE rr
    BY <1>2, <1>10 DEF Reader
  <2> QED
    BY <1>4, <1>5, <1>7, <2>1, <2>2 DEF ReaderInv, AtMostOne, Ahead
<1> QED
  BY <1>8, <1>9, <1>10

(* A correction drops all that waits.                                        *)
LEMMA CorrectionStep ==
    ASSUME OrderInv, NEW given \in BOOLEAN, NEW rdy \in BOOLEAN, NEW ext \in BOOLEAN,
           NEW go \in BOOLEAN, NEW done \in BOOLEAN, Edge(given, rdy, ext, go, done), event_jump
    PROVE  FrontInv' /\ ReaderInv' /\ ExecInv' /\ Shapes'
<1> DEFINE m_rdy == rdy /\ ~ext /\ reader_ready(go) /\ instr_m # <<>>
<1>1. m_rdy \in BOOLEAN /\ FrontEdge(given, m_rdy)
  BY DEF Edge, FrontEdge
<1> HIDE DEF m_rdy
<1>2. /\ AtMostOne(instr_reg)' \/ (instr_reg = <<instr_reg[1], instr_reg[2]>>)'
      /\ StraightOn' /\ Corrects
  BY <1>1, FrontStep
<1>3. jmp_dout # <<>> /\ exec = <<>> /\ ~takes(go)
  BY DEF OrderInv, ExecInv, event_jump, mispredicted, takes
<1>4. rr' = <<>> /\ exec' = <<>> /\ jmp_dout' = <<>> /\ expect_addr' = expect_addr
  BY <1>3 DEF Edge, Reader, Resolve
<1>5. instr_m' = <<>> /\ jump_m' = <<expect_addr>> /\ jump_m' # <<>> /\ jump_m'[1] = expect_addr
  BY <1>2 DEF Corrects
<1> QED
  BY <1>2, <1>4, <1>5
     DEF Shapes, AtMostOne, FrontInv, ReaderInv, ExecInv, Ahead, Coming, Streamed,
                          event_jump, mispredicted

(* An instruction is taken, and what comes next is where it goes.            *)
LEMMA TakeStep ==
    ASSUME OrderInv, ~event_jump, NEW go \in BOOLEAN, takes(go), Take(go), Ahead' = Coming
    PROVE  ExecInv' /\ AtMostOne(exec)' /\ AtMostOne(jmp_dout)'
<1>1. /\ rr = <<rr[1]>> /\ rr # <<>> /\ ReaderInv
      /\ jmp_dout' = <<>>
      /\ exec' = IF to_resolve(rr[1]) THEN rr ELSE <<>>
      /\ expect_addr' = IF to_resolve(rr[1]) THEN expect_addr ELSE follows(rr[1])
  BY DEF takes, Take, OrderInv, Shapes, AtMostOne
<1>2. ~event_jump'
  BY <1>1 DEF event_jump, mispredicted
<1>3. CASE to_resolve(rr[1])
  BY <1>1, <1>2, <1>3 DEF ExecInv, AtMostOne, ReaderInv
<1>4. CASE ~to_resolve(rr[1])
  <2>1. ~rr[1].ext /\ ~rr[1].taken
    BY <1>1, <1>4 DEF to_resolve, ReaderInv, Foretells
  <2>2. Coming = follows(rr[1])
    BY <1>1, <2>1 DEF ReaderInv, Follow
  <2> QED
    BY <1>1, <1>2, <1>4, <2>2 DEF ExecInv, AtMostOne
<1> QED
  BY <1>3, <1>4

(* Nothing is taken; a jump may turn out right or wrong.                     *)
LEMMA ResolveStep ==
    ASSUME OrderInv, ~event_jump, NEW done \in BOOLEAN, Resolve(done), Ahead' = Ahead
    PROVE  ExecInv' /\ AtMostOne(exec)' /\ AtMostOne(jmp_dout)'
<1>1. ExecInv /\ AtMostOne(exec)
  BY DEF OrderInv, Shapes
<1>2. CASE done /\ exec # <<>>
  <2> DEFINE i == exec[1]
  <2>1. PICK o \in Outcomes(i) :
           /\ jmp_dout' = <<Resolution(i, o)>>
           /\ expect_addr' = IF o.taken THEN o.target ELSE Code[i.addr].next
    BY <1>2 DEF Resolve
  <2>2. exec' = <<>>
    BY <1>2 DEF Resolve
  <2> DEFINE r == Resolution(i, o)
  <2>3. /\ i.ext \in BOOLEAN /\ i.taken \in BOOLEAN /\ to_resolve(i)
        /\ i.ext => ~i.taken
        /\ ~i.ext => Follow(i) = Ahead
    BY <1>1, <1>2 DEF ExecInv
  <2> HIDE DEF i
  <2>4. /\ r.mismatch \in BOOLEAN
        /\ r.mismatch => r.jump = expect_addr'
        /\ ~r.mismatch => ~i.ext /\ Follow(i) = expect_addr'
    BY <2>1, <2>3, Resolved
  <2> HIDE DEF r
  <2>5. jmp_dout' = <<r>>
    BY <2>1 DEF r
  <2>6. AtMostOne(jmp_dout)' /\ jmp_dout' # <<>> /\ jmp_dout'[1] = r
    BY <2>5 DEF AtMostOne
  <2>7. event_jump' = r.mismatch
    BY <2>4, <2>6 DEF event_jump, mispredicted
  <2> QED
    BY <2>2, <2>3, <2>4, <2>6, <2>7 DEF ExecInv, AtMostOne
<1>3. CASE ~(done /\ exec # <<>>)
  <2>1. jmp_dout' = <<>> /\ exec' = exec /\ expect_addr' = expect_addr
    BY <1>3 DEF Resolve
  <2>2. ~event_jump'
    BY <2>1 DEF event_jump, mispredicted
  <2> QED
    BY <1>1, <2>1, <2>2 DEF ExecInv, AtMostOne
<1> QED
  BY <1>2, <1>3

LEMMA EdgeStep ==
    ASSUME OrderInv, NEW given \in BOOLEAN, NEW rdy \in BOOLEAN, NEW ext \in BOOLEAN,
           NEW go \in BOOLEAN, NEW done \in BOOLEAN, Edge(given, rdy, ext, go, done)
    PROVE  OrderInv'
<1>1. CASE event_jump
  BY <1>1, CorrectionStep DEF OrderInv
<1>2. CASE ~event_jump
  <2>1. /\ FrontInv' /\ ReaderInv' /\ AtMostOne(rr)'
        /\ Ahead' = IF takes(go) THEN Coming ELSE Ahead
    BY <1>2, ReaderStep
  <2>2. IF takes(go) THEN Take(go) ELSE Resolve(done)
    BY DEF Edge
  <2>3. ExecInv' /\ AtMostOne(exec)' /\ AtMostOne(jmp_dout)'
    BY <1>2, <2>1, <2>2, TakeStep, ResolveStep
  <2>4. /\ AtMostOne(jump_m)' /\ AtMostOne(instr_m)'
        /\ AtMostOne(instr_reg)' \/ (instr_reg = <<instr_reg[1], instr_reg[2]>>)'
    <3> DEFINE m_rdy == rdy /\ ~ext /\ reader_ready(go) /\ instr_m # <<>>
    <3>1. m_rdy \in BOOLEAN /\ FrontEdge(given, m_rdy)
      BY DEF Edge, FrontEdge
    <3> HIDE DEF m_rdy
    <3> QED
      BY <3>1, FrontStep
  <2> QED
    BY <2>1, <2>3, <2>4 DEF OrderInv, Shapes
<1> QED
  BY <1>1, <1>2

LEMMA OrderStep == OrderInv /\ [PathNext]_path_vars => OrderInv'
<1>1. ASSUME OrderInv, UNCHANGED path_vars PROVE OrderInv'
  BY <1>1 DEF path_vars, bpu_vars, OrderInv, Shapes, AtMostOne, FrontInv, StraightOn, ReaderInv,
              ExecInv, Streamed, Coming, Ahead, event_jump, mispredicted
<1> QED
  BY <1>1, EdgeStep DEF PathNext, Looked

(* Whatever the predictor has learned, and wherever jumps, returns and       *)
(* interrupts go, the instructions taken are those of the program, in order. *)
(* (jump_proc, jump_control_proc, register_reader's flush)                   *)
THEOREM ProgramOrder == PathSpec => []TakesProgramOrder
<1>1. PathSpec => []OrderInv
  BY OrderInit, OrderStep, PTL DEF PathSpec
<1> QED
  BY <1>1, OrderGives, PTL
-----------------------------------------------------------------------------
(***************************************************************************)
(* The table of branches.                                                   *)
(***************************************************************************)
OneHit == {{}} \cup {{i} : i \in Items}
BpuItem == [valid : BOOLEAN, saturated_cnt : 0 .. 3, inst : Address, jump : Address]

Remembered ==
    /\ bpu_items \in [Items -> BpuItem]
    /\ next_free_bpu_item_idx \in Items
    /\ \A i, k \in Items :
          bpu_items[i].valid /\ bpu_items[k].valid /\ bpu_items[i].inst = bpu_items[k].inst => i = k

(* The items a resolution hit are still the ones it hits when it is written. *)
HitsAreFresh ==
    d_jump # <<>> =>
        /\ jmp_dout = <<>>
        /\ d_jump[1].j.inst \in Address /\ d_jump[1].j.jump \in Address
        /\ d_jump[1].hit = hits(d_jump[1].j.inst)

Addresses ==
    /\ lifo \in Seq(Address) /\ Len(lifo) <= DEPTH
    /\ instr_reg \in Seq([addr : Address, hit : OneHit]) /\ Len(instr_reg) <= 2
    /\ jump_m \in Foretold /\ front_ip \in Address /\ expect_addr \in Address
    /\ instr_m # <<>> => instr_m[1].addr \in Address
    /\ rr # <<>> => rr[1].addr \in Address
    /\ exec # <<>> => exec[1].addr \in Address
    /\ jmp_dout # <<>> => jmp_dout[1].inst \in Address /\ jmp_dout[1].jump \in Address

TableInv == Remembered /\ HitsAreFresh /\ Addresses

LEMMA CodeType ==
    ASSUME NEW a \in Address
    PROVE  Code[a].next \in Address /\ Code[a].target \in Address
  BY BpuAssumption

LEMMA HitsOne == ASSUME Remembered, NEW a PROVE hits(a) \in OneHit /\ hits(a) \subseteq Items
  BY DEF Remembered, hits, OneHit

(* With one hit, the OR of the positions is the position of the item.        *)
LEMMA HitIndex == ASSUME NEW i \in Items PROVE hit_idx({i}) = i
<1>1. i \in 0 .. 7
  BY BpuAssumption DEF Items
<1>2. hit_idx({i}) = (IF (i \div 1) % 2 = 1 THEN 1 ELSE 0) + (IF (i \div 2) % 2 = 1 THEN 2 ELSE 0)
                     + (IF (i \div 4) % 2 = 1 THEN 4 ELSE 0)
  BY DEF hit_idx
<1> QED
  BY <1>1, <1>2

LEMMA TableInit == PathInit => TableInv
<1> SUFFICES ASSUME PathInit PROVE TableInv
  OBVIOUS
<1>1. Remembered
  BY BpuAssumption DEF PathInit, BpuInit, Remembered, BpuItem, Items
<1>2. HitsAreFresh
  BY DEF PathInit, BpuInit, HitsAreFresh
<1>3. Addresses
  BY BpuAssumption, SpeculationAssumption DEF PathInit, BpuInit, Addresses, Foretold
<1> QED
  BY <1>1, <1>2, <1>3 DEF TableInv

(* What is written is what was hit, or a branch that was not in the table.   *)
LEMMA LearnStep == ASSUME TableInv, Learn PROVE Remembered'
<1> DEFINE j == d_jump[1].j
           New(i) == [valid |-> TRUE, inst |-> j.inst,
                      jump |-> IF j.taken THEN j.jump ELSE bpu_items[i].jump,
                      saturated_cnt |-> counted(bpu_items[i].saturated_cnt, j)]
<1>1. /\ Remembered
      /\ d_jump # <<>> => /\ j.inst \in Address /\ j.jump \in Address
                          /\ d_jump[1].hit = hits(j.inst)
  BY DEF TableInv, HitsAreFresh
<1>2. \A i \in Items : bpu_items'[i] = IF updated(i) THEN New(i) ELSE bpu_items[i]
  BY DEF Learn
<1>3. \A i \in Items : updated(i) => d_jump # <<>> /\ (i \in hits(j.inst) \/ hits(j.inst) = {})
  BY <1>1 DEF updated, learns, allocates
<1>4. \A i, k \in Items : updated(i) /\ updated(k) => i = k
  <2> SUFFICES ASSUME NEW i \in Items, NEW k \in Items, updated(i), updated(k) PROVE i = k
    OBVIOUS
  <2>1. d_jump # <<>> /\ d_jump[1].hit = hits(j.inst)
    BY <1>1, <1>3
  <2>2. CASE hits(j.inst) = {}
    BY <2>1, <2>2 DEF updated
  <2>3. CASE hits(j.inst) # {}
    <3>1. i \in hits(j.inst) /\ k \in hits(j.inst)
      BY <1>3, <2>3
    <3> QED
      BY <1>1, <3>1 DEF hits, Remembered
  <2> QED
    BY <2>2, <2>3
<1> HIDE DEF j
<1>5. \A i \in Items : updated(i) => New(i) \in BpuItem
  <2> SUFFICES ASSUME NEW i \in Items, updated(i) PROVE New(i) \in BpuItem
    OBVIOUS
  <2>1. bpu_items[i] \in BpuItem
    BY <1>1 DEF Remembered
  <2>2. bpu_items[i].jump \in Address /\ bpu_items[i].saturated_cnt \in 0 .. 3
    BY <2>1 DEF BpuItem
  <2>3. counted(bpu_items[i].saturated_cnt, j) \in 0 .. 3
    BY <2>2 DEF counted
  <2> QED
    BY <1>1, <1>3, <2>2, <2>3 DEF BpuItem
<1>6. bpu_items' \in [Items -> BpuItem]
  <2>1. bpu_items' = [i \in Items |-> IF updated(i) THEN New(i) ELSE bpu_items[i]]
    BY DEF Learn, j
  <2>2. \A i \in Items : bpu_items[i] \in BpuItem
    BY <1>1 DEF Remembered
  <2> HIDE DEF New
  <2> QED
    BY <1>5, <2>1, <2>2
<1>7. next_free_bpu_item_idx' \in Items
  <2>1. next_free_bpu_item_idx \in 0 .. BPU_ITEM_CNT - 1 /\ BPU_ITEM_CNT \in 1 .. 8
    BY <1>1, BpuAssumption DEF Remembered, Items
  <2>2. (next_free_bpu_item_idx + 1) % BPU_ITEM_CNT \in 0 .. BPU_ITEM_CNT - 1
    BY <2>1
  <2> QED
    BY <2>1, <2>2 DEF Learn, Items
<1>8. ASSUME NEW i \in Items, NEW k \in Items,
             bpu_items'[i].valid, bpu_items'[k].valid, bpu_items'[i].inst = bpu_items'[k].inst,
             updated(i), ~updated(k)
      PROVE  FALSE
  <2>1. bpu_items[k].valid /\ bpu_items[k].inst = j.inst
    <3>1. bpu_items'[i] = New(i) /\ bpu_items'[k] = bpu_items[k]
      BY <1>2, <1>8
    <3>2. New(i).inst = j.inst
      OBVIOUS
    <3> QED
      BY <1>8, <3>1, <3>2
  <2>2. k \in hits(j.inst) /\ d_jump # <<>> /\ d_jump[1].hit = hits(j.inst)
    BY <1>1, <1>3, <1>8, <2>1 DEF hits
  <2> QED
    BY <1>8, <2>2 DEF updated
<1>9. \A i, k \in Items :
         bpu_items'[i].valid /\ bpu_items'[k].valid /\ bpu_items'[i].inst = bpu_items'[k].inst => i = k
  BY <1>1, <1>2, <1>4, <1>8 DEF Remembered
<1> QED
  BY <1>6, <1>7, <1>9 DEF Remembered

(* Resolutions come on every second edge at most.                            *)
LEMMA FreshStep ==
    ASSUME OrderInv, TableInv, Learn, Delay(jmp_dout),
           NEW go \in BOOLEAN, NEW done \in BOOLEAN,
           IF takes(go) THEN Take(go) ELSE Resolve(done)
    PROVE  HitsAreFresh'
<1> SUFFICES ASSUME jmp_dout # <<>> PROVE HitsAreFresh'
  <2>1. jmp_dout = <<>> => d_jump' = <<>>
    BY DEF Delay
  <2> QED
    BY <2>1 DEF HitsAreFresh
<1>1. d_jump = <<>> /\ exec = <<>>
  BY DEF TableInv, HitsAreFresh, OrderInv, ExecInv
<1>2. \A i \in Items : ~updated(i)
  BY <1>1 DEF updated, learns, allocates
<1>3. bpu_items' = bpu_items
  <2>1. \A i \in Items : bpu_items'[i] = bpu_items[i]
    BY <1>2 DEF Learn
  <2>2. bpu_items' = [i \in Items |-> bpu_items'[i]]
    BY DEF Learn
  <2>3. bpu_items = [i \in Items |-> bpu_items[i]]
    BY DEF TableInv, Remembered
  <2> QED
    BY <2>1, <2>2, <2>3
<1>4. jmp_dout' = <<>>
  BY <1>1 DEF takes, Resolve
<1>5. d_jump' = <<[j |-> jmp_dout[1], hit |-> hits(jmp_dout[1].inst)]>>
  BY DEF Delay
<1>6. d_jump'[1].j = jmp_dout[1] /\ d_jump'[1].hit = hits(jmp_dout[1].inst)
  BY <1>5
<1>7. jmp_dout[1].inst \in Address /\ jmp_dout[1].jump \in Address
  BY DEF TableInv, Addresses
<1> QED
  BY <1>3, <1>4, <1>6, <1>7 DEF HitsAreFresh, hits

LEMMA PassingType ==
    ASSUME Addresses, NEW m_rdy, NEW j, passing(m_rdy, j) # <<>>
    PROVE  passing(m_rdy, j)[1] \in [addr : Address, hit : OneHit]
<1>1. /\ instr_reg \in Seq([addr : Address, hit : OneHit]) /\ instr_reg # <<>>
      /\ passing(m_rdy, j) = <<Head(instr_reg)>>
  BY DEF Addresses, passing, RegOut
<1>2. Head(instr_reg) \in [addr : Address, hit : OneHit]
  BY <1>1, HeadTailProperties
<1> QED
  BY <1>1, <1>2

LEMMA StackStep ==
    ASSUME TableInv, NEW m_rdy \in BOOLEAN, ReturnStack(m_rdy, jmp_dout)
    PROVE  lifo' \in Seq(Address) /\ Len(lifo') <= DEPTH
<1> DEFINE p == passing(m_rdy, jmp_dout)
<1>1. lifo \in Seq(Address) /\ Len(lifo) <= DEPTH /\ Len(lifo) \in Nat /\ DEPTH \in Nat \ {0}
  BY BpuAssumption DEF TableInv, Addresses
<1>2. p # <<>> => p[1].addr \in Address
  BY PassingType DEF TableInv
<1>3. <<>> \in Seq(Address) /\ Len(<<>>) = 0
  OBVIOUS
<1>4. ASSUME NEW x \in Address, NEW n \in 1 .. Len(lifo) + 1, n <= DEPTH
      PROVE  /\ SubSeq(<<x>> \o lifo, 1, n) \in Seq(Address)
             /\ Len(SubSeq(<<x>> \o lifo, 1, n)) <= DEPTH
  <2> DEFINE s == <<x>> \o lifo
  <2>1. s \in Seq(Address) /\ Len(s) = Len(lifo) + 1
    BY <1>1
  <2>2. \A i \in 1 .. n : s[i] \in Address
    BY <1>1, <2>1
  <2> HIDE DEF s
  <2>3. SubSeq(s, 1, n) \in Seq(Address) /\ Len(SubSeq(s, 1, n)) = n
    BY <1>1, <2>2, SubSeqProperties
  <2> QED
    BY <1>4, <2>3 DEF s
<1>5. lifo # <<>> => Tail(lifo) \in Seq(Address) /\ Len(Tail(lifo)) = Len(lifo) - 1
  BY <1>1, HeadTailProperties
<1> DEFINE n == IF Len(lifo) = DEPTH THEN DEPTH ELSE Len(lifo) + 1
<1>6. n \in 1 .. Len(lifo) + 1 /\ n <= DEPTH
  BY <1>1
<1>7. p # <<>> => Code[p[1].addr].next \in Address
  BY <1>2, CodeType
<1>8. \/ lifo' = <<>> \/ lifo' = lifo
      \/ p # <<>> /\ lifo' = SubSeq(<<Code[p[1].addr].next>> \o lifo, 1, n)
      \/ lifo # <<>> /\ lifo' = Tail(lifo)
  BY DEF ReturnStack, pops
<1> HIDE DEF p, n
<1>9. CASE p # <<>> /\ lifo' = SubSeq(<<Code[p[1].addr].next>> \o lifo, 1, n)
  <2> DEFINE x == Code[p[1].addr].next
  <2>1. x \in Address
    BY <1>7, <1>9
  <2> HIDE DEF x
  <2>2. /\ SubSeq(<<x>> \o lifo, 1, n) \in Seq(Address)
        /\ Len(SubSeq(<<x>> \o lifo, 1, n)) <= DEPTH
    BY <1>4, <1>6, <2>1
  <2> QED
    BY <1>9, <2>2 DEF x
<1>10. CASE lifo # <<>> /\ lifo' = Tail(lifo)
  BY <1>1, <1>5, <1>10
<1>11. CASE lifo' = <<>>
  BY <1>1, <1>3, <1>11
<1> QED
  BY <1>1, <1>8, <1>9, <1>10, <1>11

LEMMA SkidTypes ==
    ASSUME OrderInv, TableInv, NEW s, s = <<>> \/ s = <<front_ip>>, NEW m_rdy \in BOOLEAN,
           InputRegs(s, m_rdy, jmp_dout)
    PROVE  instr_reg' \in Seq([addr : Address, hit : OneHit]) /\ Len(instr_reg') <= 2
<1> DEFINE T == [addr : Address, hit : OneHit]
           e == [addr |-> front_ip, hit |-> hits(front_ip)]
           o == IF s # <<>> THEN <<[addr |-> s[1], hit |-> hits(s[1])]>> ELSE <<>>
           t == instr_s_tready(m_rdy, jmp_dout)
<1>1. e \in T
  BY HitsOne DEF TableInv, Addresses
<1>2. o = <<>> \/ o = <<e>>
  OBVIOUS
<1>3. t \in BOOLEAN /\ instr_reg' = IF jump_m # <<>> THEN <<>> ELSE RegStep(instr_reg, o, t)
  BY DEF InputRegs, instr_s_tready
<1>4. instr_reg \in Seq(T) /\ Len(instr_reg) <= 2
  BY DEF TableInv, Addresses
<1> HIDE DEF T, e, o, t
<1>5. o \in Seq(T) /\ Len(o) <= 1 /\ <<>> \in Seq(T) /\ Len(<<>>) = 0
  <2>1. <<e>> \in Seq(T) /\ Len(<<e>>) = 1 /\ <<>> \in Seq(T) /\ Len(<<>>) = 0
    BY <1>1
  <2>2. CASE o = <<>>
    BY <2>1, <2>2
  <2>3. CASE o = <<e>>
    BY <2>1, <2>3
  <2> QED
    BY <1>2, <2>2, <2>3
<1> DEFINE q == IF t /\ instr_reg # <<>> THEN Tail(instr_reg) ELSE instr_reg
           w == IF RegReady(instr_reg) THEN o ELSE <<>>
<1>6. q \in Seq(T) /\ Len(q) <= Len(instr_reg)
  BY <1>4, HeadTailProperties
<1>7. w \in Seq(T) /\ Len(w) <= 1 /\ (w # <<>> => Len(instr_reg) < 2)
  BY <1>5 DEF RegReady
<1>8. RegStep(instr_reg, o, t) = q \o w
  BY DEF RegStep
<1> HIDE DEF q, w
<1>9. q \o w \in Seq(T) /\ Len(q \o w) = Len(q) + Len(w)
  BY <1>6, <1>7, ConcatProperties
<1>10. Len(q) + Len(w) <= 2
  <2>1. w = <<>> => Len(w) = 0
    BY <1>5
  <2> QED
    BY <1>4, <1>6, <1>7, <2>1
<1> QED
  BY <1>3, <1>5, <1>8, <1>9, <1>10 DEF T

(* The jump sent to the prefetcher.                                          *)
LEMMA JumpTypes ==
    ASSUME OrderInv, TableInv, NEW m_rdy \in BOOLEAN, DriveJump(m_rdy, jmp_dout)
    PROVE  jump_m' \in Foretold
<1> DEFINE p == passing(m_rdy, jmp_dout)
<1>1. \A x \in Address : <<x>> \in Foretold /\ <<>> \in Foretold
  BY DEF Foretold
<1>2. CASE mispredicted(jmp_dout)
  <2>1. jump_m' = <<jmp_dout[1].jump>> /\ jmp_dout # <<>>
    BY <1>2 DEF DriveJump, mispredicted
  <2> QED
    BY <1>1, <2>1 DEF TableInv, Addresses
<1>3. CASE ~mispredicted(jmp_dout) /\ p = <<>>
  BY <1>3 DEF DriveJump, Foretold
<1>4. CASE ~mispredicted(jmp_dout) /\ p # <<>>
  <2> DEFINE x == p[1]
  <2>1. x \in [addr : Address, hit : OneHit]
    BY <1>4, PassingType DEF TableInv
  <2>2. jump_m' = IF pops(x) THEN <<Head(lifo)>>
                  ELSE IF op(x.addr) \in {"JMPU", "JCALL"} THEN <<Code[x.addr].target>>
                  ELSE IF foretold(x) THEN <<item(x).jump>>
                  ELSE <<>>
    BY <1>4 DEF DriveJump
  <2> HIDE DEF x, p
  <2>3. x.addr \in Address /\ x.hit \in OneHit
    BY <2>1
  <2>4. pops(x) => Head(lifo) \in Address
    <3>1. lifo \in Seq(Address)
      BY DEF TableInv, Addresses
    <3> QED
      BY <3>1, HeadTailProperties DEF pops
  <2>5. Code[x.addr].target \in Address
    BY <2>3, CodeType
  <2>6. ASSUME foretold(x) PROVE item(x).jump \in Address
    <3>1. PICK i \in Items : x.hit = {i}
      BY <2>3, <2>6 DEF foretold, OneHit
    <3>2. item(x) = bpu_items[i]
      BY <3>1, HitIndex DEF item
    <3> QED
      BY <3>2 DEF TableInv, Remembered, BpuItem
  <2>7. <<>> \in Foretold
    BY DEF Foretold
  <2> QED
    BY <1>1, <2>2, <2>4, <2>5, <2>6, <2>7
<1> QED
  BY <1>2, <1>3, <1>4

LEMMA AddressStep ==
    ASSUME OrderInv, TableInv, NEW given \in BOOLEAN, NEW rdy \in BOOLEAN, NEW ext \in BOOLEAN,
           NEW go \in BOOLEAN, NEW done \in BOOLEAN, Edge(given, rdy, ext, go, done)
    PROVE  Addresses'
<1> DEFINE s     == IF given THEN <<front_ip>> ELSE <<>>
           m_rdy == rdy /\ ~ext /\ reader_ready(go) /\ instr_m # <<>>
<1>1. /\ m_rdy \in BOOLEAN /\ (s = <<>> \/ s = <<front_ip>>)
      /\ BpuClock(s, m_rdy, jmp_dout)
      /\ Reader(go, rdy, ext)
      /\ ext => instr_m # <<>>
      /\ IF takes(go) THEN Take(go) ELSE Resolve(done)
      /\ front_ip' = IF jump_m # <<>> THEN jump_m[1]
                     ELSE IF given /\ RegReady(instr_reg) THEN Code[front_ip].next
                     ELSE front_ip
  BY DEF Edge
<1> HIDE DEF s, m_rdy
<1>2. /\ jump_m \in Foretold /\ front_ip \in Address /\ expect_addr \in Address
      /\ instr_m # <<>> => instr_m[1].addr \in Address
      /\ rr # <<>> => rr[1].addr \in Address
      /\ exec # <<>> => exec[1].addr \in Address
      /\ jmp_dout # <<>> => jmp_dout[1].inst \in Address /\ jmp_dout[1].jump \in Address
  BY DEF TableInv, Addresses
<1>3. instr_reg' \in Seq([addr : Address, hit : OneHit]) /\ Len(instr_reg') <= 2
  BY <1>1, SkidTypes DEF BpuClock
<1>4. lifo' \in Seq(Address) /\ Len(lifo') <= DEPTH
  BY <1>1, StackStep DEF BpuClock
<1>5. jump_m' \in Foretold
  BY <1>1, JumpTypes DEF BpuClock
<1>6. front_ip' \in Address
  <2>1. jump_m # <<>> => jump_m[1] \in Address
    BY <1>2 DEF Foretold
  <2> QED
    BY <1>1, <1>2, <2>1, CodeType
<1>7. instr_m' # <<>> => instr_m'[1].addr \in Address
  <2> DEFINE p == passing(m_rdy, jmp_dout)
  <2>1. p # <<>> => p[1].addr \in Address
    BY PassingType DEF TableInv
  <2>2. Forward(m_rdy, jmp_dout)
    BY <1>1 DEF BpuClock
  <2>3. \/ instr_m' = <<>> \/ instr_m' = instr_m
        \/ p # <<>> /\ instr_m' # <<>> /\ instr_m'[1].addr = p[1].addr
    BY <2>2 DEF Forward
  <2> HIDE DEF p
  <2> QED
    BY <1>2, <2>1, <2>3
<1>8. rr' # <<>> => rr'[1].addr \in Address
  <2>1. \/ rr' = <<>> \/ rr' = rr
        \/ instr_m # <<>> /\ rr' # <<>> /\ rr'[1].addr = instr_m[1].addr
    BY <1>1 DEF Reader
  <2> QED
    BY <1>2, <2>1
<1>9. CASE takes(go)
  <2>1. /\ rr # <<>> /\ jmp_dout' = <<>> /\ (exec' = rr \/ exec' = <<>>)
        /\ expect_addr' = expect_addr \/ expect_addr' = follows(rr[1])
    BY <1>1, <1>9 DEF Take, takes
  <2>2. follows(rr[1]) \in Address
    BY <1>2, <2>1, CodeType DEF follows
  <2> QED
    BY <1>2, <1>3, <1>4, <1>5, <1>6, <1>7, <1>8, <2>1, <2>2 DEF Addresses
<1>10. CASE ~takes(go) /\ done /\ exec # <<>>
  <2> DEFINE i == exec[1]
  <2>1. PICK o \in Outcomes(i) :
           /\ jmp_dout' = <<Resolution(i, o)>>
           /\ expect_addr' = IF o.taken THEN o.target ELSE Code[i.addr].next
    BY <1>1, <1>10 DEF Resolve
  <2>2. exec' = <<>>
    BY <1>1, <1>10 DEF Resolve
  <2>3. i.addr \in Address
    BY <1>2, <1>10
  <2> HIDE DEF i
  <2>4. Code[i.addr].next \in Address /\ Code[i.addr].target \in Address
    BY <2>3, CodeType
  <2>5. o.target \in Address
    BY <2>4, SpeculationAssumption DEF Outcomes
  <2>6. Resolution(i, o).inst \in Address /\ Resolution(i, o).jump \in Address
    BY <2>3, <2>4, <2>5 DEF Resolution
  <2>7. jmp_dout'[1].inst \in Address /\ jmp_dout'[1].jump \in Address /\ expect_addr' \in Address
    BY <2>1, <2>4, <2>5, <2>6
  <2> QED
    BY <1>3, <1>4, <1>5, <1>6, <1>7, <1>8, <2>2, <2>7 DEF Addresses
<1>11. CASE ~takes(go) /\ ~(done /\ exec # <<>>)
  <2>1. jmp_dout' = <<>> /\ exec' = exec /\ expect_addr' = expect_addr
    BY <1>1, <1>11 DEF Resolve
  <2> QED
    BY <1>2, <1>3, <1>4, <1>5, <1>6, <1>7, <1>8, <2>1 DEF Addresses
<1> QED
  BY <1>9, <1>10, <1>11

LEMMA TableStep == OrderInv /\ TableInv /\ [PathNext]_path_vars => TableInv'
<1>1. ASSUME OrderInv, TableInv, NEW given \in BOOLEAN, NEW rdy \in BOOLEAN, NEW ext \in BOOLEAN,
             NEW go \in BOOLEAN, NEW done \in BOOLEAN, Edge(given, rdy, ext, go, done)
      PROVE  TableInv'
  <2>1. Learn /\ Delay(jmp_dout) /\ (IF takes(go) THEN Take(go) ELSE Resolve(done))
    BY <1>1 DEF Edge, BpuClock
  <2>2. Remembered'
    BY <1>1, <2>1, LearnStep
  <2>3. HitsAreFresh'
    BY <1>1, <2>1, FreshStep
  <2>4. Addresses'
    BY <1>1, AddressStep
  <2> QED
    BY <2>2, <2>3, <2>4 DEF TableInv
<1>2. ASSUME TableInv, UNCHANGED path_vars PROVE TableInv'
  BY <1>2 DEF path_vars, bpu_vars, TableInv, Remembered, HitsAreFresh, hits, Addresses
<1> QED
  BY <1>1, <1>2 DEF PathNext, Looked

LEMMA TableGives == TableInv => OneItemPerBranch
<1> SUFFICES ASSUME TableInv PROVE OneItemPerBranch
  OBVIOUS
<1>1. \A S : \A q \in Seq(S) : \A n \in Nat : Len(q) <= n =>
        q \in UNION {[1 .. m -> S] : m \in 0 .. n}
  <2> SUFFICES ASSUME NEW S, NEW q \in Seq(S), NEW n \in Nat, Len(q) <= n
               PROVE  \E m \in 0 .. n : q \in [1 .. m -> S]
    OBVIOUS
  <2>1. q \in [1 .. Len(q) -> S] /\ Len(q) \in 0 .. n
    OBVIOUS
  <2> QED
    BY <2>1
<1>2. lifo \in UNION {[1 .. n -> Address] : n \in 0 .. DEPTH}
  BY <1>1, BpuAssumption DEF TableInv, Addresses
<1>3. instr_reg \in UNION {[1 .. n -> [addr : Address, hit : SUBSET Items]] : n \in 0 .. 2}
  <2>1. [addr : Address, hit : OneHit] \subseteq [addr : Address, hit : SUBSET Items]
    BY DEF OneHit
  <2>2. instr_reg \in UNION {[1 .. n -> [addr : Address, hit : OneHit]] : n \in 0 .. 2}
    BY <1>1 DEF TableInv, Addresses
  <2> QED
    BY <2>1, <2>2
<1>4. PathTypeOK
  BY <1>2, <1>3 DEF TableInv, Remembered, BpuItem, Addresses, PathTypeOK
<1> QED
  BY <1>4 DEF OneItemPerBranch, TableInv, Remembered

(* Every branch is remembered once at most, so that the position of a hit is *)
(* the position of an item, for every program and every size of the tables.  *)
(* (bpu_item_wr_hit, bpu_item_rd_hit_idx)                                    *)
THEOREM OneItem == PathSpec => []OneItemPerBranch
<1>1. PathSpec => []OrderInv
  BY OrderInit, OrderStep, PTL DEF PathSpec
<1>2. PathSpec => []TableInv
  BY <1>1, TableInit, TableStep, PTL DEF PathSpec
<1> QED
  BY <1>2, TableGives, PTL

-----------------------------------------------------------------------------
(***************************************************************************)
(* How an interrupt gets into the pipeline (Interrupts).                    *)
(***************************************************************************)
(* What ifeu has left of an instruction: the micro-operations of one that    *)
(* goes on to the next instruction, and those of one that will jump.         *)
Plain ==
    {<<>>, <<"mem">>, <<"alu">>, <<"clr_if">>, <<"set_if">>, <<"jmp">>,
     <<"mem", "mrd_fl">>, <<"mrd_fl">>, <<"str">>}
Final ==
    {<<"mem", "mrd", "mrd", "mrd_fl", "jmp_always">>, <<"mrd", "mrd", "mrd_fl", "jmp_always">>,
     <<"mrd", "mrd_fl", "jmp_always">>, <<"mrd_fl", "jmp_always">>,
     <<"mem", "keep_if", "clr_if", "mem", "mrd", "jmp_always">>,
     <<"keep_if", "clr_if", "mem", "mrd", "jmp_always">>,
     <<"clr_if", "mem", "mrd", "jmp_always">>,
     <<"mem", "mrd", "jmp_always">>, <<"mrd", "jmp_always">>, <<"jmp_always">>}

(* Of a plain one: it will write the flags with no other write under way, it *)
(* will write the flags, it is a branch.                                     *)
Alone(s) == s \in {<<"clr_if">>, <<"set_if">>, <<"mem", "mrd_fl">>, <<"mrd_fl">>, <<"str">>}
Writes(s) == s = <<"alu">> \/ Alone(s)
Branches(s) == s = <<"jmp">>

(* What ifeu hands on next of a plain instruction, and what it keeps (the    *)
(* micro-operations of cpu86_exec_ifeu.vhd are handed on one at a time).     *)
LEMMA MicroStep ==
    ASSUME NEW s \in Plain, s # <<>>
    PROVE  \/ /\ Head(s) = "mem" /\ Len(s) = 1 /\ Tail(s) = <<>>
              /\ ~Writes(s) /\ ~Branches(s)
           \/ /\ Head(s) = "mem" /\ Len(s) # 1 /\ Tail(s) = <<"mrd_fl">>
              /\ Alone(s) /\ ~Branches(s)
           \/ /\ Head(s) = "alu" /\ Len(s) = 1 /\ Tail(s) = <<>>
              /\ s = <<"alu">> /\ ~Alone(s) /\ ~Branches(s)
           \/ /\ Head(s) \in {"clr_if", "set_if", "mrd_fl", "str"} /\ Len(s) = 1 /\ Tail(s) = <<>>
              /\ Alone(s) /\ ~Branches(s)
           \/ /\ Head(s) = "jmp" /\ Len(s) = 1 /\ Tail(s) = <<>>
              /\ ~Writes(s) /\ Branches(s)
<1>1. CASE s = <<"mem">>
  <2>1. Head(<<"mem">>) = "mem" /\ Len(<<"mem">>) = 1 /\ Tail(<<"mem">>) = <<>>
    OBVIOUS
  <2> QED
    BY <1>1, <2>1 DEF Writes, Alone, Branches
<1>2. CASE s = <<"alu">>
  <2>1. Head(<<"alu">>) = "alu" /\ Len(<<"alu">>) = 1 /\ Tail(<<"alu">>) = <<>>
    OBVIOUS
  <2> QED
    BY <1>2, <2>1 DEF Writes, Alone, Branches
<1>3. CASE s = <<"clr_if">>
  <2>1. Head(<<"clr_if">>) = "clr_if" /\ Len(<<"clr_if">>) = 1 /\ Tail(<<"clr_if">>) = <<>>
    OBVIOUS
  <2> QED
    BY <1>3, <2>1 DEF Writes, Alone, Branches
<1>4. CASE s = <<"set_if">>
  <2>1. Head(<<"set_if">>) = "set_if" /\ Len(<<"set_if">>) = 1 /\ Tail(<<"set_if">>) = <<>>
    OBVIOUS
  <2> QED
    BY <1>4, <2>1 DEF Writes, Alone, Branches
<1>5. CASE s = <<"jmp">>
  <2>1. Head(<<"jmp">>) = "jmp" /\ Len(<<"jmp">>) = 1 /\ Tail(<<"jmp">>) = <<>>
    OBVIOUS
  <2> QED
    BY <1>5, <2>1 DEF Writes, Alone, Branches
<1>6. CASE s = <<"mem", "mrd_fl">>
  <2>1. /\ Head(<<"mem", "mrd_fl">>) = "mem" /\ Len(<<"mem", "mrd_fl">>) = 2
        /\ Tail(<<"mem", "mrd_fl">>) = <<"mrd_fl">>
    OBVIOUS
  <2> QED
    BY <1>6, <2>1 DEF Writes, Alone, Branches
<1>7. CASE s = <<"mrd_fl">>
  <2>1. Head(<<"mrd_fl">>) = "mrd_fl" /\ Len(<<"mrd_fl">>) = 1 /\ Tail(<<"mrd_fl">>) = <<>>
    OBVIOUS
  <2> QED
    BY <1>7, <2>1 DEF Writes, Alone, Branches
<1>8. CASE s = <<"str">>
  <2>1. Head(<<"str">>) = "str" /\ Len(<<"str">>) = 1 /\ Tail(<<"str">>) = <<>>
    OBVIOUS
  <2> QED
    BY <1>8, <2>1 DEF Writes, Alone, Branches
<1> QED
  BY <1>1, <1>2, <1>3, <1>4, <1>5, <1>6, <1>7, <1>8 DEF Plain

(* Of an instruction that will jump it keeps one that will, until the jump   *)
(* is handed on.                                                             *)
LEMMA FinalStep ==
    ASSUME NEW s \in Final
    PROVE  /\ s # <<>> /\ Len(s) <= 6
           /\ Head(s) \in {"mem", "keep_if", "clr_if", "mrd", "mrd_fl", "jmp_always"}
           /\ IF Head(s) = "jmp_always" THEN Tail(s) = <<>> ELSE Tail(s) \in Final
<1>1. CASE s = <<"mem", "mrd", "mrd", "mrd_fl", "jmp_always">>
  <2>1. /\ Head(<<"mem", "mrd", "mrd", "mrd_fl", "jmp_always">>) = "mem"
        /\ Len(<<"mem", "mrd", "mrd", "mrd_fl", "jmp_always">>) = 5
        /\ Tail(<<"mem", "mrd", "mrd", "mrd_fl", "jmp_always">>) =
             <<"mrd", "mrd", "mrd_fl", "jmp_always">>
    OBVIOUS
  <2> QED
    BY <1>1, <2>1 DEF Final
<1>2. CASE s = <<"mrd", "mrd", "mrd_fl", "jmp_always">>
  <2>1. /\ Head(<<"mrd", "mrd", "mrd_fl", "jmp_always">>) = "mrd"
        /\ Len(<<"mrd", "mrd", "mrd_fl", "jmp_always">>) = 4
        /\ Tail(<<"mrd", "mrd", "mrd_fl", "jmp_always">>) = <<"mrd", "mrd_fl", "jmp_always">>
    OBVIOUS
  <2> QED
    BY <1>2, <2>1 DEF Final
<1>3. CASE s = <<"mrd", "mrd_fl", "jmp_always">>
  <2>1. /\ Head(<<"mrd", "mrd_fl", "jmp_always">>) = "mrd"
        /\ Len(<<"mrd", "mrd_fl", "jmp_always">>) = 3
        /\ Tail(<<"mrd", "mrd_fl", "jmp_always">>) = <<"mrd_fl", "jmp_always">>
    OBVIOUS
  <2> QED
    BY <1>3, <2>1 DEF Final
<1>4. CASE s = <<"mrd_fl", "jmp_always">>
  <2>1. /\ Head(<<"mrd_fl", "jmp_always">>) = "mrd_fl"
        /\ Len(<<"mrd_fl", "jmp_always">>) = 2
        /\ Tail(<<"mrd_fl", "jmp_always">>) = <<"jmp_always">>
    OBVIOUS
  <2> QED
    BY <1>4, <2>1 DEF Final
<1>5. CASE s = <<"mem", "keep_if", "clr_if", "mem", "mrd", "jmp_always">>
  <2>1. /\ Head(<<"mem", "keep_if", "clr_if", "mem", "mrd", "jmp_always">>) = "mem"
        /\ Len(<<"mem", "keep_if", "clr_if", "mem", "mrd", "jmp_always">>) = 6
        /\ Tail(<<"mem", "keep_if", "clr_if", "mem", "mrd", "jmp_always">>) =
             <<"keep_if", "clr_if", "mem", "mrd", "jmp_always">>
    OBVIOUS
  <2> QED
    BY <1>5, <2>1 DEF Final
<1>6. CASE s = <<"keep_if", "clr_if", "mem", "mrd", "jmp_always">>
  <2>1. /\ Head(<<"keep_if", "clr_if", "mem", "mrd", "jmp_always">>) = "keep_if"
        /\ Len(<<"keep_if", "clr_if", "mem", "mrd", "jmp_always">>) = 5
        /\ Tail(<<"keep_if", "clr_if", "mem", "mrd", "jmp_always">>) =
             <<"clr_if", "mem", "mrd", "jmp_always">>
    OBVIOUS
  <2> QED
    BY <1>6, <2>1 DEF Final
<1>7. CASE s = <<"clr_if", "mem", "mrd", "jmp_always">>
  <2>1. /\ Head(<<"clr_if", "mem", "mrd", "jmp_always">>) = "clr_if"
        /\ Len(<<"clr_if", "mem", "mrd", "jmp_always">>) = 4
        /\ Tail(<<"clr_if", "mem", "mrd", "jmp_always">>) = <<"mem", "mrd", "jmp_always">>
    OBVIOUS
  <2> QED
    BY <1>7, <2>1 DEF Final
<1>8. CASE s = <<"mem", "mrd", "jmp_always">>
  <2>1. /\ Head(<<"mem", "mrd", "jmp_always">>) = "mem"
        /\ Len(<<"mem", "mrd", "jmp_always">>) = 3
        /\ Tail(<<"mem", "mrd", "jmp_always">>) = <<"mrd", "jmp_always">>
    OBVIOUS
  <2> QED
    BY <1>8, <2>1 DEF Final
<1>9. CASE s = <<"mrd", "jmp_always">>
  <2>1. /\ Head(<<"mrd", "jmp_always">>) = "mrd" /\ Len(<<"mrd", "jmp_always">>) = 2
        /\ Tail(<<"mrd", "jmp_always">>) = <<"jmp_always">>
    OBVIOUS
  <2> QED
    BY <1>9, <2>1 DEF Final
<1>10. CASE s = <<"jmp_always">>
  <2>1. /\ Head(<<"jmp_always">>) = "jmp_always" /\ Len(<<"jmp_always">>) = 1
        /\ Tail(<<"jmp_always">>) = <<>>
    OBVIOUS
  <2> QED
    BY <1>10, <2>1 DEF Final
<1> QED
  BY <1>1, <1>2, <1>3, <1>4, <1>5, <1>6, <1>7, <1>8, <1>9, <1>10 DEF Final

(* What ifeu loads: jumpers load operations that end in a jump; of the       *)
(* others those that write the flags are those the register reader locks     *)
(* them for.                                                                 *)
LEMMA Loaded ==
    ASSUME NEW k \in AllKinds \cup {"intr"}
    PROVE  IF k \in {"int", "iret", "intr"} THEN micro_ops(k) \in Final
           ELSE /\ micro_ops(k) \in Plain /\ micro_ops(k) # <<>>
                /\ Writes(micro_ops(k)) = (k \in fl_writers)
                /\ Alone(micro_ops(k)) = (k \in fl_writers /\ k # "alu")
                /\ Branches(micro_ops(k)) = (k = "branch")
<1>1. AllKinds =
        {"mov", "alu", "cli", "sti", "popf", "hlt", "int", "iret", "branch", "prefix",
         "cmps", "rep"}
  BY DEF AllKinds
<1>2. CASE k \in {"int", "iret", "intr"}
  BY <1>2 DEF micro_ops, Final
<1>3. CASE k = "alu"
  BY <1>3 DEF micro_ops, Plain, Writes, Alone, Branches, fl_writers
<1>4. CASE k = "cli"
  BY <1>4 DEF micro_ops, Plain, Writes, Alone, Branches, fl_writers
<1>5. CASE k = "sti"
  BY <1>5 DEF micro_ops, Plain, Writes, Alone, Branches, fl_writers
<1>6. CASE k = "popf"
  BY <1>6 DEF micro_ops, Plain, Writes, Alone, Branches, fl_writers
<1>7. CASE k = "branch"
  BY <1>7 DEF micro_ops, Plain, Writes, Alone, Branches, fl_writers
<1>8. CASE k \in {"mov", "hlt", "prefix", "rep"}
  <2>1. micro_ops(k) = <<"mem">>
    BY <1>8 DEF micro_ops
  <2> QED
    BY <1>8, <2>1 DEF Plain, Writes, Alone, Branches, fl_writers
<1>9. CASE k = "cmps"
  BY <1>9 DEF micro_ops, Plain, Writes, Alone, Branches, fl_writers
<1> QED
  BY <1>1, <1>2, <1>3, <1>4, <1>5, <1>6, <1>7, <1>8, <1>9

(* The two kinds of rest are apart, and short.                               *)
LEMMA Apart ==
    /\ <<>> \in Plain /\ ~Writes(<<>>) /\ ~Alone(<<>>) /\ ~Branches(<<>>)
    /\ <<"mrd_fl">> \in Plain /\ Writes(<<"mrd_fl">>) /\ Alone(<<"mrd_fl">>)
    /\ ~Branches(<<"mrd_fl">>)
    /\ <<"mrd_fl">> # <<>>
    /\ \A s \in Plain : s \notin Final /\ Len(s) <= 6
    /\ \A s : Alone(s) => Writes(s)
<1>1. ASSUME NEW s \in Plain PROVE s \notin Final /\ Len(s) <= 6
  <2>1. CASE s = <<>>
    <3>1. <<>> \notin Final /\ Len(<<>>) = 0
      BY DEF Final
    <3> QED
      BY <2>1, <3>1
  <2>2. CASE s = <<"mem">>
    <3>1. <<"mem">> \notin Final /\ Len(<<"mem">>) = 1
      BY DEF Final
    <3> QED
      BY <2>2, <3>1
  <2>3. CASE s = <<"alu">>
    <3>1. <<"alu">> \notin Final /\ Len(<<"alu">>) = 1
      BY DEF Final
    <3> QED
      BY <2>3, <3>1
  <2>4. CASE s = <<"clr_if">>
    <3>1. <<"clr_if">> \notin Final /\ Len(<<"clr_if">>) = 1
      BY DEF Final
    <3> QED
      BY <2>4, <3>1
  <2>5. CASE s = <<"set_if">>
    <3>1. <<"set_if">> \notin Final /\ Len(<<"set_if">>) = 1
      BY DEF Final
    <3> QED
      BY <2>5, <3>1
  <2>6. CASE s = <<"jmp">>
    <3>1. <<"jmp">> \notin Final /\ Len(<<"jmp">>) = 1
      BY DEF Final
    <3> QED
      BY <2>6, <3>1
  <2>7. CASE s = <<"mem", "mrd_fl">>
    <3>1. <<"mem", "mrd_fl">> \notin Final /\ Len(<<"mem", "mrd_fl">>) = 2
      BY DEF Final
    <3> QED
      BY <2>7, <3>1
  <2>8. CASE s = <<"mrd_fl">>
    <3>1. <<"mrd_fl">> \notin Final /\ Len(<<"mrd_fl">>) = 1
      BY DEF Final
    <3> QED
      BY <2>8, <3>1
  <2>9. CASE s = <<"str">>
    <3>1. <<"str">> \notin Final /\ Len(<<"str">>) = 1
      BY DEF Final
    <3> QED
      BY <2>9, <3>1
  <2> QED
    BY <2>1, <2>2, <2>3, <2>4, <2>5, <2>6, <2>7, <2>8, <2>9 DEF Plain
<1> QED
  BY <1>1 DEF Plain, Writes, Alone, Branches

-----------------------------------------------------------------------------
One(b) == IF b THEN 1 ELSE 0

(* What is in execution will jump.                                           *)
Doomed == exec_jump \/ wait = "jmp_always" \/ micro \in Final

(* The writes of the flags under way, in execution and at all, and the locks *)
(* that wait for them.                                                       *)
Executed ==
    One(Writes(micro)) + One(wait \in fl_waits) + One(alu_req) + One(alu_res)
      + One(written)
Under == One(rr_tdata \in fl_writers) + Executed
Locks == hs_cnt + One(flags_m_lock_tvalid)

(* The bits of the register reader, and those of ifeu and mexec.              *)
ReaderBits ==
    {flags_m_lock_tvalid, instr_tready_mask, instr_wait_fl_valid, combined_instr, skip_next}
      \subseteq BOOLEAN
ExecBits ==
    {ext_intr_s_tready, jmp_lock_tvalid, jmp_lock_wr, exec_jump, alu_req, alu_res}
      \subseteq BOOLEAN
USE DEF ReaderBits, ExecBits

IntrTypes ==
    /\ PicTypeOK
    /\ head \in AllKinds \cup {none}
    /\ rr_tdata \in AllKinds \cup {none, "intr"} /\ rr_vector \in Lines
    /\ ext_intr_mode \in {"ST_IDLE", "ST_ACK", "ST_DONE"}
    /\ ReaderBits
    /\ ExecBits
    /\ micro \in Plain \cup Final
    /\ wait \in {none, "mrd"} \cup fl_waits \cup jump_waits
    /\ flags_wr \in {none, "set_if", "clr_if", "keep_if"}
    /\ fl_if \in BOOLEAN /\ fl_tvalid \in BOOLEAN /\ hs_cnt \in 0 .. 7
    /\ owed \in {<<>>} \cup {<<n>> : n \in Lines} /\ unpaid \in BOOLEAN
    /\ program \in Programs /\ head \in program.kinds \cup {none}
    /\ rr_tdata \in program.kinds \cup {none, "intr"}
    /\ fl_tvalid <=> hs_cnt = 0
    /\ skip_next /\ head # none => head \in repeated

(* While no jump is certain: a lock for each write and for the skipped       *)
(* instruction, valid flags without locks, and an instruction that waited    *)
(* for the flags alone, so that its write meets no other.                    *)
Counted ==
    /\ micro \in Plain /\ wait \in {none, "mrd_fl", "str", "jmp"}
    /\ Locks = Under + One(unpaid)
    /\ rr_tdata \in fl_writers \ {"alu"} => Executed = 0
    /\ Alone(micro) \/ wait \in fl_waits => ~alu_req /\ ~alu_res /\ ~written
    /\ wait \in fl_waits => ~Alone(micro)
    /\ Branches(micro) \/ wait = "jmp" => ~jmp_lock_tvalid /\ ~jmp_lock_wr
    /\ wait = "jmp" => micro = <<>>
    /\ jmp_lock_wr => ~jmp_lock_tvalid /\ micro = <<>> /\ wait = none
    /\ ~ext_intr_s_tready

(* Once a jump is certain, nothing behind it is executed.                    *)
Stopped ==
    /\ ~jmp_lock_tvalid /\ ~jmp_lock_wr
    /\ Locks <= 1 + One(rr_tdata # none) + One(unpaid)
    /\ wait \in {none, "mrd", "mrd_fl", "str", "jmp_always"}
    /\ wait = "jmp_always" => micro = <<>>
    /\ wait # "jmp_always" => micro \in Final

Scoreboard ==
    /\ flags_m_lock_tvalid => rr_tdata \in fl_writers \/ unpaid
    /\ hs_cnt <= 7
    /\ ~Doomed => Counted
    /\ Doomed /\ ~exec_jump => Stopped
    /\ exec_jump => ~jmp_lock_tvalid /\ micro = <<>> /\ wait = none

(* While the request is answered the queue is stopped and nothing is under   *)
(* way that writes the flags; what was taken still has its line offered, the *)
(* same one, with IF set.                                                    *)
Entry ==
    /\ ext_intr_mode = "ST_ACK" =>
         /\ instr_tready_mask /\ rr_tdata = none /\ ~combined_instr
         /\ Doomed \/ Under = 0
    /\ rr_tdata = "intr" =>
         /\ instr_tready_mask /\ ext_intr_mode = "ST_DONE"
         /\ Doomed \/ (interrupt_valid /\ fl_if /\ rr_vector = irr_idx)
    /\ OwedIsAcked

IntrInv == IntrTypes /\ Scoreboard /\ Entry

-----------------------------------------------------------------------------
(* One edge without a jump: what ifeu and mexec make of a plain instruction. *)
Jumpers == {"int", "iret", "intr"}
MicroOp(ready) == IF micro_hs(ready) THEN Head(micro) ELSE none

(* What mexec is handed on an edge, if anything.                             *)
LEMMA OpOfPlain ==
    ASSUME micro \in Plain, NEW ready \in BOOLEAN
    PROVE  \/ /\ micro_hs(ready) /\ MicroOp(ready) = "mem"
              /\ Len(micro) = 1 /\ Tail(micro) = <<>> /\ ~Writes(micro) /\ ~Branches(micro)
           \/ /\ micro_hs(ready) /\ MicroOp(ready) = "mem"
              /\ Len(micro) # 1 /\ Tail(micro) = <<"mrd_fl">>
              /\ Alone(micro) /\ ~Branches(micro)
           \/ /\ micro_hs(ready) /\ MicroOp(ready) = "alu"
              /\ Len(micro) = 1 /\ Tail(micro) = <<>>
              /\ Writes(micro) /\ ~Alone(micro) /\ ~Branches(micro)
           \/ /\ micro_hs(ready) /\ MicroOp(ready) \in {"clr_if", "set_if", "mrd_fl", "str"}
              /\ Len(micro) = 1 /\ Tail(micro) = <<>> /\ Alone(micro) /\ ~Branches(micro)
           \/ /\ micro_hs(ready) /\ MicroOp(ready) = "jmp"
              /\ Len(micro) = 1 /\ Tail(micro) = <<>> /\ ~Writes(micro) /\ Branches(micro)
           \/ ~micro_hs(ready) /\ MicroOp(ready) = none
<1>1. CASE micro_hs(ready)
  <2>1. micro # <<>> /\ MicroOp(ready) = Head(micro)
    BY <1>1 DEF micro_hs, MicroOp
  <2> QED
    BY <1>1, <2>1, MicroStep DEF Writes
<1> QED
  BY <1>1 DEF MicroOp

Kept == IntrTypes /\ Scoreboard /\ ~exec_jump /\ ~Doomed

MicroLeft(ready) == IF micro_hs(ready) THEN Tail(micro) ELSE micro
Executing == One(wait \in fl_waits) + One(alu_req) + One(alu_res) + One(written)

Inputs(ready, done, taken, popped) ==
    /\ {ready, done, taken} \subseteq BOOLEAN /\ popped \in {"set_if", "clr_if", none}
    /\ wait = "mrd_fl" => popped # none

OpsDone(m) ==
    /\ m \in Plain /\ wait' \in {none, "mrd_fl", "str", "jmp"}
    /\ One(Writes(m)) + Executing' = Executed - One(written)
    /\ Alone(m) \/ wait' \in fl_waits => ~alu_req' /\ ~alu_res' /\ ~written'
    /\ wait' \in fl_waits => ~Alone(m)
    /\ Branches(m) \/ wait' = "jmp" => Branches(micro) \/ wait = "jmp"
    /\ wait' = "jmp" => m = <<>>
    /\ jmp_lock_wr' => wait = "jmp" /\ m = <<>> /\ wait' = none

(* mexec loses none of the writes it was handed: each is in ifeu, in the     *)
(* memory read that pops it, in the pipeline of the ALU or at the flags,     *)
(* until it is written.                                                      *)
LEMMA OpsCounted ==
    ASSUME Kept, NEW ready, NEW done, NEW taken, NEW popped, Inputs(ready, done, taken, popped),
           Execute(ready, done, taken, popped)
    PROVE  OpsDone(MicroLeft(ready))
<1>1. Counted /\ IntrTypes
  BY DEF Kept, Scoreboard
<1>2. /\ ready \in BOOLEAN /\ popped \in {"set_if", "clr_if", none}
      /\ (wait = "mrd_fl" => popped # none)
      /\ micro \in Plain /\ wait \in {none, "mrd_fl", "str", "jmp"}
      /\ {alu_req, alu_res} \subseteq BOOLEAN
      /\ flags_wr \in {none, "set_if", "clr_if", "keep_if"}
  BY <1>1 DEF Counted, IntrTypes, Inputs
<1> DEFINE mop == MicroOp(ready)
           m == MicroLeft(ready)
<1>3. /\ wait' = IF mop \in {"mrd", "mrd_fl", "str", "jmp", "jmp_always"} THEN mop
                 ELSE IF wait # none /\ done THEN none ELSE wait
      /\ jmp_lock_wr' <=> wait # none /\ done /\ wait \in {"jmp", "jmp_always"}
      /\ alu_req' <=> mop = "alu"
      /\ alu_res' <=> alu_req
      /\ flags_wr' = IF wait = "mrd_fl" /\ done THEN popped
                     ELSE IF wait = "str" /\ done THEN "keep_if"
                     ELSE IF mop \in {"clr_if", "set_if", "keep_if"} THEN mop
                     ELSE IF alu_res THEN "keep_if" ELSE none
      /\ m = IF micro_hs(ready) THEN Tail(micro) ELSE micro
      /\ micro_hs(ready) => wait = none /\ micro # <<>>
  BY DEF fl_waits, Execute, MicroOp, finishes, jump_waits, micro_hs, micro_tready,
     MicroLeft
<1>4. /\ Alone(micro) \/ wait \in fl_waits => ~alu_req /\ ~alu_res /\ flags_wr = none
      /\ wait \in fl_waits => ~Alone(micro)
      /\ wait = "jmp" => micro = <<>>
      /\ none = "none"
  BY <1>1 DEF Counted, written, none
<1>5. /\ Executed = One(Writes(micro)) + One(wait \in fl_waits) + One(alu_req) + One(alu_res)
                      + One(flags_wr # none)
      /\ Executing' = One(wait' \in fl_waits) + One(alu_req') + One(alu_res')
                        + One(flags_wr' # none)
      /\ written' <=> flags_wr' # none
      /\ written <=> flags_wr # none
  BY DEF Executed, Executing, written
<1> SUFFICES OpsDone(m)
  OBVIOUS
<1> HIDE DEF mop, m
<1>6. CASE ~micro_hs(ready) /\ mop = none
  BY <1>2, <1>3, <1>4, <1>5, <1>6, Apart DEF fl_waits, One, OpsDone
<1>7. CASE micro_hs(ready) /\ mop = "mem" /\ Tail(micro) = <<>> /\ ~Writes(micro)
  <2>1. wait = none
    BY <1>3, <1>7
  <2>2. /\ m = <<>> /\ wait' = none /\ ~alu_req'
        /\ flags_wr' = (IF alu_res THEN "keep_if" ELSE none)
    BY <1>3, <1>4, <1>7, <2>1
  <2>3. ~jmp_lock_wr' /\ (alu_res' <=> alu_req)
    BY <1>3, <1>4, <2>1
  <2>4. One(Writes(m)) + Executing' = Executed - One(written)
    BY <1>4, <1>5, <1>7, <2>1, <2>2, <2>3, Apart DEF One
  <2> QED
    BY <1>4, <1>5, <1>7, <2>1, <2>2, <2>3, <2>4, Apart DEF OpsDone
<1>8. CASE micro_hs(ready) /\ mop = "mem" /\ Tail(micro) = <<"mrd_fl">> /\ Alone(micro)
  <2>1. wait = none
    BY <1>3, <1>8
  <2>2. /\ m = <<"mrd_fl">> /\ wait' = none /\ ~alu_req' /\ ~alu_req /\ ~alu_res
        /\ flags_wr = none /\ flags_wr' = none
    BY <1>3, <1>4, <1>8, <2>1
  <2>3. ~jmp_lock_wr' /\ (alu_res' <=> alu_req)
    BY <1>3, <1>4, <2>1
  <2>4. One(Writes(m)) + Executing' = Executed - One(written)
    BY <1>4, <1>5, <1>8, <2>1, <2>2, <2>3, Apart DEF One
  <2> QED
    BY <1>4, <1>5, <1>8, <2>1, <2>2, <2>3, <2>4, Apart DEF OpsDone
<1>9. CASE /\ micro_hs(ready) /\ mop = "alu" /\ Tail(micro) = <<>>
           /\ Writes(micro) /\ ~Alone(micro)
  <2>1. wait = none
    BY <1>3, <1>9
  <2>2. /\ m = <<>> /\ wait' = none /\ alu_req'
        /\ flags_wr' = (IF alu_res THEN "keep_if" ELSE none)
    BY <1>3, <1>4, <1>9, <2>1
  <2>3. ~jmp_lock_wr' /\ (alu_res' <=> alu_req)
    BY <1>3, <1>4, <2>1
  <2>4. One(Writes(m)) + Executing' = Executed - One(written)
    BY <1>4, <1>5, <1>9, <2>1, <2>2, <2>3, Apart DEF One
  <2> QED
    BY <1>4, <1>5, <1>9, <2>1, <2>2, <2>3, <2>4, Apart DEF fl_waits, OpsDone
<1>10. CASE /\ micro_hs(ready) /\ mop \in {"clr_if", "set_if", "mrd_fl", "str"}
            /\ Tail(micro) = <<>> /\ Alone(micro)
  <2>1. wait = none
    BY <1>3, <1>10
  <2>2. /\ m = <<>> /\ wait' = (IF mop \in fl_waits THEN mop ELSE none) /\ ~alu_req'
        /\ ~alu_req /\ ~alu_res /\ flags_wr = none
        /\ flags_wr' = (IF mop \in fl_waits THEN none ELSE mop)
    BY <1>3, <1>4, <1>10, <2>1 DEF fl_waits
  <2>3. ~jmp_lock_wr' /\ (alu_res' <=> alu_req)
    BY <1>3, <1>4, <2>1
  <2>4. One(Writes(m)) + Executing' = Executed - One(written)
    BY <1>4, <1>5, <1>10, <2>1, <2>2, <2>3, Apart DEF One
  <2> QED
    BY <1>4, <1>5, <1>10, <2>1, <2>2, <2>3, <2>4, Apart DEF fl_waits, OpsDone
<1>11. CASE /\ micro_hs(ready) /\ mop = "jmp" /\ Tail(micro) = <<>>
            /\ ~Writes(micro) /\ Branches(micro)
  <2>1. wait = none
    BY <1>3, <1>11
  <2>2. /\ m = <<>> /\ wait' = "jmp" /\ ~alu_req'
        /\ flags_wr' = (IF alu_res THEN "keep_if" ELSE none)
    BY <1>3, <1>4, <1>11, <2>1
  <2>3. ~jmp_lock_wr' /\ (alu_res' <=> alu_req)
    BY <1>3, <1>4, <2>1
  <2>4. One(Writes(m)) + Executing' = Executed - One(written)
    BY <1>4, <1>5, <1>11, <2>1, <2>2, <2>3, Apart DEF fl_waits, One
  <2> QED
    BY <1>4, <1>5, <1>11, <2>1, <2>2, <2>3, <2>4, Apart DEF fl_waits, OpsDone
<1> QED
  BY <1>2, <1>6, <1>7, <1>8, <1>9, <1>10, <1>11, OpOfPlain DEF mop

(* What the edge makes of ifeu and mexec, while no jump is certain.          *)
LEMMA WhenReady ==
    ASSUME Kept, NEW ready \in BOOLEAN, rr_tready(ready)
    PROVE  MicroLeft(ready) = <<>> /\ jmp_lock_tvalid /\ ~Branches(micro) /\ wait # "jmp"
<1>1. micro \in Plain /\ jmp_lock_tvalid /\ ~Branches(micro) /\ wait # "jmp"
  BY DEF Kept, Scoreboard, Counted, rr_tready
<1>2. micro = <<>> \/ (Len(micro) = 1 /\ micro_tready(ready))
  BY DEF rr_tready
<1>3. ASSUME micro = <<>> PROVE MicroLeft(ready) = <<>>
  BY <1>1, <1>3 DEF MicroLeft, micro_hs
<1>4. ASSUME micro # <<>>, Len(micro) = 1, micro_tready(ready) PROVE MicroLeft(ready) = <<>>
  <2>1. Tail(micro) = <<>>
    BY <1>1, <1>4, MicroStep
  <2> QED
    BY <1>1, <1>4, <2>1 DEF MicroLeft, micro_hs
<1> QED
  BY <1>1, <1>2, <1>3, <1>4

Leaves(ready) == rr_hs(ready) /\ rr_tdata \in Jumpers
Goes(ready) ==
    /\ micro' \in Plain /\ wait' \in {none, "mrd_fl", "str", "jmp"}
    /\ Executed' = (Executed - One(written))
                     + One(rr_hs(ready) /\ rr_tdata \in fl_writers)
    /\ Alone(micro') \/ wait' \in fl_waits => ~alu_req' /\ ~alu_res' /\ ~written'
    /\ wait' \in fl_waits => ~Alone(micro')
    /\ Branches(micro') \/ wait' = "jmp" => ~jmp_lock_tvalid' /\ ~jmp_lock_wr'
    /\ wait' = "jmp" => micro' = <<>>
    /\ jmp_lock_wr' => ~jmp_lock_tvalid' /\ micro' = <<>> /\ wait' = none
    /\ ~ext_intr_s_tready'
Quits ==
    /\ micro' \in Final /\ wait' \in {none, "mrd_fl", "str"}
    /\ ~jmp_lock_tvalid' /\ ~jmp_lock_wr'

(* With what ifeu takes from the register reader: an instruction brings its  *)
(* one write along, and one that jumps comes alone.                          *)
LEMMA IssueCounted ==
    ASSUME Kept, NEW ready, NEW done, NEW taken, NEW popped, Inputs(ready, done, taken, popped),
           Execute(ready, done, taken, popped), Issue(ready)
    PROVE  IF Leaves(ready) THEN Quits ELSE Goes(ready)
<1> DEFINE m == MicroLeft(ready)
           h == rr_hs(ready)
           e == Executing'
           w == One(written)
           k == One(rr_tdata \in fl_writers)
<1>1. OpsDone(m)
  BY OpsCounted
<1>2. Counted /\ IntrTypes
  BY DEF Kept, Scoreboard
<1>3. /\ rr_tdata \in AllKinds \cup {none, "intr"} /\ ready \in BOOLEAN
      /\ none \notin AllKinds \cup {"intr"} /\ none \notin fl_writers
  BY <1>2 DEF IntrTypes, Inputs, AllKinds, none, fl_writers
<1>4. /\ micro' = IF h THEN micro_ops(rr_tdata) ELSE m
      /\ jmp_lock_tvalid' <=> ~(h /\ locks_jmp(rr_tdata)) /\ (jmp_lock_tvalid \/ jmp_lock_wr)
      /\ ext_intr_s_tready' <=>
           IF h THEN ext_intr_tvalid /\ rr_tdata = "intr" ELSE ext_intr_s_tready
      /\ h => rr_tdata # none /\ rr_tready(ready)
  BY <1>2 DEF Issue, MicroLeft, ack_ready, rr_hs, IntrTypes
<1>5. h => m = <<>> /\ jmp_lock_tvalid /\ ~Branches(micro) /\ wait # "jmp"
  BY <1>3, <1>4, WhenReady
<1>6. /\ Executed' = One(Writes(micro')) + e
      /\ e \in Nat /\ w \in {0, 1} /\ k \in {0, 1} /\ Executed \in Nat /\ Executed >= w
      /\ e = 0 => wait' \notin fl_waits /\ ~alu_req' /\ ~alu_res' /\ ~written'
  BY <1>2 DEF Executed, Executing, One
<1> HIDE DEF m, h, e, w, k
<1>7. CASE ~h
  <2>1. micro' = m /\ ~Leaves(ready)
    BY <1>4, <1>7 DEF Leaves, h
  <2>2. Executed' = Executed - w
    BY <1>1, <1>6, <2>1 DEF OpsDone, e, w
  <2>3. One(h /\ rr_tdata \in fl_writers) = 0
    BY <1>7 DEF One
  <2>4. ~ext_intr_s_tready' /\ (jmp_lock_tvalid' <=> jmp_lock_tvalid \/ jmp_lock_wr)
    BY <1>2, <1>4, <1>7 DEF Counted
  <2>5. Branches(m) \/ wait' = "jmp" => ~jmp_lock_tvalid' /\ ~jmp_lock_wr'
    BY <1>1, <1>2, <2>4, Apart DEF OpsDone, Counted, none
  <2>6. jmp_lock_wr' => ~jmp_lock_tvalid' /\ m = <<>> /\ wait' = none
    BY <1>1, <1>2, <2>4 DEF OpsDone, Counted
  <2>7. Executed' = (Executed - w) + One(h /\ rr_tdata \in fl_writers)
    BY <1>6, <2>2, <2>3
  <2> QED
    BY <1>1, <2>1, <2>4, <2>5, <2>6, <2>7 DEF OpsDone, Goes, h, w
<1>8. CASE h /\ rr_tdata \in Jumpers
  <2>1. micro' \in Final
    BY <1>3, <1>4, <1>8, Loaded DEF Jumpers
  <2>2. ~jmp_lock_tvalid'
    BY <1>4, <1>8 DEF locks_jmp, Jumpers
  <2>3. wait' # "jmp" /\ ~jmp_lock_wr'
    BY <1>1, <1>5, <1>8 DEF OpsDone
  <2> QED
    BY <1>1, <1>8, <2>1, <2>2, <2>3 DEF OpsDone, Quits, Leaves, h
<1>9. CASE h /\ rr_tdata \notin Jumpers
  <2>1. rr_tdata \in AllKinds /\ rr_tdata # none
    BY <1>3, <1>4, <1>9 DEF Jumpers
  <2>2. /\ micro' \in Plain /\ Writes(micro') = (rr_tdata \in fl_writers)
        /\ Alone(micro') = (rr_tdata \in fl_writers /\ rr_tdata # "alu")
        /\ Branches(micro') = (rr_tdata = "branch")
    BY <1>4, <1>9, <2>1, Loaded DEF Jumpers
  <2>3. e = Executed - w
    <3>1. One(Writes(m)) = 0
      BY <1>5, <1>9, Apart DEF One
    <3> QED
      BY <1>1, <1>6, <3>1 DEF OpsDone, e, w
  <2>4. Executed' = (Executed - w) + One(h /\ rr_tdata \in fl_writers)
    <3>1. One(Writes(micro')) = One(h /\ rr_tdata \in fl_writers)
      BY <1>9, <2>2 DEF One
    <3>2. One(h /\ rr_tdata \in fl_writers) \in {0, 1}
      BY DEF One
    <3> QED
      BY <1>6, <2>3, <3>1, <3>2
  <2>5. Alone(micro') => e = 0
    <3>1. Alone(micro') => Executed = 0
      BY <1>2, <2>2 DEF Counted
    <3> QED
      BY <1>6, <2>3, <3>1
  <2>6. wait' # "jmp" /\ ~jmp_lock_wr'
    BY <1>1, <1>5, <1>9 DEF OpsDone
  <2>7. Branches(micro') => ~jmp_lock_tvalid'
    BY <1>4, <1>9, <2>2 DEF locks_jmp
  <2>8. ~ext_intr_s_tready'
    BY <1>4, <1>9 DEF Jumpers
  <2>9. Alone(micro') \/ wait' \in fl_waits => ~alu_req' /\ ~alu_res' /\ ~written'
    BY <1>1, <1>6, <2>5 DEF OpsDone
  <2>10. wait' \in fl_waits => ~Alone(micro')
    BY <1>6, <2>5
  <2> QED
    BY <1>1, <1>9, <2>2, <2>4, <2>6, <2>7, <2>8, <2>9, <2>10 DEF OpsDone, Goes, Leaves, h, w
<1> QED
  BY <1>7, <1>8, <1>9

-----------------------------------------------------------------------------
(* The interrupt controller.                                                 *)
(* The line the controller offers is one of those that are pending: a set of *)
(* numbers that is not empty has a least one, however many lines there are.  *)
LEMMA Least ==
    ASSUME NEW lines, lines \subseteq Nat, lines # {}
    PROVE  first_of(lines) \in lines
<1>1. IsWellFoundedOn(OpToRel(<, Nat), Nat)
  BY NatLessThanWellFounded
<1>2. PICK n \in lines : \A j \in lines : ~(<<j, n>> \in OpToRel(<, Nat))
  BY <1>1, WFMin
<1>3. ASSUME NEW j \in Nat PROVE <<j, n>> \in OpToRel(<, Nat) <=> j < n
  BY DEF OpToRel
<1>4. \A j \in lines : ~(j < n)
  BY <1>2, <1>3, Zenon
<1>5. \A j \in lines : n <= j
  BY <1>4
<1> QED
  BY <1>5 DEF first_of

(* The controller holds its offer until it is acknowledged (pic_lite.sv).    *)
LEMMA PicStep ==
    ASSUME IntrTypes, NEW interrupt_input \in SUBSET program.lines,
           NEW imr_write \in program.masks \cup {imr}, NEW ack,
           PicClock(interrupt_input, ack, imr_write)
    PROVE  PicTypeOK' /\ (interrupt_valid /\ ~ack => interrupt_valid' /\ irr_idx' = irr_idx)
<1>1. program.lines \subseteq Lines /\ program.masks \subseteq SUBSET Lines
  BY ProgramsAssumption DEF IntrTypes
<1>2. Lines \subseteq Nat
  BY QtyAssumption DEF Lines
<1>3. irr # {} => first_of(irr) \in Lines
  BY <1>2, Least DEF IntrTypes, PicTypeOK
<1> QED
  BY <1>1, <1>3
     DEF PicClock, offer, irr_next, rising, acknowledged, IntrTypes,
         PicTypeOK

-----------------------------------------------------------------------------
(* The lock count.                                                           *)
(* The count of the locks (cpu86_exec_reg.vhd) does not lose one and does    *)
(* not go below zero, if there is a lock for the write that comes.           *)
LEMMA CountStep ==
    ASSUME IntrTypes, Flags, ~exec_jump
    PROVE  /\ hs_cnt' \in Nat /\ hs_cnt' <= Locks /\ fl_tvalid' \in BOOLEAN
           /\ fl_if' \in BOOLEAN
           /\ Locks >= One(written) => hs_cnt' = Locks - One(written)
           /\ fl_tvalid' <=> hs_cnt' = 0
           /\ ~written => fl_if' = fl_if
<1>1. /\ hs_cnt \in Nat /\ flags_m_lock_tvalid \in BOOLEAN /\ fl_tvalid \in BOOLEAN
      /\ fl_if \in BOOLEAN /\ (fl_tvalid <=> hs_cnt = 0)
  BY DEF IntrTypes
<1>2. written \in BOOLEAN
  BY DEF written
<1>3. fl_if' \in BOOLEAN /\ (~written => fl_if' = fl_if)
  BY <1>1 DEF Flags, written, none
<1>4. /\ hs_cnt' = IF written /\ ~flags_m_lock_tvalid
                   THEN IF hs_cnt > 0 THEN hs_cnt - 1 ELSE 0
                   ELSE IF flags_m_lock_tvalid /\ ~written THEN hs_cnt + 1 ELSE hs_cnt
      /\ fl_tvalid' <=>
           IF written THEN fl_tvalid \/ (~flags_m_lock_tvalid /\ hs_cnt \in {0, 1})
           ELSE fl_tvalid /\ ~flags_m_lock_tvalid
      /\ fl_tvalid' \in BOOLEAN
  BY <1>1, <1>2 DEF Flags, count_next, valid_next, less_one
<1> QED
  BY <1>1, <1>2, <1>3, <1>4 DEF Locks, One

-----------------------------------------------------------------------------
(* The register reader.                                                      *)
Accepts(ready, regs) ==
    /\ rr_tdata = none \/ rr_tready(ready)
    /\ ~instr_tready_mask /\ ~taking /\ head \in AllKinds
    /\ flags_m_lock_tvalid' <=> head \in fl_writers
    /\ head \in fl_writers \ {"alu"} => fl_tvalid /\ ~flags_m_lock_tvalid
    /\ combined_instr' \in BOOLEAN
    /\ \/ rr_tdata' = head /\ unpaid' = unpaid
       \/ rr_tdata' = none /\ head \notin fl_writers /\ unpaid' = unpaid
       \/ rr_tdata' = none /\ head \in fl_writers \ {"alu"} /\ unpaid'
TakesRequest ==
    /\ taking /\ rr_tdata = none /\ rr_tdata' = "intr" /\ flags_m_lock_tvalid'
    /\ rr_vector' = irr_idx /\ ext_intr_mode' = "ST_DONE" /\ instr_tready_mask
    /\ combined_instr' = combined_instr /\ unpaid' = unpaid
RunsOn(ready) ==
    /\ ~taking /\ rr_tdata' = (IF rr_tready(ready) THEN none ELSE rr_tdata)
    /\ ~flags_m_lock_tvalid'
    /\ rr_vector' = rr_vector /\ combined_instr' = combined_instr /\ unpaid' = unpaid

(* What the queue may show next: after a REP that skips, what can be         *)
(* repeated.                                                                 *)
Fits(ready, regs, cx_zero, next_head) ==
    /\ cx_zero \in BOOLEAN /\ next_head \in program.kinds \cup {none}
    /\ skips(instr_tready(ready, regs), cx_zero) => next_head \in repeated \cup {none}

(* An edge of the register reader takes an instruction (and hands it on,     *)
(* keeps it as a prefix or skips it), takes a request or lets what it holds  *)
(* go on.                                                                    *)
LEMMA ReaderEdge ==
    ASSUME IntrTypes, Entry, ~exec_jump, NEW ready, NEW regs, NEW cx_zero, NEW next_head,
           Fits(ready, regs, cx_zero, next_head), Unpaid(ready, regs),
           RegisterReader(ready, regs, cx_zero, next_head)
    PROVE  /\ Accepts(ready, regs) \/ TakesRequest \/ RunsOn(ready)
           /\ rr_tdata' \in {rr_tdata, head, "intr", none}
           /\ rr_vector' \in {0, rr_vector, irr_idx}
           /\ ReaderBits'
           /\ instr_tready_mask => instr_tready_mask'
           /\ head' \in {head, next_head} /\ unpaid' \in BOOLEAN
           /\ skip_next' /\ head' # none => head' \in repeated
           /\ ext_intr_mode' \in {"ST_IDLE", "ST_ACK", "ST_DONE"}
           /\ ext_intr_mode' = "ST_ACK" /\ ext_intr_mode # "ST_ACK" =>
                /\ instr_tready_mask /\ rr_tdata = none /\ ~combined_instr
                /\ fl_tvalid /\ ~taking
           /\ ext_intr_mode' = "ST_ACK" => ~taking
           /\ ext_intr_mode = "ST_DONE" => ext_intr_mode' = "ST_DONE"
<1> DEFINE accepted == instr_tready(ready, regs)
<1>1. /\ head \in AllKinds \cup {none}
      /\ ext_intr_mode \in {"ST_IDLE", "ST_ACK", "ST_DONE"}
      /\ ReaderBits
      /\ "intr" \notin AllKinds /\ none \notin AllKinds /\ none # "intr"
  BY DEF IntrTypes, AllKinds, none
<1>2. taking => ext_intr_mode = "ST_ACK" /\ rr_tdata = none /\ instr_tready_mask
  BY DEF taking, Entry
<1>3. accepted => /\ rr_tdata = none \/ rr_tready(ready)
                  /\ ~instr_tready_mask /\ head \in AllKinds
                  /\ waits_fl(head) => fl_tvalid /\ ~flags_m_lock_tvalid
  BY <1>1 DEF instr_tready, fl_free
<1>4. \A k \in AllKinds :
        /\ locks_fl(k) <=> k \in fl_writers
        /\ waits_fl(k) <=> k \in fl_writers \ {"alu"}
  BY DEF AllKinds, locks_fl, waits_fl, fl_writers
<1>5. accepted \in BOOLEAN /\ taking \in BOOLEAN /\ fl_free \in BOOLEAN
  BY DEF instr_tready, taking, fl_free
<1>6. /\ head' = IF accepted \/ head = none THEN next_head ELSE head
      /\ rr_tdata' = IF accepted THEN handed_on(cx_zero)
                     ELSE IF taking THEN "intr"
                     ELSE IF rr_tready(ready) THEN none ELSE rr_tdata
      /\ rr_vector' = IF accepted THEN 0 ELSE IF taking THEN irr_idx ELSE rr_vector
      /\ flags_m_lock_tvalid' = IF accepted THEN locks_fl(head) ELSE taking
      /\ combined_instr' = IF accepted THEN joins_next(head) ELSE combined_instr
      /\ skip_next' = skips(accepted, cx_zero)
  BY DEF RegisterReader, Queue
<1>7. /\ instr_tready_mask' \in BOOLEAN /\ (instr_tready_mask => instr_tready_mask')
      /\ instr_wait_fl_valid' \in BOOLEAN
  BY <1>1, <1>5 DEF RegisterReader, MaskNext, WaitFlNext
<1>8. /\ ext_intr_mode' \in {"ST_IDLE", "ST_ACK", "ST_DONE"}
      /\ ext_intr_mode' = "ST_ACK" /\ ext_intr_mode # "ST_ACK" =>
           instr_tready_mask /\ rr_tdata = none /\ ~combined_instr /\ fl_tvalid
      /\ ext_intr_mode' = "ST_ACK" => ~taking
      /\ ext_intr_mode = "ST_DONE" => ext_intr_mode' = "ST_DONE"
      /\ taking => ext_intr_mode' = "ST_DONE"
  BY <1>1, <1>2 DEF RegisterReader, ModeNext, may_enter, taking
<1>9. /\ unpaid' = (unpaid \/ (accepted /\ skip_next /\ locks_fl(head)))
       /\ unpaid \in BOOLEAN /\ (skip_next /\ head # none => head \in repeated)
       /\ cx_zero \in BOOLEAN /\ (skips(accepted, cx_zero) => next_head \in repeated \cup {none})
  BY DEF Unpaid, IntrTypes, Fits
<1>10. accepted => head # none
  BY DEF instr_tready
<1> HIDE DEF accepted
<1>11. unpaid' \in BOOLEAN /\ skip_next' \in BOOLEAN
  BY <1>1, <1>5, <1>6, <1>9 DEF skips, locks_fl, waits_fl
<1>12. skip_next' /\ head' # none => head' \in repeated
  BY <1>6, <1>9 DEF skips
<1>13. CASE accepted
  <2>1. head \in AllKinds /\ ~taking
    BY <1>2, <1>3, <1>13
  <2>2. /\ rr_tdata = none \/ rr_tready(ready)
        /\ ~instr_tready_mask
        /\ flags_m_lock_tvalid' <=> head \in fl_writers
        /\ head \in fl_writers \ {"alu"} => fl_tvalid /\ ~flags_m_lock_tvalid
        /\ combined_instr' \in BOOLEAN
    BY <1>3, <1>4, <1>6, <1>13, <2>1 DEF joins_next
  <2>3. Accepts(ready, regs)
    <3>1. CASE skip_next
      <4>1. rr_tdata' = none /\ head \in repeated
        BY <1>6, <1>13, <1>9, <1>10, <3>1 DEF handed_on
      <4>2. \/ head \notin fl_writers /\ unpaid' = unpaid
            \/ head \in fl_writers \ {"alu"} /\ unpaid'
        BY <1>4, <1>13, <1>9, <2>1, <3>1, <4>1 DEF repeated, fl_writers
      <4> QED
        BY <2>1, <2>2, <4>1, <4>2 DEF Accepts
    <3>2. CASE ~skip_next
      <4>1. unpaid' = unpaid
        BY <1>9, <3>2
      <4>2. rr_tdata' = head \/ (rr_tdata' = none /\ head \notin fl_writers)
        BY <1>6, <1>13, <3>2 DEF handed_on, fl_writers
      <4> QED
        BY <2>1, <2>2, <4>1, <4>2 DEF Accepts
    <3> QED
      BY <3>1, <3>2
  <2>4. flags_m_lock_tvalid' \in BOOLEAN /\ combined_instr' \in BOOLEAN
    BY <1>6, <1>13 DEF locks_fl, waits_fl, joins_next
  <2>5. rr_tdata' \in {head, none}
    BY <2>3 DEF Accepts
  <2> QED
    BY <1>6, <1>7, <1>8, <1>13, <1>11, <1>12, <2>1, <2>3, <2>4, <2>5
<1>14. CASE ~accepted /\ taking
  <2>1. TakesRequest
    BY <1>2, <1>6, <1>8, <1>14, <1>9 DEF TakesRequest
  <2> QED
    BY <1>1, <1>5, <1>6, <1>7, <1>8, <1>14, <1>11, <1>12, <2>1
<1>15. CASE ~accepted /\ ~taking
  <2>1. RunsOn(ready)
    BY <1>6, <1>15, <1>9 DEF RunsOn
  <2> QED
    BY <1>1, <1>5, <1>6, <1>7, <1>8, <1>15, <1>11, <1>12, <2>1
<1> QED
  BY <1>13, <1>14, <1>15

-----------------------------------------------------------------------------
(* Once a jump is certain: the edges until it comes.                         *)
StillStopped ==
    /\ ~jmp_lock_tvalid' /\ ~jmp_lock_wr'
    /\ wait' \in {none, "mrd", "mrd_fl", "str", "jmp_always"}
    /\ wait' = "jmp_always" => micro' = <<>>
    /\ wait' # "jmp_always" => micro' \in Final

(* ifeu takes nothing more from the register reader, for the jump lock is    *)
(* taken, until the jump empties it.                                         *)
LEMMA StoppedStep ==
    ASSUME IntrTypes, Stopped, NEW ready, NEW done, NEW taken, NEW popped,
           Inputs(ready, done, taken, popped),
           Execute(ready, done, taken, popped), Issue(ready)
    PROVE  /\ ~rr_tready(ready) /\ micro' \in Final \cup {<<>>}
           /\ IF exec_jump' THEN ~jmp_lock_tvalid' /\ micro' = <<>> /\ wait' = none
              ELSE StillStopped
<1>1. ~rr_tready(ready) /\ ~rr_hs(ready)
  BY DEF Stopped, rr_tready, rr_hs
<1>2. /\ micro' = IF micro_hs(ready) THEN Tail(micro) ELSE micro
      /\ ~jmp_lock_tvalid'
  BY <1>1 DEF Issue, Stopped
<1> DEFINE mop == MicroOp(ready)
<1>3. /\ wait' = IF mop \in {"mrd", "mrd_fl", "str", "jmp", "jmp_always"} THEN mop
                 ELSE IF wait # none /\ done THEN none ELSE wait
      /\ jmp_lock_wr' <=> wait # none /\ done /\ wait \in {"jmp", "jmp_always"}
      /\ exec_jump' <=> wait # none /\ done /\ (wait = "jmp_always" \/ (wait = "jmp" /\ taken))
      /\ micro_hs(ready) => wait = none /\ micro # <<>> /\ mop = Head(micro)
      /\ ~micro_hs(ready) => mop = none
      /\ none = "none" /\ done \in BOOLEAN
  BY DEF fl_waits, Execute, MicroOp, jump_comes, finishes, jump_waits, micro_hs,
     micro_tready, Inputs, none
<1>4. /\ wait \in {none, "mrd", "mrd_fl", "str", "jmp_always"}
      /\ (wait = "jmp_always" => micro = <<>>)
      /\ wait # "jmp_always" => micro \in Final
  BY DEF Stopped
<1> HIDE DEF mop
<1>5. CASE micro_hs(ready)
  <2>1. micro \in Final /\ mop = Head(micro) /\ micro' = Tail(micro) /\ wait = none
    BY <1>2, <1>3, <1>4, <1>5
  <2>2. /\ mop \in {"mem", "keep_if", "clr_if", "mrd", "mrd_fl", "jmp_always"}
        /\ IF mop = "jmp_always" THEN micro' = <<>> ELSE micro' \in Final
    BY <2>1, FinalStep
  <2> QED
    BY <1>1, <1>2, <1>3, <2>1, <2>2 DEF StillStopped
<1>6. CASE ~micro_hs(ready)
  <2>1. /\ micro' = micro
        /\ wait' = (IF wait # none /\ done THEN none ELSE wait)
        /\ micro' \in Final \cup {<<>>}
    BY <1>2, <1>3, <1>4, <1>6
  <2> QED
    BY <1>1, <1>2, <1>3, <1>4, <2>1 DEF StillStopped
<1> QED
  BY <1>5, <1>6

(* The bits of ifeu and mexec stay bits.                                     *)
LEMMA ExecTypes ==
    ASSUME IntrTypes, NEW ready, NEW done, NEW taken, NEW popped,
           Inputs(ready, done, taken, popped),
           Execute(ready, done, taken, popped), Issue(ready), micro \in Plain \cup Final
    PROVE  /\ ExecBits'
           /\ wait' \in {none, "mrd"} \cup fl_waits \cup jump_waits
           /\ flags_wr' \in {none, "set_if", "clr_if", "keep_if"}
<1>1. rr_hs(ready) \in BOOLEAN /\ ready \in BOOLEAN /\ done \in BOOLEAN /\ taken \in BOOLEAN
  BY DEF rr_hs, Inputs
<1>2. ExecBits'
  BY <1>1
     DEF IntrTypes, Issue, Execute, ack_ready, ext_intr_tvalid, jump_comes,
         finishes, PicTypeOK
<1>3. wait' \in {none, "mrd"} \cup fl_waits \cup jump_waits
  BY DEF IntrTypes, Execute, jump_waits
<1>4. flags_wr' \in {none, "set_if", "clr_if", "keep_if"}
  BY DEF IntrTypes, Execute, Inputs
<1> QED
  BY <1>2, <1>3, <1>4

-----------------------------------------------------------------------------
(* An edge without a jump.                                                   *)
GoMoves(ready, regs, cx_zero, done, taken, popped, next_head) ==
    /\ ~exec_jump /\ Inputs(ready, done, taken, popped)
    /\ Fits(ready, regs, cx_zero, next_head) /\ Unpaid(ready, regs)
    /\ Flags /\ RegisterReader(ready, regs, cx_zero, next_head) /\ Issue(ready)
    /\ Execute(ready, done, taken, popped)

(* The register reader pulses the lock for each writer of the flags it       *)
(* takes, and waits for the flags before it takes one that changes IF or     *)
(* enters ST_ACK.                                                            *)
LEMMA ReaderCounted ==
    ASSUME IntrTypes, Scoreboard, Entry, ~Doomed, ~exec_jump, NEW ready, NEW regs, NEW cx_zero,
           NEW next_head, Fits(ready, regs, cx_zero, next_head), Unpaid(ready, regs),
           RegisterReader(ready, regs, cx_zero, next_head)
    PROVE  /\ One(rr_tdata' \in fl_writers) + One(rr_hs(ready) /\ rr_tdata \in fl_writers)
                  + One(unpaid')
                = One(rr_tdata \in fl_writers) + One(flags_m_lock_tvalid') + One(unpaid)
           /\ rr_tdata' \in fl_writers \ {"alu"} =>
                Executed = 0 /\ ~(rr_hs(ready) /\ rr_tdata \in fl_writers)
           /\ ext_intr_mode' = "ST_ACK" => Under = 0 /\ ~flags_m_lock_tvalid'
           /\ TakesRequest => Under = 0
           /\ flags_m_lock_tvalid' => rr_tdata' \in fl_writers \/ unpaid'
<1>1. Counted
  BY DEF Scoreboard
<1>2. /\ none \notin fl_writers /\ "intr" \in fl_writers
      /\ "prefix" \notin fl_writers /\ "intr" # none
      /\ "intr" # "alu"
  BY DEF fl_writers, none
<1>3. Executed \in Nat /\ Under = One(rr_tdata \in fl_writers) + Executed
  BY DEF Executed, Under, One
<1>4. /\ fl_tvalid /\ ~flags_m_lock_tvalid => Under = 0 /\ ~unpaid
      /\ fl_tvalid /\ unpaid => Under = 0
  BY <1>1, <1>3 DEF Counted, Locks, One, IntrTypes
<1>5. Under = 0 => Executed = 0 /\ rr_tdata \notin fl_writers
  BY <1>3 DEF One
<1>6. rr_hs(ready) <=> rr_tdata # none /\ rr_tready(ready)
  BY DEF rr_hs
<1>7. flags_m_lock_tvalid => rr_tdata # none \/ unpaid
  BY <1>2 DEF Scoreboard
<1>8. Accepts(ready, regs) \/ TakesRequest \/ RunsOn(ready)
  BY ReaderEdge
<1>9. /\ ext_intr_mode' = "ST_ACK" /\ ext_intr_mode # "ST_ACK" =>
           instr_tready_mask /\ rr_tdata = none /\ ~combined_instr /\ fl_tvalid /\ ~taking
      /\ ext_intr_mode' = "ST_ACK" => ~taking
  BY ReaderEdge
<1>10. ext_intr_mode = "ST_ACK" => instr_tready_mask /\ rr_tdata = none /\ Under = 0
  BY DEF Entry
<1>11. taking => ext_intr_mode = "ST_ACK"
  BY DEF taking
<1>12. ext_intr_mode' = "ST_ACK" => Under = 0 /\ ~flags_m_lock_tvalid'
  <2>1. ASSUME ext_intr_mode' = "ST_ACK" PROVE Under = 0 /\ instr_tready_mask /\ ~taking
    BY <1>4, <1>7, <1>9, <1>10, <2>1
  <2>2. ASSUME ext_intr_mode' = "ST_ACK" PROVE ~flags_m_lock_tvalid'
    BY <1>8, <2>1, <2>2 DEF Accepts, TakesRequest, RunsOn
  <2> QED
    BY <2>1, <2>2
<1>13. TakesRequest => Under = 0
  BY <1>10, <1>11 DEF TakesRequest
<1>14. CASE Accepts(ready, regs)
  BY <1>2, <1>4, <1>5, <1>6, <1>12, <1>13, <1>14 DEF Accepts, One
<1>15. CASE TakesRequest
  BY <1>2, <1>5, <1>6, <1>12, <1>13, <1>15 DEF TakesRequest, One
<1>16. CASE RunsOn(ready)
  BY <1>1, <1>2, <1>6, <1>12, <1>13, <1>16 DEF RunsOn, One, Counted
<1> QED
  BY <1>8, <1>14, <1>15, <1>16

(* Scoreboard is kept by an edge without a jump.                             *)
LEMMA ScoreStep ==
    ASSUME IntrTypes, Scoreboard, Entry, NEW ready, NEW regs, NEW cx_zero, NEW done,
           NEW taken, NEW popped, NEW next_head,
           GoMoves(ready, regs, cx_zero, done, taken, popped, next_head)
    PROVE  /\ Scoreboard' /\ micro' \in Plain \cup Final
           /\ Doomed => Doomed' /\ ~rr_tready(ready)
           /\ ~Doomed /\ ~Doomed' =>
                /\ Goes(ready)
                /\ Under' + One(unpaid') = (Under - One(written)) + One(flags_m_lock_tvalid')
                                              + One(unpaid)
           /\ ~Doomed => One(written) <= Under
           /\ Leaves(ready) => Doomed'
<1> DEFINE h == rr_hs(ready)
           w == One(written)
           l == One(flags_m_lock_tvalid')
<1>1. /\ hs_cnt \in Nat /\ hs_cnt <= 7 /\ hs_cnt' \in Nat /\ hs_cnt' <= Locks
      /\ Locks = hs_cnt + One(flags_m_lock_tvalid) /\ Locks' = hs_cnt' + l
      /\ w \in {0, 1} /\ l \in {0, 1} /\ One(flags_m_lock_tvalid) \in {0, 1}
      /\ Locks >= w => hs_cnt' = Locks - w
      /\ {One(unpaid), One(unpaid')} \subseteq {0, 1}
  BY CountStep DEF GoMoves, Scoreboard, IntrTypes, Locks, One
<1>2. Accepts(ready, regs) \/ TakesRequest \/ RunsOn(ready)
  BY ReaderEdge DEF GoMoves
<1>3. flags_m_lock_tvalid' => rr_tdata' \in fl_writers \/ unpaid'
  <2>1. "intr" \in fl_writers
    BY DEF fl_writers
  <2> QED
    BY <1>2, <2>1 DEF Accepts, TakesRequest, RunsOn
<1>4. none \notin fl_writers /\ none \notin AllKinds
  BY DEF fl_writers, none, AllKinds
<1> HIDE DEF w, l
<1>5. CASE Doomed
  <2>1. Stopped
    BY <1>5 DEF Scoreboard, GoMoves
  <2>2. /\ ~rr_tready(ready) /\ micro' \in Final \cup {<<>>}
        /\ IF exec_jump' THEN ~jmp_lock_tvalid' /\ micro' = <<>> /\ wait' = none
           ELSE StillStopped
    BY <2>1, StoppedStep DEF GoMoves
  <2>3. Doomed'
    BY <2>2 DEF StillStopped, Doomed
  <2>4. \/ One(rr_tdata' # none) + One(unpaid') >= One(rr_tdata # none) + One(unpaid) + l
        \/ Locks = 0
    <3>1. CASE Accepts(ready, regs)
      <4>1. head \in fl_writers \ {"alu"} => Locks = 0
        BY <3>1 DEF Accepts, Locks, One, IntrTypes
      <4>2. rr_tdata = none
        BY <2>2, <3>1 DEF Accepts
      <4> QED
        BY <1>4, <3>1, <4>1, <4>2 DEF Accepts, One, l
    <3>2. CASE TakesRequest
      BY <3>2 DEF TakesRequest, One, l, none
    <3>3. CASE RunsOn(ready)
      BY <2>2, <3>3 DEF RunsOn, One, l
    <3> QED
      BY <1>2, <3>1, <3>2, <3>3
  <2>5. /\ Locks <= 1 + One(rr_tdata # none) + One(unpaid) /\ One(rr_tdata # none) \in {0, 1}
        /\ One(rr_tdata' # none) \in {0, 1}
    BY <2>1 DEF Stopped, One
  <2>6. hs_cnt' <= 7 /\ Locks' <= 1 + One(rr_tdata' # none) + One(unpaid')
    BY <1>1, <2>4, <2>5
  <2>7. StillStopped => Stopped'
    BY <2>6 DEF Stopped, StillStopped
  <2>8. Scoreboard'
    BY <1>3, <2>2, <2>3, <2>6, <2>7 DEF Scoreboard
  <2>9. ~Leaves(ready)
    BY <2>2 DEF Leaves, rr_hs
  <2> QED
    BY <1>5, <2>2, <2>3, <2>8, <2>9, Apart
<1>6. CASE ~Doomed
  <2>1. Counted /\ Kept
    BY <1>6 DEF Scoreboard, GoMoves, Kept
  <2>2. IF Leaves(ready) THEN Quits ELSE Goes(ready)
    BY <2>1, IssueCounted DEF GoMoves
  <2>3. /\ One(rr_tdata' \in fl_writers) + One(h /\ rr_tdata \in fl_writers) + One(unpaid')
             = One(rr_tdata \in fl_writers) + l + One(unpaid)
        /\ rr_tdata' \in fl_writers \ {"alu"} =>
             Executed = 0 /\ ~(h /\ rr_tdata \in fl_writers)
    BY <1>6, ReaderCounted DEF GoMoves, l
  <2>4. /\ Executed \in Nat /\ Executed >= w /\ Executed <= 5
        /\ Under = One(rr_tdata \in fl_writers) + Executed
        /\ Under' = One(rr_tdata' \in fl_writers) + Executed'
        /\ Locks = Under + One(unpaid)
        /\ {One(rr_tdata \in fl_writers), One(rr_tdata' \in fl_writers),
            One(h /\ rr_tdata \in fl_writers)} \subseteq {0, 1}
    BY <2>1 DEF Executed, Under, One, Counted, w
  <2>5. exec_jump' => jmp_lock_wr'
    BY DEF GoMoves, Execute, jump_comes, finishes, jump_waits
  <2> DEFINE a == One(rr_tdata \in fl_writers)
             b == One(rr_tdata' \in fl_writers)
             c == One(h /\ rr_tdata \in fl_writers)
  <2>6. Locks \in Nat /\ Locks <= 7 /\ Locks >= w /\ hs_cnt' <= 7 /\ hs_cnt' = Locks - w
    <3> HIDE DEF a, b, c
    <3> QED
      BY <1>1, <2>4 DEF a, b, c
  <2>7. CASE Leaves(ready)
    <3>1. Quits /\ Doomed'
      BY <2>2, <2>7 DEF Quits, Doomed
    <3>2. rr_tdata \in Jumpers /\ rr_tdata \in fl_writers \ {"alu"}
      BY <2>7 DEF Leaves, Jumpers, fl_writers
    <3>3. Executed = 0 /\ a = 1
      BY <2>1, <3>2 DEF Counted, One
    <3>4. Locks = 1 + One(unpaid)
      BY <2>4, <3>3
    <3>5. Locks' <= 1 + One(rr_tdata' # none) + One(unpaid')
      <4>1. \/ One(unpaid) + l <= One(rr_tdata' # none) + One(unpaid')
            \/ l = 1 /\ unpaid' /\ ~unpaid
        <5>1. CASE Accepts(ready, regs)
          <6>1. head \in fl_writers \ {"alu"} => Locks = 0
            BY <5>1 DEF Accepts, Locks, One, IntrTypes
          <6>2. Locks # 0
            BY <1>1, <3>4
          <6> QED
            BY <1>4, <5>1, <6>1, <6>2 DEF Accepts, One, l
        <5>2. CASE TakesRequest
          BY <5>2 DEF TakesRequest, One, l, none
        <5>3. CASE RunsOn(ready)
          BY <5>3 DEF RunsOn, One, l
        <5> QED
          BY <1>2, <5>1, <5>2, <5>3
      <4>2. One(rr_tdata' # none) \in {0, 1}
        BY DEF One
      <4>3. (unpaid' => One(unpaid') = 1) /\ (~unpaid => One(unpaid) = 0)
        BY DEF One
      <4> QED
        BY <1>1, <3>4, <4>1, <4>2, <4>3
    <3>6. Stopped'
      BY <3>1, <3>5 DEF Stopped, Quits, none
    <3>7. Scoreboard' /\ micro' \in Final
      BY <1>3, <2>6, <2>5, <3>1, <3>6 DEF Scoreboard, Quits
    <3>8. w <= Under
      BY <1>1, <2>4
    <3> QED
      BY <1>6, <2>7, <3>1, <3>7, <3>8 DEF w
  <2>8. CASE ~Leaves(ready)
    <3>1. Goes(ready)
      BY <2>2, <2>8
    <3>2. Executed' = (Executed - w) + c
      BY <3>1 DEF Goes, h, w
    <3>3. Under' + One(unpaid') = (Under - w) + l + One(unpaid)
      <4> HIDE DEF a, b, c
      <4>1. /\ b + c + One(unpaid') = a + l + One(unpaid) /\ Under = a + Executed /\ Under' = b + Executed'
            /\ {a, b, c} \subseteq {0, 1}
        BY <2>3, <2>4 DEF a, b, c
      <4> QED
        BY <1>1, <2>4, <3>2, <4>1
    <3>4. Locks' = Under' + One(unpaid')
      <4>1. Locks' = (Locks - w) + l
        BY <1>1, <2>6
      <4> QED
        BY <1>1, <2>4, <3>3, <4>1
    <3>5. rr_tdata' \in fl_writers \ {"alu"} => Executed' = 0
      <4>1. ~(h /\ rr_tdata \in fl_writers) => c = 0
        BY DEF One
      <4> QED
        BY <1>1, <2>3, <2>4, <3>2, <4>1
    <3>6. Counted'
      BY <3>1, <3>4, <3>5 DEF Counted, Goes
    <3>7. Doomed' => exec_jump'
      BY <3>1, Apart DEF Doomed, Goes, none
    <3>8. Scoreboard' /\ micro' \in Plain
      BY <1>3, <2>6, <2>5, <3>1, <3>6, <3>7 DEF Scoreboard, Goes
    <3>9. w <= Under
      BY <1>1, <2>4
    <3> QED
      BY <1>6, <2>8, <3>1, <3>3, <3>8, <3>9 DEF w, l
  <2> QED
    BY <2>7, <2>8
<1> QED
  BY <1>5, <1>6

(* Entry is kept by an edge without a jump: nothing that is under way can    *)
(* take the request away or clear IF once it is answered.                    *)
LEMMA EntryStep ==
    ASSUME IntrTypes, Scoreboard, Entry, NEW ready, NEW regs, NEW cx_zero, NEW done,
           NEW taken, NEW popped, NEW next_head,
           GoMoves(ready, regs, cx_zero, done, taken, popped, next_head), Owed(ready), PicTypeOK',
           interrupt_valid /\ ~interrupt_ack => interrupt_valid' /\ irr_idx' = irr_idx
    PROVE  Entry'
<1>1. /\ Scoreboard' /\ micro' \in Plain \cup Final
      /\ Doomed => Doomed' /\ ~rr_tready(ready)
      /\ ~Doomed /\ ~Doomed' =>
           /\ Goes(ready)
           /\ Under' + One(unpaid') = (Under - One(written)) + One(flags_m_lock_tvalid')
                                         + One(unpaid)
      /\ ~Doomed => One(written) <= Under
      /\ Leaves(ready) => Doomed'
  BY ScoreStep
<1>2. Accepts(ready, regs) \/ TakesRequest \/ RunsOn(ready)
  BY ReaderEdge DEF GoMoves
<1>3. /\ instr_tready_mask => instr_tready_mask'
      /\ ext_intr_mode' = "ST_ACK" /\ ext_intr_mode # "ST_ACK" =>
           instr_tready_mask /\ rr_tdata = none /\ ~combined_instr /\ fl_tvalid /\ ~taking
      /\ ext_intr_mode' = "ST_ACK" => ~taking
      /\ ext_intr_mode = "ST_DONE" => ext_intr_mode' = "ST_DONE"
  BY ReaderEdge DEF GoMoves
<1>4. ~Doomed => /\ ext_intr_mode' = "ST_ACK" => Under = 0 /\ ~flags_m_lock_tvalid'
                 /\ TakesRequest => Under = 0
  BY ReaderCounted DEF GoMoves
<1>5. ~Doomed => ~ext_intr_s_tready /\ ~interrupt_ack
  BY DEF Scoreboard, Counted, interrupt_ack
<1>6. /\ ext_intr_mode = "ST_ACK" => instr_tready_mask /\ rr_tdata = none /\ ~combined_instr
      /\ rr_tdata = "intr" => /\ instr_tready_mask /\ ext_intr_mode = "ST_DONE"
                              /\ Doomed \/ (interrupt_valid /\ fl_if /\ rr_vector = irr_idx)
      /\ OwedIsAcked
  BY DEF Entry
<1>7. none \notin AllKinds /\ "intr" \notin AllKinds /\ none # "intr"
  BY DEF none, AllKinds
<1>8. ext_intr_mode' = "ST_ACK" =>
        /\ instr_tready_mask' /\ rr_tdata' = none /\ ~combined_instr'
        /\ Doomed' \/ Under' = 0
  <2> SUFFICES ASSUME ext_intr_mode' = "ST_ACK"
               PROVE  /\ instr_tready_mask' /\ rr_tdata' = none /\ ~combined_instr'
                      /\ Doomed' \/ Under' = 0
    OBVIOUS
  <2>1. instr_tready_mask /\ rr_tdata = none /\ ~combined_instr /\ ~taking
    BY <1>3, <1>6
  <2>2. RunsOn(ready)
    BY <1>2, <2>1 DEF Accepts, TakesRequest
  <2>3. rr_tdata' = none /\ ~combined_instr' /\ instr_tready_mask' /\ ~flags_m_lock_tvalid'
    BY <1>3, <2>1, <2>2 DEF RunsOn
  <2>4. Doomed' \/ Under' = 0
    <3>1. unpaid' = unpaid /\ Under' \in Nat
      BY <2>2 DEF RunsOn, Under, Executed, One
    <3> QED
      BY <1>1, <1>4, <2>3, <3>1 DEF One
  <2> QED
    BY <2>3, <2>4
<1>9. ~Doomed /\ Under = 0 => ~written
  BY <1>1 DEF One
<1>10. ~Doomed /\ rr_tdata = "intr" => ~written
  <2>1. ~Doomed /\ rr_tdata = "intr" => Executed = 0
    BY DEF Scoreboard, Counted, fl_writers
  <2>2. Executed = 0 => ~written
    BY DEF Executed, One
  <2> QED
    BY <2>1, <2>2
<1>11. ~written => fl_if' = fl_if
  BY CountStep DEF GoMoves
<1>12. rr_tdata' = "intr" =>
         /\ instr_tready_mask' /\ ext_intr_mode' = "ST_DONE"
         /\ Doomed' \/ (interrupt_valid' /\ fl_if' /\ rr_vector' = irr_idx')
  <2>1. CASE Accepts(ready, regs)
    BY <1>7, <2>1 DEF Accepts
  <2>2. CASE TakesRequest
    <3>1. instr_tready_mask' /\ ext_intr_mode' = "ST_DONE" /\ rr_vector' = irr_idx
      BY <1>3, <2>2 DEF TakesRequest
    <3>2. interrupt_valid /\ fl_if
      BY <2>2 DEF TakesRequest, taking, ext_intr_tvalid
    <3> QED
      BY <1>1, <1>4, <1>5, <1>9, <1>11, <2>2, <3>1, <3>2
  <2>3. CASE RunsOn(ready) /\ rr_tdata' = "intr"
    <3>1. rr_tdata = "intr" /\ rr_vector' = rr_vector
      BY <1>7, <2>3 DEF RunsOn
    <3> QED
      BY <1>1, <1>3, <1>5, <1>6, <1>10, <1>11, <3>1
  <2> QED
    BY <1>2, <2>1, <2>2, <2>3
<1>13. OwedIsAcked'
  <2>1. CASE rr_hs(ready) /\ rr_tdata = "intr"
    <3>1. ~Doomed /\ Leaves(ready)
      BY <1>1, <2>1 DEF rr_hs, Leaves, Jumpers
    <3>2. /\ interrupt_valid /\ fl_if /\ rr_vector = irr_idx /\ ~interrupt_ack
          /\ fl_if' = fl_if
      BY <1>5, <1>6, <1>10, <1>11, <2>1, <3>1
    <3>3. interrupt_valid' /\ irr_idx' = irr_idx /\ fl_if'
      BY <3>2
    <3>4. ext_intr_s_tready' <=> ext_intr_tvalid
      BY <2>1 DEF GoMoves, Issue, ack_ready
    <3>5. ext_intr_s_tready'
      BY <3>2, <3>4 DEF ext_intr_tvalid
    <3>6. owed' = <<rr_vector>>
      BY <2>1 DEF Owed, GoMoves
    <3> QED
      BY <3>2, <3>3, <3>5, <3>6 DEF OwedIsAcked, interrupt_ack, ext_intr_tvalid
  <2>2. CASE ~(rr_hs(ready) /\ rr_tdata = "intr")
    <3>1. owed' = IF interrupt_ack THEN <<>> ELSE owed
      BY <2>2 DEF Owed
    <3>2. owed' = <<>>
      BY <1>6, <3>1 DEF OwedIsAcked
    <3> QED
      BY <3>2 DEF OwedIsAcked
  <2> QED
    BY <2>1, <2>2
<1> QED
  BY <1>8, <1>12, <1>13 DEF Entry

-----------------------------------------------------------------------------
(* An edge with a jump empties the pipeline.                                 *)
LEMMA ResetStep ==
    ASSUME IntrTypes, Scoreboard, Entry, exec_jump, Flags, ReaderReset, ExecReset,
           NEW ready, NEW regs, Owed(ready), Unpaid(ready, regs)
    PROVE  Scoreboard' /\ Entry'
<1>1. /\ hs_cnt' = 0 /\ fl_tvalid' /\ ~flags_m_lock_tvalid' /\ rr_tdata' = none
      /\ ext_intr_mode' = "ST_IDLE"
      /\ micro' = <<>> /\ wait' = none /\ ~alu_req' /\ ~alu_res' /\ ~written'
      /\ ~exec_jump'
      /\ ~ext_intr_s_tready' /\ ~jmp_lock_wr' /\ ~unpaid'
  BY DEF Flags, count_next, valid_next, ReaderReset, ExecReset, written, Unpaid
<1>2. owed' = <<>>
  BY DEF Owed, Entry, OwedIsAcked
<1>3. /\ none \notin fl_writers /\ none # "intr"
      /\ none \notin {"jmp", "jmp_always"} \cup fl_waits
  BY DEF none, fl_writers, fl_waits
<1>4. ~Doomed'
  BY <1>1, <1>3, Apart DEF Doomed
<1>5. Locks' = 0 /\ Under' = 0 /\ Executed' = 0
  BY <1>1, <1>3, Apart DEF Locks, Under, Executed, One
<1>6. One(unpaid') = 0
  BY <1>1 DEF One
<1>7. Counted'
  BY <1>1, <1>3, <1>5, <1>6, Apart DEF Counted
<1> QED
  BY <1>1, <1>2, <1>3, <1>4, <1>7 DEF Scoreboard, Entry, OwedIsAcked

(* What an edge is.                                                          *)
JumpEdge(ready, regs) ==
    /\ exec_jump /\ Flags /\ ReaderReset /\ ExecReset
    /\ Owed(ready) /\ Unpaid(ready, regs)
GoEdge(ready, regs, cx_zero, done, taken, popped, next_head) ==
    GoMoves(ready, regs, cx_zero, done, taken, popped, next_head) /\ Owed(ready)

(* Every step of Interrupts is one of the two.                               *)
LEMMA EdgeIs ==
    ASSUME IntrTypes, IntrNext
    PROVE  /\ program' = program /\ PicTypeOK'
           /\ interrupt_valid /\ ~interrupt_ack => interrupt_valid' /\ irr_idx' = irr_idx
           /\ \E ready, regs, cx_zero, done, taken, popped :
                \E next_head \in program.kinds \cup {none} :
                 \/ JumpEdge(ready, regs)
                 \/ GoEdge(ready, regs, cx_zero, done, taken, popped, next_head)
<1>1. PICK interrupt_input \in SUBSET program.lines, imr_write \in program.masks \cup {imr} :
         IntrEdge(interrupt_input, imr_write)
  BY DEF IntrNext
<1>2. /\ program' = program /\ PicClock(interrupt_input, interrupt_ack, imr_write)
      /\ \E ready \in Ready, regs \in Regs, cx_zero \in CxZero,
            done \in Done, taken \in Taken, popped \in Popped :
            \E next_head \in NextHead(ready, regs, cx_zero) :
                Pipeline(ready, regs, cx_zero, done, taken, popped, next_head)
  BY <1>1 DEF IntrEdge
<1>3. PICK ready \in Ready, regs \in Regs, cx_zero \in CxZero,
            done \in Done, taken \in Taken, popped \in Popped :
         \E next_head \in NextHead(ready, regs, cx_zero) :
             Pipeline(ready, regs, cx_zero, done, taken, popped, next_head)
  BY <1>2
<1>4. PICK next_head \in NextHead(ready, regs, cx_zero) :
         Pipeline(ready, regs, cx_zero, done, taken, popped, next_head)
  BY <1>3
<1>5. Inputs(ready, done, taken, popped)
  BY DEF Ready, Done, Taken, Popped, Inputs, none
<1>6. next_head \in program.kinds \cup {none} /\ Fits(ready, regs, cx_zero, next_head)
  BY DEF NextHead, NextKinds, CxZero, Fits
<1>7. \/ JumpEdge(ready, regs)
      \/ GoEdge(ready, regs, cx_zero, done, taken, popped, next_head)
  BY <1>4, <1>5, <1>6 DEF Pipeline, JumpEdge, GoEdge, GoMoves
<1>8. /\ PicTypeOK'
      /\ (interrupt_valid /\ ~interrupt_ack => interrupt_valid' /\ irr_idx' = irr_idx)
  BY <1>2, PicStep
<1> QED
  BY <1>2, <1>6, <1>7, <1>8

LEMMA OwedType ==
    ASSUME IntrTypes, NEW ready, Owed(ready)
    PROVE  owed' \in {<<>>} \cup {<<n>> : n \in Lines}
  BY DEF Owed, IntrTypes

(* The invariant is inductive.                                               *)
LEMMA IntrInvStep ==
    ASSUME IntrInv, IntrNext
    PROVE  IntrInv'
<1>1. IntrTypes /\ Scoreboard /\ Entry
  BY DEF IntrInv
<1>2. /\ program' = program /\ PicTypeOK'
      /\ interrupt_valid /\ ~interrupt_ack => interrupt_valid' /\ irr_idx' = irr_idx
  BY <1>1, EdgeIs
<1>3. PICK ready, regs, cx_zero, done, taken, popped :
         \E next_head \in program.kinds \cup {none} :
             \/ JumpEdge(ready, regs)
             \/ GoEdge(ready, regs, cx_zero, done, taken, popped, next_head)
  BY <1>1, EdgeIs
<1>4. PICK next_head \in program.kinds \cup {none} :
         \/ JumpEdge(ready, regs)
         \/ GoEdge(ready, regs, cx_zero, done, taken, popped, next_head)
  BY <1>3
<1>5. program \in Programs /\ program.kinds \subseteq AllKinds
  BY <1>1, ProgramsAssumption DEF IntrTypes
<1>6. 0 \in Lines /\ irr_idx \in Lines
  BY <1>1, QtyAssumption DEF IntrTypes, PicTypeOK, Lines
<1>7. CASE JumpEdge(ready, regs)
  <2>1. Scoreboard' /\ Entry'
    BY <1>1, <1>7, ResetStep DEF JumpEdge
  <2>2. owed' \in {<<>>} \cup {<<n>> : n \in Lines}
    BY <1>1, <1>7, OwedType DEF JumpEdge
  <2>3. /\ head' = none /\ rr_tdata' = none /\ rr_vector' = rr_vector
        /\ ext_intr_mode' = "ST_IDLE"
        /\ ReaderBits'
    BY <1>7 DEF JumpEdge, ReaderReset
  <2>4. /\ ExecBits'
        /\ micro' \in Plain /\ wait' = none /\ flags_wr' = none
    BY <1>7, Apart DEF JumpEdge, ExecReset
  <2>5. /\ hs_cnt' = 0 /\ fl_tvalid' = TRUE /\ fl_if' \in BOOLEAN
        /\ unpaid' = FALSE /\ ~skip_next'
    BY <1>1, <1>7 DEF JumpEdge, Flags, count_next, valid_next, IntrTypes, Unpaid, ReaderReset
  <2>6. /\ fl_tvalid' \in BOOLEAN /\ unpaid' \in BOOLEAN /\ (fl_tvalid' <=> hs_cnt' = 0)
        /\ skip_next' /\ head' # none => head' \in repeated
    BY <2>5
  <2>7. IntrTypes'
    <3> HIDE DEF ReaderBits, ExecBits
    <3> QED
      BY <1>1, <1>2, <2>2, <2>3, <2>4, <2>5, <2>6 DEF IntrTypes
  <2> QED
    BY <2>1, <2>7 DEF IntrInv
<1>8. CASE GoEdge(ready, regs, cx_zero, done, taken, popped, next_head)
  <2> DEFINE mv == GoMoves(ready, regs, cx_zero, done, taken, popped, next_head)
  <2>1. mv /\ Owed(ready)
    BY <1>8 DEF GoEdge
  <2>2. Scoreboard' /\ micro' \in Plain \cup Final
    BY <1>1, <2>1, ScoreStep
  <2>3. Entry'
    BY <1>1, <1>2, <2>1, EntryStep
  <2>4. owed' \in {<<>>} \cup {<<n>> : n \in Lines}
    BY <1>1, <2>1, OwedType
  <2>5. /\ rr_tdata' \in {rr_tdata, head, "intr", none}
        /\ rr_vector' \in {0, rr_vector, irr_idx}
        /\ ReaderBits'
        /\ head' \in {head, next_head} /\ unpaid' \in BOOLEAN
        /\ skip_next' /\ head' # none => head' \in repeated
        /\ ext_intr_mode' \in {"ST_IDLE", "ST_ACK", "ST_DONE"}
    BY <1>1, <2>1, ReaderEdge DEF GoMoves
  <2>6. /\ ExecBits'
        /\ wait' \in {none, "mrd"} \cup fl_waits \cup jump_waits
        /\ flags_wr' \in {none, "set_if", "clr_if", "keep_if"}
    <3>1. micro \in Plain \cup Final
      BY <1>1 DEF IntrTypes
    <3> QED
      BY <1>1, <2>1, <3>1, ExecTypes DEF GoMoves
  <2>7. /\ hs_cnt' \in 0 .. 7 /\ fl_tvalid' \in BOOLEAN /\ fl_if' \in BOOLEAN
        /\ fl_tvalid' <=> hs_cnt' = 0
    <3>1. /\ hs_cnt' \in Nat /\ fl_tvalid' \in BOOLEAN /\ fl_if' \in BOOLEAN
          /\ fl_tvalid' <=> hs_cnt' = 0
      BY <1>1, <2>1, CountStep DEF GoMoves
    <3> QED
      BY <2>2, <3>1 DEF Scoreboard
  <2>8. /\ head' \in program.kinds \cup {none}
        /\ rr_tdata' \in program.kinds \cup {none, "intr"}
        /\ rr_vector' \in Lines
    BY <1>1, <1>6, <2>5 DEF IntrTypes
  <2>9. IntrTypes'
    BY <1>1, <1>2, <1>5, <2>2, <2>4, <2>5, <2>6, <2>7, <2>8 DEF IntrTypes
  <2> QED
    BY <2>2, <2>3, <2>9 DEF IntrInv
<1> QED
  BY <1>4, <1>7, <1>8

LEMMA IntrInvInit ==
    ASSUME IntrInit
    PROVE  IntrInv
<1>1. /\ 0 \in Lines /\ none \notin fl_writers /\ none # "intr"
      /\ none \notin {"jmp", "jmp_always"} \cup fl_waits
  BY QtyAssumption DEF Lines, none, fl_writers, fl_waits
<1>2. IntrTypes
  <2>1. PicTypeOK
    BY <1>1 DEF IntrInit, PicInit, PicTypeOK
  <2>2. /\ head = none /\ rr_tdata = none /\ rr_vector = 0 /\ ext_intr_mode = "ST_IDLE"
        /\ ReaderBits
        /\ ExecBits
    BY DEF IntrInit
  <2>3. /\ micro \in Plain /\ wait = none /\ flags_wr = none
        /\ fl_if \in BOOLEAN /\ fl_tvalid = TRUE /\ hs_cnt = 0
        /\ skip_next = FALSE /\ unpaid = FALSE
    BY Apart DEF IntrInit
  <2>4. owed = <<>> /\ program \in Programs
    BY DEF IntrInit
  <2>5. /\ fl_tvalid \in BOOLEAN /\ unpaid \in BOOLEAN /\ (fl_tvalid <=> hs_cnt = 0)
        /\ skip_next /\ head # none => head \in repeated
    BY <2>3
  <2> QED
    <3> HIDE DEF ReaderBits, ExecBits
    <3> QED
      BY <1>1, <2>1, <2>2, <2>3, <2>4, <2>5 DEF IntrTypes
<1>3. ~Doomed /\ Locks = 0 /\ Under = 0 /\ Executed = 0
  BY <1>1, Apart DEF IntrInit, Doomed, Locks, Under, Executed, One, written
<1>4. One(unpaid) = 0
  BY DEF IntrInit, One
<1>5. Counted
  BY <1>1, <1>3, <1>4, Apart DEF IntrInit, Counted
<1>6. Scoreboard /\ Entry
  BY <1>1, <1>3, <1>5 DEF IntrInit, Scoreboard, Entry, OwedIsAcked
<1> QED
  BY <1>2, <1>6 DEF IntrInv

LEMMA IntrInvStutter ==
    ASSUME IntrInv, UNCHANGED intr_vars
    PROVE  IntrInv'
  BY DEF IntrInv, IntrTypes, Scoreboard, Entry, Counted, Stopped, Doomed, Locks, Under,
     Executed, written, OwedIsAcked, interrupt_ack, ext_intr_tvalid,
     PicTypeOK,
    intr_vars, pic_vars, reader_vars, exec_vars, flag_vars

-----------------------------------------------------------------------------
(* The invariant gives the two properties.                                   *)
(* A pending operation on the flags, or a pending branch, is seen by Writes  *)
(* and Branches; what will jump ends in a jump.                        *)
LEMMA PlainOps ==
    ASSUME NEW s \in Plain
    PROVE  /\ (\E n \in 1 .. Len(s) :
                 s[n] \in {"alu", "clr_if", "set_if", "keep_if", "mrd_fl", "str"}) =>
                Writes(s)
           /\ (\E n \in 1 .. Len(s) : s[n] = "jmp") => Branches(s)
  BY DEF Plain, Writes, Alone, Branches

LEMMA FinalOps ==
    ASSUME NEW s \in Final
    PROVE  \E n \in 1 .. Len(s) : s[n] = "jmp_always"
<1> DEFINE ends(n) == n \in 1 .. Len(s) /\ s[n] = "jmp_always"
<1>1. CASE s = <<"mem", "mrd", "mrd", "mrd_fl", "jmp_always">>
  <2>1. ends(5)
    BY <1>1
  <2> QED
    BY <2>1
<1>2. CASE s = <<"mrd", "mrd", "mrd_fl", "jmp_always">>
  <2>1. ends(4)
    BY <1>2
  <2> QED
    BY <2>1
<1>3. CASE s = <<"mrd", "mrd_fl", "jmp_always">>
  <2>1. ends(3)
    BY <1>3
  <2> QED
    BY <2>1
<1>4. CASE s = <<"mrd_fl", "jmp_always">>
  <2>1. ends(2)
    BY <1>4
  <2> QED
    BY <2>1
<1>5. CASE s = <<"mem", "keep_if", "clr_if", "mem", "mrd", "jmp_always">>
  <2>1. ends(6)
    BY <1>5
  <2> QED
    BY <2>1
<1>6. CASE s = <<"keep_if", "clr_if", "mem", "mrd", "jmp_always">>
  <2>1. ends(5)
    BY <1>6
  <2> QED
    BY <2>1
<1>7. CASE s = <<"clr_if", "mem", "mrd", "jmp_always">>
  <2>1. ends(4)
    BY <1>7
  <2> QED
    BY <2>1
<1>8. CASE s = <<"mem", "mrd", "jmp_always">>
  <2>1. ends(3)
    BY <1>8
  <2> QED
    BY <2>1
<1>9. CASE s = <<"mrd", "jmp_always">>
  <2>1. ends(2)
    BY <1>9
  <2> QED
    BY <2>1
<1>10. CASE s = <<"jmp_always">>
  <2>1. ends(1)
    BY <1>10
  <2> QED
    BY <2>1
<1> QED
  BY <1>1, <1>2, <1>3, <1>4, <1>5, <1>6, <1>7, <1>8, <1>9, <1>10 DEF Final

LEMMA IntrInvHolds ==
    ASSUME IntrInv
    PROVE  ScoreboardHonest /\ EntersOnce
<1>1. IntrTypes /\ Scoreboard /\ Entry
  BY DEF IntrInv
<1>2. Len(micro) <= 6
  BY <1>1, Apart, FinalStep DEF IntrTypes
<1>3. IntrTypeOK
  BY <1>1, <1>2 DEF IntrTypes, IntrTypeOK
<1>4. Doomed => Leaving
  <2>1. ASSUME micro \in Final PROVE \E n \in 1 .. Len(micro) : micro[n] = "jmp_always"
    BY <2>1, FinalOps
  <2> QED
    BY <2>1 DEF Doomed, Leaving, Pending
<1>5. ~Doomed /\ Under = 0 => ~WriteComing
  <2> SUFFICES ASSUME ~Doomed, Under = 0 PROVE ~WriteComing
    OBVIOUS
  <2>1. Counted
    BY <1>1 DEF Scoreboard
  <2>2. /\ rr_tdata \notin fl_writers /\ ~Writes(micro) /\ wait \notin fl_waits /\ ~alu_req
        /\ ~alu_res /\ ~written
    BY DEF Under, Executed, One
  <2>3. \A n \in 1 .. Len(micro) : micro[n] \notin fl_ops
    BY <2>1, <2>2, PlainOps DEF Counted, fl_ops
  <2>4. wait \notin fl_ops
    BY <2>1, <2>2 DEF fl_waits, Counted, fl_ops, none
  <2> QED
    BY <2>2, <2>3, <2>4 DEF WriteComing, Pending
<1>6. fl_free /\ ~Doomed => Under = 0
  <2>1. Under \in Nat
    BY DEF Under, Executed, One
  <2> QED
    BY <1>1, <2>1 DEF fl_free, Scoreboard, Counted, IntrTypes, Locks, One
<1>7. ScoreboardHonest
  BY <1>3, <1>4, <1>5, <1>6 DEF ScoreboardHonest
<1>8. EntersBetweenInstructions
  <2>1. taking => ext_intr_mode = "ST_ACK"
    BY DEF taking
  <2> QED
    BY <1>1, <1>4, <1>5, <2>1 DEF Entry, EntersBetweenInstructions
<1> QED
  BY <1>1, <1>7, <1>8 DEF Entry, EntersOnce

LEMMA IntrInvAlways == IntrSpec => []IntrInv
<1>1. IntrInit => IntrInv
  BY IntrInvInit
<1>2. IntrInv /\ [IntrNext]_intr_vars => IntrInv'
  BY IntrInvStep, IntrInvStutter
<1> QED
  BY <1>1, <1>2, PTL DEF IntrSpec

(* While the flags read as valid no instruction that will write them is      *)
(* under way, unless a jump is, and the count of the locks keeps its three   *)
(* bits (cpu86_exec_reg.vhd, cpu86_exec_register_reader.vhd): for every      *)
(* program made of AllKinds (with what can be repeated behind a REP), every   *)
(* mask and every number of request lines.                                   *)
THEOREM FlagsHonest == IntrSpec => []ScoreboardHonest
<1>1. IntrInv => ScoreboardHonest
  BY IntrInvHolds
<1> QED
  BY <1>1, IntrInvAlways, PTL

(* An interrupt takes the place of an instruction only between two, with no  *)
(* write of the flags under way, and what is issued is acknowledged at once  *)
(* and on the line it was issued for (cpu86_exec_register_reader.vhd,        *)
(* cpu86_exec_ifeu.vhd, pic_lite.sv): for the same programs, masks and       *)
(* lines.                                                                    *)
THEOREM InterruptsOnce == IntrSpec => []EntersOnce
<1>1. IntrInv => EntersOnce
  BY IntrInvHolds
<1> QED
  BY <1>1, IntrInvAlways, PTL
=============================================================================
