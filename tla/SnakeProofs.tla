---------------------------- MODULE SnakeProofs ----------------------------
(***************************************************************************)
(* The keyboard ring of the game, for every size of the ring, every         *)
(* keyboard and any number of keys, overruns included; then the board, the  *)
(* snake and the screen, for every size of the board and any food.          *)
(***************************************************************************)
EXTENDS Snake, FiniteSetTheorems, TLAPS

Slots == 0 .. KBD_BUF - 1
Bytes == {0} \cup UNION {Range(k) : k \in Keystrokes}

(* The place in the ring of the i-th unread byte.                            *)
place(i) == (kbd_buf_rd_ptr + i - 1) % KBD_BUF

RingTypeOK ==
    /\ kbd_buf \in [Slots -> Bytes]
    /\ kbd_buf_rd_ptr \in Slots
    /\ unread \in Seq(Bytes)

(* Of the unread bytes the newest KBD_BUF are in the ring, each at its       *)
(* place: an overrun costs the older ones and nothing else.                  *)
HoldsNewest ==
    \A i \in 1 .. Len(unread) :
        i > Len(unread) - KBD_BUF => kbd_buf[place(i)] = unread[i]

(* The inductive invariant.  The main program reads only what is there.      *)
RingInv ==
    /\ RingTypeOK
    /\ kbd_buf_wr_ptr = (kbd_buf_rd_ptr + Len(unread)) % KBD_BUF
    /\ kbd_buf_cnt = Len(unread) % 256
    /\ HoldsNewest
    /\ pc = "read" => unread # <<>>

-----------------------------------------------------------------------------
(* Arithmetic of a ring of n slots.                                          *)
LEMMA DivMod ==
    ASSUME NEW n \in Nat \ {0}, NEW a \in Nat
    PROVE  a = n * (a \div n) + (a % n) /\ (a \div n) \in Nat /\ a % n \in 0 .. n - 1
  OBVIOUS

(* The remainder is the only one.                                            *)
LEMMA SameRemainder ==
    ASSUME NEW n \in Nat \ {0}, NEW p \in Int, NEW q \in Int,
           NEW r \in 0 .. n - 1, NEW s \in 0 .. n - 1, n * p + r = n * q + s
    PROVE  r = s /\ p = q
<1>1. n * (p - q) = s - r
  OBVIOUS
<1>2. CASE p - q >= 1
  <2>1. n * (p - q) >= n
    BY <1>2
  <2> QED
    BY <1>1, <2>1
<1>3. CASE p - q <= -1
  <2>1. n * (q - p) >= n
    BY <1>3
  <2>2. n * (q - p) = r - s
    BY <1>1
  <2> QED
    BY <2>1, <2>2
<1>4. CASE p = q
  BY <1>4
<1> QED
  BY <1>2, <1>3, <1>4

(* It does not matter when the pointer wraps.                                *)
LEMMA ModSum ==
    ASSUME NEW n \in Nat \ {0}, NEW a \in Nat, NEW b \in Nat
    PROVE  ((a % n) + b) % n = (a + b) % n
<1> DEFINE p == a \div n
           c == (a % n) + b
           q == c \div n
           u == (a + b) \div n
<1>1. a = n * p + (a % n) /\ p \in Nat /\ a % n \in 0 .. n - 1
  BY DivMod
<1>2. c \in Nat /\ a + b \in Nat
  BY <1>1
<1>3. c = n * q + (c % n) /\ q \in Nat /\ c % n \in 0 .. n - 1
  BY <1>2, DivMod
<1>4. a + b = n * u + ((a + b) % n) /\ u \in Nat /\ (a + b) % n \in 0 .. n - 1
  BY <1>2, DivMod
<1>5. n * (p + q) = n * p + n * q
  BY <1>1, <1>3
<1>6. n * (p + q) + (c % n) = n * u + ((a + b) % n)
  <2> HIDE DEF p, q, u
  <2>1. c = (a % n) + b
    OBVIOUS
  <2> HIDE DEF c
  <2> QED
    BY <1>1, <1>3, <1>4, <1>5, <2>1
<1>7. p + q \in Int /\ u \in Int
  BY <1>1, <1>3, <1>4
<1>8. c % n \in 0 .. n - 1 /\ (a + b) % n \in 0 .. n - 1
  BY <1>3, <1>4
<1> HIDE DEF p, q, u, c
<1>9. c % n = (a + b) % n
  BY <1>6, <1>7, <1>8, SameRemainder
<1> QED
  BY <1>9 DEF c

(* Numbers less than n apart have different slots.                           *)
LEMMA ModDiffers ==
    ASSUME NEW n \in Nat \ {0}, NEW a \in Nat, NEW b \in Nat, a < b, b < a + n
    PROVE  a % n # b % n
<1> SUFFICES ASSUME a % n = b % n PROVE FALSE
  OBVIOUS
<1> DEFINE p == a \div n
           q == b \div n
<1>1. a = n * p + (a % n) /\ p \in Nat /\ a % n \in 0 .. n - 1
  BY DivMod
<1>2. b = n * q + (b % n) /\ q \in Nat /\ b % n \in 0 .. n - 1
  BY DivMod
<1> HIDE DEF p, q
<1>3. p # q
  <2>1. p = q => a = b
    BY <1>1, <1>2
  <2> QED
    BY <2>1
<1>4. n * (q - p) = b - a /\ q - p \in Int
  BY <1>1, <1>2
<1>5. n * (q - p) + 0 = n * 0 + (b - a) /\ b - a \in 0 .. n - 1
  BY <1>4
<1>6. q - p = 0
  BY <1>4, <1>5, SameRemainder
<1> QED
  BY <1>1, <1>2, <1>3, <1>6

-----------------------------------------------------------------------------
LEMMA InitRing == Init => RingInv
<1> SUFFICES ASSUME Init PROVE RingInv
  OBVIOUS
<1>1. /\ kbd_buf = [i \in 0 .. KBD_BUF - 1 |-> 0]
      /\ kbd_buf_rd_ptr = 0 /\ kbd_buf_wr_ptr = 0 /\ kbd_buf_cnt = 0
      /\ unread = <<>> /\ pc # "read"
  BY DEF Init
<1>n. KBD_BUF \in Nat \ {0}
  BY SnakeAssumption
<1>2. 0 % KBD_BUF = 0
  <2>1. /\ 0 = KBD_BUF * (0 \div KBD_BUF) + (0 % KBD_BUF)
        /\ (0 \div KBD_BUF) \in Nat /\ 0 % KBD_BUF \in 0 .. KBD_BUF - 1
    BY DivMod, <1>n
  <2>2. KBD_BUF * (0 \div KBD_BUF) + (0 % KBD_BUF) = KBD_BUF * 0 + 0
    BY <1>n, <2>1
  <2>3. 0 \in 0 .. KBD_BUF - 1
    BY <1>n
  <2> QED
    BY <1>n, <2>1, <2>2, <2>3, SameRemainder
<1>3. RingTypeOK
  BY <1>1, <1>n DEF RingTypeOK, Slots, Bytes
<1>4. kbd_buf_wr_ptr = (kbd_buf_rd_ptr + Len(unread)) % KBD_BUF
  BY <1>1, <1>2
<1>5. HoldsNewest /\ kbd_buf_cnt = Len(unread) % 256
  BY <1>1 DEF HoldsNewest
<1> QED
  BY <1>1, <1>3, <1>4, <1>5 DEF RingInv

(* A byte arrives: it takes the place of the oldest when there is no room.   *)
LEMMA RingInt9 == ASSUME RingInv, Int9 PROVE RingInv'
<1>1. PICK b \in Bytes :
         /\ kbd_isr(b)
         /\ unread' = Append(unread, b)
         /\ pc' = Woken
         /\ kbd_buf_rd_ptr' = kbd_buf_rd_ptr
  BY DEF Int9, Bytes
<1>t. RingTypeOK
  BY DEF RingInv
<1>n. KBD_BUF \in Nat \ {0}
  BY SnakeAssumption
<1> DEFINE w == kbd_buf_rd_ptr + Len(unread)
<1>2. w \in Nat /\ Len(unread) \in Nat /\ kbd_buf_rd_ptr \in Nat
  BY <1>t, <1>n DEF Slots, RingTypeOK
<1>3. kbd_buf_wr_ptr = w % KBD_BUF /\ kbd_buf_wr_ptr \in Slots
  <2>1. kbd_buf_wr_ptr = w % KBD_BUF
    BY DEF RingInv
  <2> QED
    BY <2>1, <1>2, <1>n, DivMod DEF Slots
<1>4. RingTypeOK'
  BY <1>1, <1>3, <1>t DEF kbd_isr, RingTypeOK
<1>5. Len(unread') = Len(unread) + 1
  BY <1>1, <1>t DEF RingTypeOK
<1>6. kbd_buf_wr_ptr' = (kbd_buf_rd_ptr' + Len(unread')) % KBD_BUF
  <2>1. ((w % KBD_BUF) + 1) % KBD_BUF = (w + 1) % KBD_BUF
    BY <1>2, <1>n, ModSum
  <2>2. w + 1 = kbd_buf_rd_ptr' + Len(unread')
    BY <1>1, <1>2, <1>5
  <2>3. kbd_buf_wr_ptr' = ((w % KBD_BUF) + 1) % KBD_BUF
    BY <1>1, <1>3 DEF kbd_isr
  <2> QED
    BY <2>1, <2>2, <2>3
<1>7. kbd_buf_cnt' = Len(unread') % 256
  <2>1. kbd_buf_cnt = Len(unread) % 256
    BY DEF RingInv
  <2> QED
    BY <1>1, <1>2, <1>5, <2>1 DEF kbd_isr
<1>8. HoldsNewest'
  <2> SUFFICES ASSUME NEW i \in 1 .. Len(unread'), i > Len(unread') - KBD_BUF
               PROVE  kbd_buf'[(kbd_buf_rd_ptr + i - 1) % KBD_BUF] = unread'[i]
    BY <1>1 DEF HoldsNewest, place
  <2> DEFINE a == kbd_buf_rd_ptr + i - 1
  <2>0. i \in Nat \ {0} /\ i <= Len(unread) + 1 /\ i > Len(unread) + 1 - KBD_BUF
    BY <1>2, <1>5, <1>n
  <2>1. a \in Nat /\ a % KBD_BUF \in Slots
    <3>1. a \in Nat
      BY <1>2, <2>0
    <3> HIDE DEF a
    <3> QED
      BY <3>1, <1>n, DivMod DEF Slots
  <2>2. kbd_buf' = [kbd_buf EXCEPT ![kbd_buf_wr_ptr] = b]
    BY <1>1 DEF kbd_isr
  <2>3. CASE i = Len(unread) + 1
    <3>1. a % KBD_BUF = kbd_buf_wr_ptr
      BY <1>2, <1>3, <2>3
    <3>2. unread'[i] = b
      BY <1>1, <1>t, <2>3 DEF RingTypeOK
    <3> QED
      BY <1>3, <1>t, <2>2, <3>1, <3>2 DEF RingTypeOK
  <2>4. CASE i # Len(unread) + 1
    <3>1. i \in 1 .. Len(unread) /\ i > Len(unread) - KBD_BUF
      BY <1>2, <1>n, <2>0, <2>4
    <3>2. unread'[i] = unread[i]
      BY <1>1, <1>t, <3>1 DEF RingTypeOK
    <3>3. a < w /\ w < a + KBD_BUF
      BY <1>2, <1>n, <2>0, <2>4
    <3>4. a % KBD_BUF # w % KBD_BUF
      <4> HIDE DEF a, w
      <4> QED
        BY <1>2, <1>n, <2>1, <3>3, ModDiffers
    <3>5. kbd_buf[a % KBD_BUF] = unread[i]
      BY <3>1 DEF RingInv, HoldsNewest, place
    <3> QED
      BY <1>3, <1>t, <2>1, <2>2, <3>2, <3>4, <3>5 DEF RingTypeOK
  <2> QED
    BY <2>3, <2>4
<1>9. pc' = "read" => unread' # <<>>
  BY <1>1, <1>2, <1>5
<1> QED
  BY <1>4, <1>6, <1>7, <1>8, <1>9 DEF RingInv

(* The oldest byte is read, or what has overwritten it.                      *)
LEMMA RingRead == ASSUME RingInv, Read PROVE RingInv'
<1> USE SnakeAssumption DEF RingInv, RingTypeOK
<1>1. /\ unread # <<>> /\ unread' = Tail(unread)
      /\ kbd_buf' = kbd_buf /\ kbd_buf_wr_ptr' = kbd_buf_wr_ptr
      /\ kbd_buf_cnt' = (kbd_buf_cnt - 1) % 256
      /\ kbd_buf_rd_ptr' = (kbd_buf_rd_ptr + 1) % KBD_BUF
      /\ pc' = "poll"
  BY DEF Read, kbd_read_char
<1>2. /\ Len(unread) \in Nat \ {0} /\ Len(unread') = Len(unread) - 1
      /\ \A i \in 1 .. Len(unread) - 1 : unread'[i] = unread[i + 1]
  BY <1>1
<1>3. kbd_buf_rd_ptr \in Nat
  BY DEF Slots
<1>4. RingTypeOK'
  <2>1. kbd_buf_rd_ptr + 1 \in Nat
    BY <1>3
  <2>2. kbd_buf_rd_ptr' \in Slots
    BY <1>1, <2>1, DivMod DEF Slots
  <2>3. unread' \in Seq(Bytes)
    BY <1>1
  <2> QED
    BY <1>1, <2>2, <2>3
<1>5. \A m \in Nat : (kbd_buf_rd_ptr' + m) % KBD_BUF = (kbd_buf_rd_ptr + m + 1) % KBD_BUF
  <2> TAKE m \in Nat
  <2>1. kbd_buf_rd_ptr + 1 \in Nat /\ kbd_buf_rd_ptr + 1 + m = kbd_buf_rd_ptr + m + 1
    BY <1>3
  <2>2. (((kbd_buf_rd_ptr + 1) % KBD_BUF) + m) % KBD_BUF = (kbd_buf_rd_ptr + 1 + m) % KBD_BUF
    BY <2>1, ModSum
  <2> QED
    BY <1>1, <2>1, <2>2
<1>6. kbd_buf_wr_ptr' = (kbd_buf_rd_ptr' + Len(unread')) % KBD_BUF
  <2>1. (kbd_buf_rd_ptr' + Len(unread')) % KBD_BUF = (kbd_buf_rd_ptr + (Len(unread) - 1) + 1) % KBD_BUF
    BY <1>2, <1>5
  <2>2. kbd_buf_rd_ptr + (Len(unread) - 1) + 1 = kbd_buf_rd_ptr + Len(unread)
    BY <1>2, <1>3
  <2> QED
    BY <1>1, <2>1, <2>2
<1>7. kbd_buf_cnt' = Len(unread') % 256
  BY <1>1, <1>2
<1>8. HoldsNewest'
  <2> SUFFICES ASSUME NEW i \in 1 .. Len(unread'), i > Len(unread') - KBD_BUF
               PROVE  kbd_buf[(kbd_buf_rd_ptr' + i - 1) % KBD_BUF] = unread'[i]
    BY <1>1 DEF HoldsNewest, place
  <2>1. i + 1 \in 1 .. Len(unread) /\ i + 1 > Len(unread) - KBD_BUF
    BY <1>2
  <2>2. kbd_buf[(kbd_buf_rd_ptr + (i + 1) - 1) % KBD_BUF] = unread[i + 1]
    BY <2>1 DEF HoldsNewest, place
  <2>3. (kbd_buf_rd_ptr' + (i - 1)) % KBD_BUF = (kbd_buf_rd_ptr + (i - 1) + 1) % KBD_BUF
    BY <1>2, <1>5
  <2>4. /\ kbd_buf_rd_ptr' + (i - 1) = kbd_buf_rd_ptr' + i - 1
        /\ kbd_buf_rd_ptr + (i - 1) + 1 = kbd_buf_rd_ptr + (i + 1) - 1
    BY <1>2, <1>3, <1>4 DEF Slots
  <2> QED
    BY <1>2, <2>2, <2>3, <2>4
<1> QED
  BY <1>1, <1>4, <1>6, <1>7, <1>8

(* The rest of the program leaves the ring alone, and polls it before it     *)
(* reads.                                                                    *)
LEMMA RingRest ==
    ASSUME RingInv, Poll \/ Halt \/ Play \/ Round \/ NewGame \/ Int8 \/ UNCHANGED vars
    PROVE  RingInv'
<1>1. UNCHANGED kbd
  BY DEF Poll, Halt, Play, Obey, Round, NewGame, Int8, vars
<1>2. pc' = "read" => (pc = "read" \/ kbd_buf_cnt # 0)
  BY DEF Poll, Halt, Play, Round, NewGame, Int8, Woken, kbd_has_data, vars
<1>3. kbd_buf_cnt # 0 => unread # <<>>
  BY DEF RingInv, RingTypeOK
<1> QED
  BY <1>1, <1>2, <1>3 DEF RingInv, RingTypeOK, HoldsNewest, place, kbd

LEMMA RingStep == RingInv /\ [Next]_vars => RingInv'
  BY RingInt9, RingRead, RingRest DEF Next, Main

LEMMA RingKeepsOrder == RingInv => KeysInOrder
<1>1. KBD_BUF \in Nat \ {0}
  BY SnakeAssumption
<1> QED
  BY <1>1 DEF RingInv, RingTypeOK, HoldsNewest, place, KeysInOrder

(* The invariant the two theorems below follow from.                         *)
THEOREM RingSafe == Spec => []RingInv
  BY InitRing, RingStep, PTL DEF Spec

(* The game reads the bytes of the keyboard in their order, for every size   *)
(* of the ring, every keyboard and any number of keys.                       *)
(* (kbd_isr, kbd_read_char, kbd_has_data)                                    *)
THEOREM KeysSafe == Spec => []KeysInOrder
  BY RingSafe, RingKeepsOrder, PTL

(* However far the keyboard runs ahead of the game, the ring never loses     *)
(* one of the newest bytes, nor shows it out of its place: nothing looks for *)
(* room, and what it costs are the oldest.  (kbd_isr)                        *)
THEOREM OverrunCostsTheOldest == Spec => []HoldsNewest
<1>1. RingInv => HoldsNewest
  BY DEF RingInv
<1> QED
  BY <1>1, RingSafe, PTL

-----------------------------------------------------------------------------
(***************************************************************************)
(* The board, for every size of it, any food and any keys.                 *)
(***************************************************************************)
Part == [x : Int, y : Int, last : BOOLEAN]

\* q lies one step from p in direction d.
Toward(p, q, d) ==
  /\ q.x = p.x + (IF d = "RIGHT" THEN 1 ELSE IF d = "LEFT" THEN -1 ELSE 0)
  /\ q.y = p.y + (IF d = "DOWN" THEN 1 ELSE IF d = "UP" THEN -1 ELSE 0)
Near(p, q) == (p.x = q.x /\ p.y - q.y \in {1, -1}) \/ (p.y = q.y /\ p.x - q.x \in {1, -1})
Apart(p, q) == p.x # q.x \/ p.y # q.y
Inside(p) == 0 < p.x /\ p.x < XMax /\ 1 < p.y /\ p.y < YMax
OnBoard(p) == 0 <= p.x /\ p.x <= XMax /\ 1 <= p.y /\ p.y <= YMax

\* The parts of a snake that has eaten n times.
Snakelike(b, n) ==
  /\ b \in Seq(Part) /\ n \in Nat /\ Len(b) = 5 + n
  /\ \A i \in 1 .. Len(b) : b[i].last <=> i = Len(b)
  /\ \A i \in 2 .. Len(b) : Near(b[i], b[i - 1])

\* Behind the head no part is on a wall or on another part.
TailClear(b) ==
  /\ OnBoard(b[1])
  /\ \A i \in 2 .. Len(b) : Inside(b[i])
  /\ \A i, j \in 2 .. Len(b) : i # j => Apart(b[i], b[j])
HeadClear(b) == Inside(b[1]) /\ \A i \in 2 .. Len(b) : Apart(b[i], b[1])

\* What the screen shows of a snake and of the food.
Shows(scr, b, food) ==
  \A s \in Squares :
    /\ scr[s] = "*" <=> s \in Body(b)
    /\ scr[s] = "o" => s \in food
    /\ s \in Wall => scr[s] # " "

(* The inductive invariant of the board.  The head looks where it went last, *)
(* unless the snake is new or the game paused.                               *)
BoardInv ==
  /\ cmd \in Directions \cup {"PAUSE"}
  /\ pc \in {"poll", "read", "play", "halt", "wait", "start"}
  /\ pc # "start" => snake_body # <<>>
  /\ snake_body # <<>> =>
       /\ Snakelike(snake_body, eaten) /\ TailClear(snake_body)
       /\ pc \in {"poll", "read", "play", "halt"} => HeadClear(snake_body)
       /\ Shows(screen, snake_body, fruits)
       /\ snake_body # snake_body_init /\ cmd # "PAUSE" => Toward(snake_body[2], snake_body[1], cmd)

-----------------------------------------------------------------------------
LEMMA BoardSize ==
  /\ XMax \in Nat /\ YMax \in Nat /\ StartX \in Nat /\ StartY \in Nat
  /\ StartX + 2 < XMax /\ StartY + 2 < YMax /\ StartX > 0 /\ StartY > 1
  BY SnakeAssumption

LEMMA SquareFacts ==
    ASSUME NEW p \in Part
    PROVE  /\ OnBoard(p) <=> Square(p) \in Squares
           /\ Inside(p) => OnBoard(p) /\ Square(p) \notin Wall
           /\ OnBoard(p) /\ Square(p) \notin Wall => Inside(p)
           /\ \A q \in Part : Apart(p, q) <=> Square(p) # Square(q)
<1>1. p.x \in Int /\ p.y \in Int
  BY DEF Part
<1>2. OnBoard(p) <=> Square(p) \in Squares
  BY <1>1, BoardSize DEF OnBoard, Square, Squares
<1>3. Square(p) \in Wall <=> OnBoard(p) /\ (p.x \in {0, XMax} \/ p.y \in {1, YMax})
  BY <1>2 DEF Wall, Square
<1>4. Inside(p) => OnBoard(p) /\ Square(p) \notin Wall
  BY <1>1, <1>3, BoardSize DEF Inside, OnBoard
<1>5. OnBoard(p) /\ Square(p) \notin Wall => Inside(p)
  BY <1>1, <1>3, BoardSize DEF Inside, OnBoard
<1>6. \A q \in Part : Apart(p, q) <=> Square(p) # Square(q)
  BY DEF Apart, Square
<1> QED
  BY <1>2, <1>4, <1>5, <1>6

LEMMA StepFacts ==
    ASSUME NEW p \in Part, NEW d \in Directions
    PROVE  /\ Step(p, d) \in Part /\ Step(p, d).last = p.last
           /\ Toward(p, Step(p, d), d)
  BY DEF Step, Part, Toward, Directions

(* As many squares as parts, when no two lie on one.                         *)
LEMMA BodySize ==
    ASSUME NEW b \in Seq(Part),
           \A i, j \in 1 .. Len(b) : i # j => Apart(b[i], b[j])
    PROVE  Cardinality(Body(b)) = Len(b)
<1> DEFINE n == Len(b)
           f == [i \in 1 .. n |-> Square(b[i])]
<1>1. DOMAIN b = 1 .. n /\ n \in Nat
  OBVIOUS
<1>2. \A i, j \in 1 .. n : i # j => f[i] # f[j]
  <2> SUFFICES ASSUME NEW i \in 1 .. n, NEW j \in 1 .. n, i # j PROVE Square(b[i]) # Square(b[j])
    OBVIOUS
  <2>1. b[i] \in Part /\ b[j] \in Part
    OBVIOUS
  <2> QED
    BY <2>1, SquareFacts
<1>3. Body(b) = {f[i] : i \in 1 .. n}
  BY <1>1 DEF Body
<1> HIDE DEF n
<1>4. f \in [1 .. n -> Body(b)]
  BY <1>3
<1>5. f \in Bijection(1 .. n, Body(b))
  BY <1>2, <1>3, <1>4 DEF Bijection, Injection, IsInjective, Surjection
<1>6. ExistsBijection(1 .. n, Body(b))
  BY <1>5 DEF ExistsBijection
<1> QED
  BY <1>1, <1>6, FS_CountingElements DEF n

-----------------------------------------------------------------------------
(* A move: every part but the head comes to where the one before it was.     *)
Follows(b, m, d) ==
  /\ \A i \in 2 .. Len(m) : m[i].x = b[i - 1].x /\ m[i].y = b[i - 1].y
  /\ Toward(b[1], m[1], d)

LEMMA MovedFacts ==
    ASSUME NEW b, NEW n, Snakelike(b, n), NEW eats \in BOOLEAN, NEW d \in Directions,
           NEW g, g = IF eats THEN Grown(b) ELSE b,
           NEW m, m = [Shifted(g, Len(b)) EXCEPT ![1] = Step(@, d)]
    PROVE  Snakelike(m, IF eats THEN n + 1 ELSE n) /\ Follows(b, m, d)
<1> DEFINE l == Len(b)
           k == IF eats THEN l + 1 ELSE l
           s == Shifted(g, l)
<1>1. b \in Seq(Part) /\ n \in Nat /\ l = 5 + n /\ l \in Nat /\ \A i \in 1 .. l : b[i] \in Part
  BY DEF Snakelike
<1>2. \A i \in 1 .. l : b[i].last <=> i = l
  BY DEF Snakelike
<1>3. /\ g \in Seq(Part) /\ Len(g) = k
      /\ \A i \in 1 .. l : g[i].x = b[i].x /\ g[i].y = b[i].y
      /\ eats => g[l + 1].x = b[l].x /\ g[l + 1].y = b[l].y
      /\ \A i \in 1 .. k : g[i].last <=> i = k
  <2>1. CASE ~eats
    BY <1>1, <1>2, <2>1
  <2>2. CASE eats
    <3> DEFINE c == [b EXCEPT ![l].last = FALSE]
    <3>1. c \in Seq(Part) /\ Len(c) = l /\ \A i \in 1 .. l : c[i] = IF i = l THEN [b[l] EXCEPT !.last = FALSE] ELSE b[i]
      <4>0. l \in 1 .. l
        <5> HIDE DEF l
        <5> QED
          BY <1>1
      <4>1. l \in 1 .. l /\ [b[l] EXCEPT !.last = FALSE] \in Part
        <5>1. \A p \in Part : [p EXCEPT !.last = FALSE] \in Part
          BY DEF Part
        <5> QED
          BY <1>1, <4>0, <5>1
      <4>2. c = [b EXCEPT ![l] = [b[l] EXCEPT !.last = FALSE]]
        OBVIOUS
      <4> QED
        BY <1>1, <4>1, <4>2
    <3>2. g = Append(c, b[l])
      BY <1>1, <2>2 DEF Grown, Last
    <3> HIDE DEF c
    <3>3. b[l] \in Part
      BY <1>1
    <3>4. g \in Seq(Part) /\ Len(g) = l + 1 /\ g[l + 1] = b[l] /\ \A i \in 1 .. l : g[i] = c[i]
      BY <1>1, <3>1, <3>2, <3>3
    <3> HIDE DEF l
    <3>5. \A i \in 1 .. l : g[i].x = b[i].x /\ g[i].y = b[i].y /\ ~g[i].last
      <4> SUFFICES ASSUME NEW i \in 1 .. l PROVE g[i].x = b[i].x /\ g[i].y = b[i].y /\ ~g[i].last
        OBVIOUS
      <4>1. CASE i = l
        <5>1. g[i] = [b[l] EXCEPT !.last = FALSE] /\ b[l] \in Part
          BY <3>1, <3>3, <3>4, <4>1
        <5> QED
          BY <4>1, <5>1 DEF Part
      <4>2. CASE i # l
        BY <1>2, <3>1, <3>4, <4>2
      <4> QED
        BY <4>1, <4>2
    <3>6. \A i \in 1 .. l + 1 : g[i].last <=> i = l + 1
      <4>1. l \in 1 .. l
        BY <1>1
      <4>2. g[l + 1].last
        BY <1>2, <3>4, <4>1
      <4> QED
        BY <1>1, <3>5, <4>2
    <3> QED
      BY <2>2, <3>4, <3>5, <3>6
  <2> QED
    BY <2>1, <2>2
<1> HIDE DEF l
<1>4. DOMAIN g = 1 .. k /\ k \in Nat /\ k >= l /\ k <= l + 1 /\ l >= 5 /\ (~eats => k = l)
      /\ k = 5 + (IF eats THEN n + 1 ELSE n)
  BY <1>1, <1>3
<1> HIDE DEF k
<1>5. \A i \in 1 .. k : g[i] \in Part
  BY <1>3, <1>4
<1>6. /\ s = [i \in 1 .. k |-> IF i \in 2 .. l THEN [g[i - 1] EXCEPT !.last = g[i].last] ELSE g[i]]
  BY <1>4 DEF Shifted
<1> HIDE DEF s
<1>7. \A i \in 1 .. k : s[i] \in Part /\ (s[i].last <=> i = k)
  <2> SUFFICES ASSUME NEW i \in 1 .. k PROVE s[i] \in Part /\ (s[i].last <=> i = k)
    OBVIOUS
  <2>1. CASE i \in 2 .. l
    <3>1. i - 1 \in 1 .. k /\ s[i] = [g[i - 1] EXCEPT !.last = g[i].last]
      BY <1>1, <1>4, <1>6, <2>1
    <3>2. g[i - 1] \in Part /\ g[i] \in Part
      BY <1>5, <3>1
    <3> QED
      BY <1>3, <3>1, <3>2 DEF Part
  <2>2. CASE i \notin 2 .. l
    BY <1>3, <1>5, <1>6, <2>2
  <2> QED
    BY <2>1, <2>2
<1>8. s[1] = g[1] /\ \A i \in 2 .. k : s[i].x = b[i - 1].x /\ s[i].y = b[i - 1].y
  <2>1. s[1] = g[1]
    BY <1>4, <1>6, <1>1
  <2>2. ASSUME NEW i \in 2 .. k, i \in 2 .. l PROVE s[i].x = b[i - 1].x /\ s[i].y = b[i - 1].y
    <3>1. i - 1 \in 1 .. k /\ i - 1 \in 1 .. l /\ i \in 1 .. k
      BY <1>1, <1>4, <2>2
    <3>2. s[i] = [g[i - 1] EXCEPT !.last = g[i].last] /\ g[i - 1] \in Part
      BY <1>5, <1>6, <2>2, <3>1
    <3> QED
      BY <1>3, <3>1, <3>2 DEF Part
  <2>3. ASSUME NEW i \in 2 .. k, i \notin 2 .. l PROVE s[i].x = b[i - 1].x /\ s[i].y = b[i - 1].y
    <3>1. i = l + 1 /\ eats /\ i - 1 = l /\ i \in 1 .. k
      BY <1>1, <1>4, <2>3
    <3>2. s[i] = g[l + 1]
      BY <1>6, <2>3, <3>1
    <3> QED
      BY <1>3, <3>1, <3>2
  <2> QED
    BY <2>1, <2>2, <2>3
<1>9. m = [s EXCEPT ![1] = Step(s[1], d)]
  BY DEF s, l
<1>10. s[1] \in Part /\ Step(s[1], d) \in Part /\ Step(s[1], d).last = s[1].last /\ Toward(s[1], Step(s[1], d), d)
  <2>1. 1 \in 1 .. k
    BY <1>1, <1>4
  <2> QED
    BY <1>7, <2>1, StepFacts
<1>11. /\ DOMAIN m = 1 .. k /\ m[1] = Step(s[1], d)
       /\ \A i \in 1 .. k : i # 1 => m[i] = s[i]
  <2>1. s = [i \in 1 .. k |-> s[i]] /\ 1 \in 1 .. k
    BY <1>1, <1>4, <1>6
  <2> QED
    BY <1>9, <2>1
<1>12. \A i \in 1 .. k : m[i] \in Part /\ (m[i].last <=> i = k)
  BY <1>7, <1>10, <1>11
<1>13. m \in Seq(Part) /\ Len(m) = k
  <2>1. m = [i \in 1 .. k |-> m[i]]
    BY <1>6, <1>9
  <2> DEFINE h == m
  <2> HIDE DEF h
  <2>2. h \in [1 .. k -> Part]
    BY <1>12, <2>1 DEF h
  <2>3. h \in Seq(Part) /\ Len(h) = k
    BY <1>4, <2>2
  <2> QED
    BY <2>3 DEF h
<1>14. \A i \in 2 .. k : i \in 1 .. k /\ m[i].x = b[i - 1].x /\ m[i].y = b[i - 1].y
  BY <1>8, <1>11
<1>15. Toward(b[1], m[1], d)
  <2>1. 1 \in 1 .. l
    BY <1>1, <1>4
  <2>2. s[1].x = b[1].x /\ s[1].y = b[1].y
    BY <1>3, <1>8, <2>1
  <2> QED
    BY <1>10, <1>11, <2>2 DEF Toward
<1>16. \A i \in 2 .. k : Near(m[i], m[i - 1])
  <2> SUFFICES ASSUME NEW i \in 2 .. k PROVE Near(m[i], m[i - 1])
    OBVIOUS
  <2>1. CASE i = 2
    <3>1. m[2].x = b[1].x /\ m[2].y = b[1].y
      BY <1>14, <2>1
    <3>2. b[1].x \in Int /\ b[1].y \in Int
      <4>1. 1 \in 1 .. l /\ b[1] \in Part
        BY <1>1, <1>4
      <4> QED
        BY <4>1 DEF Part
    <3> QED
      BY <1>15, <2>1, <3>1, <3>2 DEF Near, Toward, Directions
  <2>2. CASE i # 2
    <3>1. i - 1 \in 2 .. k /\ i - 1 \in 2 .. l /\ (i - 1) - 1 = i - 2
      BY <1>1, <1>4, <2>2
    <3>2. Near(b[i - 1], b[i - 2])
      <4>1. \A j \in 2 .. l : Near(b[j], b[j - 1])
        BY DEF Snakelike, l
      <4> QED
        BY <3>1, <4>1
    <3>3. m[i].x = b[i - 1].x /\ m[i].y = b[i - 1].y /\ m[i - 1].x = b[i - 2].x /\ m[i - 1].y = b[i - 2].y
      BY <1>14, <3>1
    <3> QED
      BY <3>2, <3>3 DEF Near
  <2> QED
    BY <2>1, <2>2
<1>17. Snakelike(m, IF eats THEN n + 1 ELSE n)
  BY <1>1, <1>4, <1>12, <1>13, <1>16 DEF Snakelike
<1>18. Follows(b, m, d)
  BY <1>13, <1>14, <1>15 DEF Follows
<1> QED
  BY <1>17, <1>18

(* A snake that is clear before a move is clear behind the head after it.    *)
LEMMA ClearStep ==
    ASSUME NEW b, NEW n, Snakelike(b, n), TailClear(b), HeadClear(b), NEW d \in Directions,
           NEW m, NEW k, Snakelike(m, k), Len(m) <= Len(b) + 1, Follows(b, m, d)
    PROVE  TailClear(m)
<1> DEFINE l == Len(b)
           h == Len(m)
<1>1. /\ b \in Seq(Part) /\ m \in Seq(Part) /\ l \in Nat /\ l >= 5 /\ h \in Nat /\ h >= 5 /\ h <= l + 1
      /\ \A i \in 1 .. l : b[i] \in Part
  BY DEF Snakelike
<1>2. \A i \in 2 .. h : m[i].x = b[i - 1].x /\ m[i].y = b[i - 1].y
  BY DEF Follows
<1>3. /\ \A i \in 1 .. l : Inside(b[i])
      /\ \A i, j \in 1 .. l : i # j => Apart(b[i], b[j])
  <2>1. /\ Inside(b[1]) /\ \A i \in 2 .. l : Inside(b[i])
        /\ \A i, j \in 2 .. l : i # j => Apart(b[i], b[j])
        /\ \A i \in 2 .. l : Apart(b[i], b[1])
    BY DEF TailClear, HeadClear
  <2> HIDE DEF l
  <2>2. \A i \in 1 .. l : i = 1 \/ i \in 2 .. l
    BY <1>1
  <2>3. \A p, q : Apart(p, q) => Apart(q, p)
    BY DEF Apart
  <2> QED
    BY <2>1, <2>2, <2>3
<1> HIDE DEF l, h
<1>4. \A i \in 2 .. h : i - 1 \in 1 .. l
  BY <1>1
<1>5. \A i \in 2 .. h : Inside(m[i])
  BY <1>2, <1>3, <1>4 DEF Inside
<1>6. \A i, j \in 2 .. h : i # j => Apart(m[i], m[j])
  <2> SUFFICES ASSUME NEW i \in 2 .. h, NEW j \in 2 .. h, i # j PROVE Apart(m[i], m[j])
    OBVIOUS
  <2>1. i - 1 # j - 1
    BY <1>1
  <2>2. Apart(b[i - 1], b[j - 1])
    BY <1>3, <1>4, <2>1
  <2> QED
    BY <1>2, <2>2 DEF Apart
<1>7. OnBoard(m[1])
  <2>1. Inside(b[1]) /\ b[1] \in Part
    BY <1>1, <1>3
  <2>2. Toward(b[1], m[1], d)
    BY DEF Follows
  <2> QED
    BY <2>1, <2>2, BoardSize DEF Toward, Inside, OnBoard, Part, Directions
<1> QED
  BY <1>5, <1>6, <1>7 DEF TailClear, h

(* The loops over the parts reach all of them.                               *)
LEMMA AllReached ==
    ASSUME NEW b, NEW n, Snakelike(b, n)
    PROVE  Reached(b) = Body(b)
<1>1. b \in Seq(Part) /\ \A i \in 1 .. Len(b) : b[i].last <=> i = Len(b)
  BY DEF Snakelike
<1>2. ASSUME NEW i \in DOMAIN b, NEW j \in 1 .. i - 1 PROVE ~b[j].last
  <2> DEFINE l == Len(b)
  <2>1. i \in 1 .. l /\ l \in Nat
    BY <1>1
  <2> HIDE DEF l
  <2>2. j \in 1 .. l /\ j # l
    BY <2>1
  <2> QED
    BY <1>1, <2>2 DEF l
<1> QED
  BY <1>2 DEF Reached, Body

\* What the screen may show before a move: stars only where the snake is.
Erasable(scr, b, food) ==
  \A s \in Squares : /\ scr[s] = "*" => s \in Body(b)
                     /\ scr[s] = "o" => s \in food
                     /\ s \in Wall => scr[s] # " "

(* What is drawn is the snake after the move; what is erased is the snake    *)
(* before it, the food under its head included.                              *)
LEMMA ScreenStep ==
    ASSUME NEW b, NEW n, Snakelike(b, n), TailClear(b), HeadClear(b),
           NEW m, NEW k, Snakelike(m, k), NEW scr, NEW food, Erasable(scr, b, food),
           NEW dish, dish = food \/ dish = food \ {Square(b[1])}
    PROVE  Shows(snake_body_draw(snake_body_clear(scr, b), m), m, dish)
<1> DEFINE c == snake_body_clear(scr, b)
           r == snake_body_draw(c, m)
<1>0. Reached(b) = Body(b) /\ Reached(m) = Body(m)
  BY AllReached
<1>1. \A s \in Squares : c[s] = (IF s \in Body(b) THEN " " ELSE scr[s])
  BY <1>0 DEF snake_body_clear, Printed
<1> HIDE DEF c
<1>2. \A s \in Squares : r[s] = (IF s \in Body(m) THEN "*" ELSE c[s])
  BY <1>0 DEF snake_body_draw, Printed
<1> HIDE DEF r
<1>3. b \in Seq(Part) /\ Len(b) \in Nat /\ Len(b) >= 5
  <2>1. b \in Seq(Part) /\ n \in Nat /\ Len(b) = 5 + n
    BY DEF Snakelike
  <2> DEFINE l == Len(b)
  <2>2. n \in Nat /\ l = 5 + n
    BY <2>1
  <2> HIDE DEF l
  <2>3. l \in Nat /\ l >= 5
    BY <2>2
  <2> QED
    BY <2>1, <2>3 DEF l
<1>4. \A s \in Body(b) : s \notin Wall
  <2> SUFFICES ASSUME NEW i \in DOMAIN b PROVE Square(b[i]) \notin Wall
    BY DEF Body
  <2> DEFINE l == Len(b)
  <2>1. l \in Nat /\ DOMAIN b = 1 .. l /\ b \in [1 .. l -> Part]
    BY <1>3
  <2>2. \A j \in 2 .. l : Inside(b[j])
    BY DEF TailClear
  <2>3. Inside(b[1])
    BY DEF HeadClear
  <2> HIDE DEF l
  <2>4. b[i] \in Part /\ (i = 1 \/ i \in 2 .. l)
    BY <2>1
  <2> QED
    BY <2>1, <2>2, <2>3, <2>4, SquareFacts
<1>5. Square(b[1]) \in Body(b)
  <2> DEFINE l == Len(b)
  <2>1. l \in Nat /\ l >= 5 /\ DOMAIN b = 1 .. l
    BY <1>3
  <2> HIDE DEF l
  <2>2. 1 \in DOMAIN b
    BY <2>1
  <2> QED
    BY <2>2 DEF Body
<1>6. ASSUME NEW s \in Squares
      PROVE  /\ r[s] = "*" <=> s \in Body(m)
             /\ r[s] = "o" => s \in dish
             /\ s \in Wall => r[s] # " "
  BY <1>1, <1>2, <1>4, <1>5 DEF Erasable
<1> QED
  BY <1>6 DEF Shows, r, c

-----------------------------------------------------------------------------
(* The snake a game starts with.                                             *)
LEMMA FreshSnake ==
    LET b == snake_body_init
    IN  /\ Snakelike(b, 0) /\ TailClear(b) /\ HeadClear(b) /\ b # <<>>
        /\ Shows(snake_body_draw(print_border, b), b, {})
<1> DEFINE b == snake_body_init
           P(x, y, l) == [x |-> StartX + x, y |-> StartY + y, last |-> l]
<1>1. b = <<P(0, 0, FALSE), P(0, 1, FALSE), P(0, 2, FALSE), P(1, 2, FALSE), P(2, 2, TRUE)>>
  BY DEF snake_body_init
<1>3. b \in Seq(Part) /\ Len(b) = 5
  <2>1. PICK p, q, r, s, t : /\ b = <<p, q, r, s, t>>
                             /\ p = P(0, 0, FALSE) /\ q = P(0, 1, FALSE) /\ r = P(0, 2, FALSE)
                             /\ s = P(1, 2, FALSE) /\ t = P(2, 2, TRUE)
    BY <1>1
  <2>2. p \in Part /\ q \in Part
    BY <2>1, BoardSize DEF Part
  <2>3. r \in Part /\ s \in Part /\ t \in Part
    BY <2>1, BoardSize DEF Part
  <2>4. <<p, q, r, s, t>> \in Seq(Part) /\ Len(<<p, q, r, s, t>>) = 5
    BY <2>2, <2>3
  <2> QED
    BY <2>1, <2>4
<1>4. /\ b[1].x = StartX     /\ b[1].y = StartY     /\ ~b[1].last
      /\ b[2].x = StartX     /\ b[2].y = StartY + 1 /\ ~b[2].last
      /\ b[3].x = StartX     /\ b[3].y = StartY + 2 /\ ~b[3].last
      /\ b[4].x = StartX + 1 /\ b[4].y = StartY + 2 /\ ~b[4].last
      /\ b[5].x = StartX + 2 /\ b[5].y = StartY + 2 /\ b[5].last
  BY <1>1, BoardSize
<1> HIDE DEF b
<1>5. /\ \A i \in 1 .. 5 : i = 1 \/ i = 2 \/ i = 3 \/ i = 4 \/ i = 5
      /\ \A i \in 2 .. 5 : i = 2 \/ i = 3 \/ i = 4 \/ i = 5
  OBVIOUS
<1>6. Snakelike(b, 0)
  <2>1. \A i \in 1 .. 5 : b[i].last <=> i = 5
    BY <1>4, <1>5
  <2>2. Near(b[2], b[1]) /\ Near(b[3], b[2]) /\ Near(b[4], b[3]) /\ Near(b[5], b[4])
    BY <1>4, BoardSize DEF Near
  <2>3. \A i \in 2 .. 5 : Near(b[i], b[i - 1])
    BY <1>5, <2>2
  <2> QED
    BY <1>3, <2>1, <2>3 DEF Snakelike
<1>7. TailClear(b)
  <2>1. OnBoard(b[1]) /\ Inside(b[2]) /\ Inside(b[3]) /\ Inside(b[4]) /\ Inside(b[5])
    BY <1>4, BoardSize DEF OnBoard, Inside
  <2>2. \A i, j \in 2 .. 5 : i # j => Apart(b[i], b[j])
    BY <1>4, <1>5, BoardSize DEF Apart
  <2> QED
    BY <1>3, <1>5, <2>1, <2>2 DEF TailClear
<1>8. HeadClear(b)
  <2>1. Inside(b[1]) /\ \A i \in 2 .. 5 : Apart(b[i], b[1])
    BY <1>4, <1>5, BoardSize DEF Inside, Apart
  <2> QED
    BY <1>3, <2>1 DEF HeadClear
<1>9. Shows(snake_body_draw(print_border, b), b, {})
  <2>1. \A s \in Squares : print_border[s] = IF s \in Wall THEN "#" ELSE " "
    BY DEF print_border, Printed
  <2>2. \A s \in Squares : snake_body_draw(print_border, b)[s] = IF s \in Body(b) THEN "*" ELSE print_border[s]
    BY <1>6, AllReached DEF snake_body_draw, Printed
  <2> QED
    BY <2>1, <2>2 DEF Shows
<1>10. b # <<>>
  BY <1>3
<1> QED
  BY <1>6, <1>7, <1>8, <1>9, <1>10 DEF b

-----------------------------------------------------------------------------
LEMMA InitBoard == Init => BoardInv
  BY DEF Init, BoardInv, Directions

(* The command that was obeyed is not the opposite of the one before it.     *)
LEMMA NotBack ==
    ASSUME cmd \in Directions, Obeyed \in Directions
    PROVE  Obeyed # Opposite[cmd]
<1>1. cmd # None /\ cmd # "PAUSE" /\ Opposite[cmd] # cmd
  BY DEF Directions, None, Opposite
<1>2. CASE new_cmd = None
  BY <1>1, <1>2 DEF Obeyed, None, Directions
<1>3. CASE new_cmd # None /\ new_cmd \in Directions /\ new_cmd = Opposite[cmd]
  BY <1>1, <1>3 DEF Obeyed, None
<1>4. CASE new_cmd # None /\ ~(new_cmd \in Directions /\ new_cmd = Opposite[cmd])
  BY <1>1, <1>4 DEF Obeyed, None
<1> QED
  BY <1>2, <1>3, <1>4

LEMMA PlayStep ==
    ASSUME BoardInv, Play
    PROVE  /\ BoardInv'
           /\ \E d \in Directions : Toward(snake_body[1], snake_body'[1], d) /\ d = Obeyed
<1> DEFINE b == snake_body
           m == snake_body'
           d == Obeyed
<1>1. /\ pc = "play" /\ pc' = "wait" /\ d \in Directions /\ cmd' = d
      /\ b # <<>> /\ Snakelike(b, eaten) /\ TailClear(b) /\ HeadClear(b) /\ Shows(screen, b, fruits)
  BY DEF Play, Obey, BoardInv
<1>2. PICK f \in make_food : Move(d, f.food, f.scr)
  BY DEF Play
<1>3. Erasable(f.scr, b, f.food)
  <2>1. CASE f.food = fruits /\ f.scr = screen
    BY <1>1, <2>1 DEF Shows, Erasable
  <2>2. ASSUME NEW q \in FoodSquares, f.food = fruits \cup {q}, f.scr = Printed(screen, {q}, "o")
        PROVE  Erasable(f.scr, b, f.food)
    <3>1. \A s \in Squares : f.scr[s] = IF s = q THEN "o" ELSE screen[s]
      BY <2>2 DEF Printed
    <3> QED
      BY <1>1, <2>2, <3>1 DEF Shows, Erasable
  <2>3. \/ f.food = fruits /\ f.scr = screen
        \/ \E q \in FoodSquares : f.food = fruits \cup {q} /\ f.scr = Printed(screen, {q}, "o")
    <3>1. CASE f = [food |-> fruits, scr |-> screen]
      BY <3>1
    <3>2. CASE f # [food |-> fruits, scr |-> screen]
      <4>1. \E q \in FoodSquares : f = [food |-> fruits \cup {q}, scr |-> Printed(screen, {q}, "o")]
        BY <3>2 DEF make_food
      <4> QED
        BY <4>1
    <3> QED
      BY <3>1, <3>2
  <2> QED
    BY <2>1, <2>2, <2>3
<1> DEFINE e == Square(b[1]) \in f.food
           g == IF e THEN Grown(b) ELSE b
<1>4. /\ m = [Shifted(g, Len(b)) EXCEPT ![1] = Step(@, d)]
      /\ screen' = snake_body_draw(snake_body_clear(f.scr, b), m)
      /\ fruits' = f.food \/ fruits' = f.food \ {Square(b[1])}
      /\ eaten' = IF e THEN eaten + 1 ELSE eaten
  BY <1>2 DEF Move
<1>5. Snakelike(m, eaten') /\ Follows(b, m, d)
  <2>1. e \in BOOLEAN
    OBVIOUS
  <2> HIDE DEF e, d, b, m
  <2>2. Snakelike(m, IF e THEN eaten + 1 ELSE eaten) /\ Follows(b, m, d)
    BY <1>1, <1>4, <2>1, MovedFacts
  <2> QED
    BY <1>4, <2>2
<1>6. Len(m) <= Len(b) + 1 /\ Len(b) >= 5 /\ Len(m) >= 5 /\ Len(m) \in Nat /\ m # <<>>
  <2>1. Len(b) = 5 + eaten /\ eaten \in Nat /\ Len(m) = 5 + eaten' /\ m \in Seq(Part)
    BY <1>1, <1>5 DEF Snakelike
  <2>2. Len(m) >= 5 /\ Len(m) \in Nat
    BY <1>4, <2>1
  <2>3. m # <<>>
    BY <2>1, <2>2
  <2> QED
    BY <1>4, <2>1, <2>2, <2>3
<1>7. TailClear(m)
  BY <1>1, <1>5, <1>6, ClearStep
<1>8. Shows(screen', m, fruits')
  BY <1>1, <1>3, <1>4, <1>5, ScreenStep
<1>9. Toward(m[2], m[1], d)
  <2>1. m[2].x = b[1].x /\ m[2].y = b[1].y /\ Toward(b[1], m[1], d)
    <3>1. 2 \in 2 .. Len(m)
      BY <1>6
    <3> QED
      BY <1>5, <3>1 DEF Follows
  <2> QED
    BY <2>1 DEF Toward
<1>10. Shows(screen, snake_body, fruits)' /\ Snakelike(snake_body, eaten)' /\ TailClear(snake_body)'
       /\ Toward(snake_body[2], snake_body[1], cmd)'
  BY <1>1, <1>5, <1>7, <1>8, <1>9
     DEF Shows, Snakelike, TailClear, Toward, Near, Inside, OnBoard, Apart, Body, Square, Squares, Wall, Part
<1>11. Toward(b[1], m[1], d)
  BY <1>5 DEF Follows
<1> QED
  BY <1>1, <1>6, <1>10, <1>11 DEF BoardInv

LEMMA NewGameStep == ASSUME NewGame PROVE BoardInv'
<1>1. /\ cmd' = "LEFT" /\ fruits' = {} /\ eaten' = 0 /\ pc' = "poll"
      /\ snake_body' = snake_body_init /\ screen' = snake_body_draw(print_border, snake_body_init)
  BY DEF NewGame, Fresh
<1>2. /\ Snakelike(snake_body', eaten') /\ TailClear(snake_body') /\ HeadClear(snake_body')
      /\ snake_body' # <<>> /\ Shows(screen', snake_body', fruits')
  BY <1>1, FreshSnake
<1>3. (snake_body # snake_body_init)' <=> snake_body' # snake_body_init
  BY DEF snake_body_init
<1>4. /\ Snakelike(snake_body, eaten)' /\ TailClear(snake_body)' /\ HeadClear(snake_body)'
      /\ Shows(screen, snake_body, fruits)'
  BY <1>2 DEF Shows, Snakelike, TailClear, HeadClear, Near, Inside, OnBoard, Apart, Body, Square, Squares, Wall, Part
<1> QED
  BY <1>1, <1>2, <1>3, <1>4 DEF BoardInv, Directions

(* The round ends the game when the head met a wall or a part.               *)
LEMMA RoundStep == ASSUME BoardInv, Round PROVE BoardInv'
<1>1. pc = "wait" /\ snake_body # <<>> /\ UNCHANGED <<cmds, game>>
      /\ pc' = IF collision_detector THEN "start" ELSE "poll"
  BY DEF Round, BoardInv
<1>2. Snakelike(snake_body, eaten) /\ TailClear(snake_body)
  BY <1>1 DEF BoardInv
<1>3. ~collision_detector => HeadClear(snake_body)
  <2> SUFFICES ASSUME ~collision_detector PROVE HeadClear(snake_body)
    OBVIOUS
  <2>1. snake_body \in Seq(Part) /\ Len(snake_body) \in Nat /\ Len(snake_body) >= 5
    BY <1>2 DEF Snakelike
  <2>2. \A i \in 1 .. Len(snake_body) : snake_body[i] \in Part
    BY <2>1
  <2>3. 1 \in 1 .. Len(snake_body) /\ \A i \in 2 .. Len(snake_body) : i \in 1 .. Len(snake_body)
    BY <2>1
  <2>4. OnBoard(snake_body[1])
    BY <1>2 DEF TailClear
  <2>5. /\ Square(snake_body[1]) \notin Wall
        /\ \A i \in 2 .. Len(snake_body) : Square(snake_body[i]) # Square(snake_body[1])
    BY DEF collision_detector
  <2> QED
    BY <2>2, <2>3, <2>4, <2>5, SquareFacts DEF HeadClear
<1>4. /\ snake_body' = snake_body /\ eaten' = eaten /\ screen' = screen /\ fruits' = fruits /\ cmd' = cmd
  BY <1>1 DEF cmds, game
<1> QED
  BY <1>1, <1>3, <1>4
     DEF BoardInv, Snakelike, TailClear, HeadClear, Shows, Near, Inside, OnBoard, Apart, Toward, Body, Square,
         Squares, Wall, Part, snake_body_init, collision_detector

(* The rest of the program leaves the board alone.                           *)
LEMMA BoardRest ==
    ASSUME BoardInv, Poll \/ Read \/ Halt \/ Int8 \/ Int9 \/ UNCHANGED vars
    PROVE  BoardInv'
<1>1. /\ UNCHANGED game
      /\ \/ pc' = pc /\ cmd' = cmd
         \/ pc \in {"poll", "read", "play", "halt"} /\ pc' \in {"poll", "read", "play", "halt"} /\ cmd' = cmd
         \/ pc \in {"poll", "read", "play", "halt"} /\ pc' \in {"poll", "read", "play", "halt"} /\ cmd' = "PAUSE"
  <2>1. CASE Poll
    BY <2>1 DEF Poll, cmds
  <2>2. CASE Read
    BY <2>2 DEF Read
  <2>3. CASE Halt
    BY <2>3 DEF Halt, Obey
  <2>4. CASE Int8 \/ Int9
    BY <2>4 DEF Int8, Int9, Woken, cmds
  <2>5. CASE UNCHANGED vars
    BY <2>5 DEF vars, cmds
  <2> QED
    BY <2>1, <2>2, <2>3, <2>4, <2>5
<1>2. snake_body' = snake_body /\ eaten' = eaten /\ screen' = screen /\ fruits' = fruits
  BY <1>1 DEF game
<1> QED
  BY <1>1, <1>2
     DEF BoardInv, Snakelike, TailClear, HeadClear, Shows, Near, Inside, OnBoard, Apart, Toward, Body, Square,
         Squares, Wall, Part, snake_body_init

LEMMA BoardStep == BoardInv /\ [Next]_vars => BoardInv'
  BY PlayStep, NewGameStep, RoundStep, BoardRest DEF Next, Main

-----------------------------------------------------------------------------
(* In every reachable state the snake is a path of squares as long as its    *)
(* meals have made it, and the screen shows it.                              *)
THEOREM BoardSafe == Spec => []BoardInv
  BY InitBoard, BoardStep, PTL DEF Spec

(* For every board, any food and any keys: the entry at snake_len - 1 is the *)
(* only last one, each part lies next to the one before it, and until the    *)
(* game is over the snake is inside the walls and crosses itself nowhere.    *)
(* (snake_check_food, snake_body_move_*, collision_detector)                 *)
THEOREM WholeSnake == Spec => []SnakeIsWhole
<1>1. BoardInv => SnakeIsWhole
  <2> SUFFICES ASSUME BoardInv, snake_body # <<>>
               PROVE  /\ \A i \in DOMAIN snake_body : snake_body[i].last <=> i = Len(snake_body)
                      /\ Len(snake_body) = 5 + eaten
                      /\ \A i \in 2 .. Len(snake_body) : Near(snake_body[i], snake_body[i - 1])
                      /\ pc \in {"poll", "read", "play", "halt"} =>
                           /\ Body(snake_body) \intersect Wall = {}
                           /\ Cardinality(Body(snake_body)) = Len(snake_body)
    BY DEF SnakeIsWhole, Near
  <2> DEFINE b == snake_body
             l == Len(b)
  <2>1. Snakelike(b, eaten) /\ TailClear(b)
    BY DEF BoardInv
  <2>2. b \in Seq(Part) /\ l \in Nat /\ DOMAIN b = 1 .. l /\ \A i \in 1 .. l : b[i] \in Part
    BY <2>1 DEF Snakelike
  <2>3. ASSUME pc \in {"poll", "read", "play", "halt"}
        PROVE  Body(b) \intersect Wall = {} /\ Cardinality(Body(b)) = l
    <3>1. /\ Inside(b[1]) /\ \A i \in 2 .. l : Inside(b[i])
          /\ \A i, j \in 2 .. l : i # j => Apart(b[i], b[j])
          /\ \A i \in 2 .. l : Apart(b[i], b[1])
      BY <2>1, <2>3 DEF BoardInv, TailClear, HeadClear
    <3> HIDE DEF l
    <3>2. \A i \in 1 .. l : i = 1 \/ i \in 2 .. l
      BY <2>2
    <3>3. \A i \in 1 .. l : Square(b[i]) \notin Wall
      BY <2>2, <3>1, <3>2, SquareFacts
    <3>4. \A i, j \in 1 .. l : i # j => Apart(b[i], b[j])
      <4>1. \A p, q : Apart(p, q) => Apart(q, p)
        BY DEF Apart
      <4> QED
        BY <3>1, <3>2, <4>1
    <3>5. Body(b) \intersect Wall = {}
      BY <2>2, <3>3 DEF Body
    <3> QED
      BY <2>2, <3>4, <3>5, BodySize DEF l
  <2> QED
    BY <2>1, <2>2, <2>3 DEF Snakelike
<1> QED
  BY <1>1, BoardSafe, PTL

(* For every board, any food and any keys: the stars on the screen are the   *)
(* snake, a fruit that shows can be eaten, and no move erases a wall.        *)
(* (snake_body_draw, snake_body_clear, make_food)                            *)
THEOREM TrueScreen == Spec => []ScreenTellsTheGame
<1>1. BoardInv => ScreenTellsTheGame
  <2> SUFFICES ASSUME BoardInv, snake_body # <<>>
               PROVE  /\ {s \in Squares : screen[s] = "*"} = Body(snake_body)
                      /\ {s \in Squares : screen[s] = "o"} \subseteq fruits
                      /\ \A s \in Wall : screen[s] # " "
    BY DEF ScreenTellsTheGame
  <2>1. Snakelike(snake_body, eaten) /\ TailClear(snake_body) /\ Shows(screen, snake_body, fruits)
    BY DEF BoardInv
  <2>2. Body(snake_body) \subseteq Squares
    <3> SUFFICES ASSUME NEW i \in DOMAIN snake_body PROVE Square(snake_body[i]) \in Squares
      BY DEF Body
    <3> DEFINE l == Len(snake_body)
    <3>1. i \in 1 .. l /\ l \in Nat /\ snake_body[i] \in Part
      BY <2>1 DEF Snakelike
    <3>2. OnBoard(snake_body[1]) /\ \A j \in 2 .. l : Inside(snake_body[j])
      BY <2>1 DEF TailClear
    <3> HIDE DEF l
    <3>3. i = 1 \/ i \in 2 .. l
      BY <3>1
    <3> QED
      BY <3>1, <3>2, <3>3, SquareFacts
  <2>3. Wall \subseteq Squares
    BY DEF Wall
  <2> QED
    BY <2>1, <2>2, <2>3 DEF Shows
<1> QED
  BY <1>1, BoardSafe, PTL

(* For every board, any food and any keys: a key does not turn the head into *)
(* the part behind it.  ("illegal combinations", main.c)                     *)
THEOREM KeepsItsWay == Spec => NeverTurnsBack
<1> DEFINE Back == snake_body' # snake_body /\ cmd # "PAUSE" /\ snake_body # snake_body_init /\ pc = "play"
                   => Square(snake_body'[1]) # Square(snake_body[2])
<1>1. BoardInv /\ [Next]_vars => [Back]_vars
  <2> SUFFICES ASSUME BoardInv, [Next]_vars, snake_body' # snake_body, cmd # "PAUSE",
                      snake_body # snake_body_init, pc = "play"
               PROVE  Square(snake_body'[1]) # Square(snake_body[2])
    OBVIOUS
  <2>1. Play
    BY DEF Next, Main, Poll, Read, Halt, Obey, Round, NewGame, Int8, Int9, game, vars
  <2>2. cmd \in Directions /\ Toward(snake_body[2], snake_body[1], cmd) /\ Snakelike(snake_body, eaten)
    BY DEF BoardInv
  <2>3. PICK d \in Directions : Toward(snake_body[1], snake_body'[1], d) /\ d = Obeyed
    BY <2>1, PlayStep
  <2>4. d # Opposite[cmd]
    BY <2>2, <2>3, NotBack
  <2>5. snake_body[2] \in Part
    <3>1. snake_body \in Seq(Part) /\ Len(snake_body) \in Nat /\ Len(snake_body) >= 2
      BY <2>2 DEF Snakelike
    <3> QED
      BY <3>1
  <2>6. snake_body[2].x \in Int /\ snake_body[2].y \in Int
    BY <2>5 DEF Part
  <2>7. snake_body'[1].x # snake_body[2].x \/ snake_body'[1].y # snake_body[2].y
    <3> DEFINE x == snake_body[2].x
               y == snake_body[2].y
    <3>1. /\ snake_body'[1].x = snake_body[1].x + (IF d = "RIGHT" THEN 1 ELSE IF d = "LEFT" THEN -1 ELSE 0)
          /\ snake_body'[1].y = snake_body[1].y + (IF d = "DOWN" THEN 1 ELSE IF d = "UP" THEN -1 ELSE 0)
          /\ snake_body[1].x = x + (IF cmd = "RIGHT" THEN 1 ELSE IF cmd = "LEFT" THEN -1 ELSE 0)
          /\ snake_body[1].y = y + (IF cmd = "DOWN" THEN 1 ELSE IF cmd = "UP" THEN -1 ELSE 0)
      BY <2>2, <2>3 DEF Toward
    <3>2. x \in Int /\ y \in Int
      BY <2>6
    <3> HIDE DEF x, y
    <3>3. snake_body'[1].x # x \/ snake_body'[1].y # y
      <4>1. CASE cmd = "UP"
        BY <2>4, <3>1, <3>2, <4>1 DEF Directions, Opposite
      <4>2. CASE cmd = "DOWN"
        BY <2>4, <3>1, <3>2, <4>2 DEF Directions, Opposite
      <4>3. CASE cmd = "LEFT"
        BY <2>4, <3>1, <3>2, <4>3 DEF Directions, Opposite
      <4>4. CASE cmd = "RIGHT"
        BY <2>4, <3>1, <3>2, <4>4 DEF Directions, Opposite
      <4> QED
        BY <2>2, <4>1, <4>2, <4>3, <4>4 DEF Directions
    <3> QED
      BY <3>3 DEF x, y
  <2> QED
    BY <2>7 DEF Square
<1> QED
  BY <1>1, BoardSafe, PTL DEF Spec, NeverTurnsBack

=============================================================================
