-------------------------------- MODULE Snake --------------------------------
(***************************************************************************)
(* The game of tbs/cpu86/snake: the main program (main.c), which reads     *)
(* commands, moves the snake and halts the processor while it is paused,   *)
(* and the interrupts (kernel.c, kbd.c), which may come between any two of *)
(* its instructions and put the bytes of the keyboard into a ring.         *)
(*                                                                         *)
(* kbd_has_data and kbd_read_char mask interrupts and are one step each.   *)
(* What lies between two of them touches nothing an interrupt touches and  *)
(* is one step too. Random numbers are any number of their range.          *)
(***************************************************************************)
EXTENDS Integers, Sequences, FiniteSets, SequencesExt

CONSTANTS
  XMax, YMax,      \* the right and the lower wall; 79 and 24
  StartX, StartY,  \* where the head starts; 40 and 10
  KBD_BUF,         \* bytes of the ring; 16
  Delay,           \* the first delay; 33144 / 2
  MealsPerLevel,   \* meals until the game speeds up, less one; 9
  Keystrokes,      \* what the keyboard sends: sequences of bytes
  MaxKeys,         \* bound: keystrokes
  MaxMeals         \* bound: food put on the board in one game

ASSUME SnakeAssumption ==
  /\ KBD_BUF \in Nat \ {0} /\ MealsPerLevel \in Nat
  /\ {XMax, YMax, StartX, StartY} \subseteq Nat
  /\ StartX + 2 < XMax /\ StartY + 2 < YMax /\ StartX > 0 /\ StartY > 1

VARIABLES
  kbd_buf, kbd_buf_wr_ptr, kbd_buf_rd_ptr, kbd_buf_cnt,    \* the ring
  line,            \* bytes of the last keystroke still to be sent
  keys,            \* keystrokes made
  unread,          \* history: the bytes received and not yet read
  pc,              \* where the main program is
  new_cmd, cmd, old_cmd, release_code,
  snake_body,      \* the parts up to snake_len
  fruits,          \* the squares whose entry is 'o'
  cnt, delay,
  screen,          \* what the terminal shows on the board and its walls
  eaten            \* history: the meals of this game

kbd  == <<kbd_buf, kbd_buf_wr_ptr, kbd_buf_rd_ptr, kbd_buf_cnt, line, keys, unread>>
cmds == <<new_cmd, cmd, old_cmd, release_code>>
game == <<snake_body, fruits, cnt, delay, screen, eaten>>
vars == <<kbd, pc, cmds, game>>

None == "NONE"
Directions == {"UP", "DOWN", "LEFT", "RIGHT"}

-----------------------------------------------------------------------------
(***************************************************************************)
(* The keyboard and its interrupt.                                         *)
(***************************************************************************)
\* An interrupt wakes the halted processor.
Woken == IF pc = "halt" THEN "poll" ELSE pc

\* The keyboard port raises one interrupt per byte.
KeyArrives(b) ==
  \/ /\ line # <<>>
     /\ b = Head(line) /\ line' = Tail(line)
     /\ UNCHANGED keys
  \/ /\ line = <<>> /\ keys < MaxKeys
     /\ \E k \in Keystrokes : b = Head(k) /\ line' = Tail(k)
     /\ keys' = keys + 1

\* mutant: the ring is one byte too long.
kbd_isr_wrapsLate(b) ==
  /\ kbd_buf' = [kbd_buf EXCEPT ![kbd_buf_wr_ptr % KBD_BUF] = b]
  /\ kbd_buf_cnt' = (kbd_buf_cnt + 1) % 256
  /\ kbd_buf_wr_ptr' = IF kbd_buf_wr_ptr = KBD_BUF THEN 0 ELSE kbd_buf_wr_ptr + 1

\* Nothing looks whether there is room.
kbd_isr(b) ==
  /\ kbd_buf' = [kbd_buf EXCEPT ![kbd_buf_wr_ptr] = b]
  /\ kbd_buf_cnt' = (kbd_buf_cnt + 1) % 256
  /\ kbd_buf_wr_ptr' = (kbd_buf_wr_ptr + 1) % KBD_BUF

\* interrupt_handler with interrupt 9.
Int9 ==
  \E b \in UNION {Range(k) : k \in Keystrokes} :
    /\ KeyArrives(b)
    /\ kbd_isr(b)
    /\ unread' = Append(unread, b)
    /\ pc' = Woken
    /\ UNCHANGED <<kbd_buf_rd_ptr, cmds, game>>

\* mutant: the tick is masked.
Int8_masked == UNCHANGED vars

\* interrupt_handler with interrupt 8: the handler is empty.
Int8 == pc' = Woken /\ UNCHANGED <<kbd, cmds, game>>

-----------------------------------------------------------------------------
(***************************************************************************)
(* decode_kbd.                                                             *)
(***************************************************************************)
Arrow(b) == CASE b = 117 -> "UP"   [] b = 114 -> "DOWN"
              [] b = 107 -> "LEFT" [] b = 116 -> "RIGHT"

\* The byte at kbd_buf_rd_ptr is taken.
kbd_read_char ==
  /\ kbd_buf_cnt' = (kbd_buf_cnt - 1) % 256
  /\ kbd_buf_rd_ptr' = (kbd_buf_rd_ptr + 1) % KBD_BUF

kbd_has_data == kbd_buf_cnt # 0

\* E0 is skipped; F0 announces that the key is released, which matters for
\* the space bar only.
decode(ch) ==
  /\ release_code' = CASE ch = 224 -> release_code [] ch = 240 -> TRUE [] OTHER -> FALSE
  /\ new_cmd' = CASE ch \in {117, 114, 107, 116} -> Arrow(ch)
                  [] ch = 41 /\ release_code     -> "PAUSE"
                  [] OTHER                       -> new_cmd

\* The condition of the loop.
Poll ==
  /\ pc = "poll"
  /\ pc' = IF kbd_has_data THEN "read" ELSE "play"
  /\ UNCHANGED <<kbd, cmds, game>>

Read ==
  /\ pc = "read"
  /\ kbd_read_char /\ decode(kbd_buf[kbd_buf_rd_ptr])
  /\ unread' = Tail(unread)
  /\ pc' = "poll"
  /\ UNCHANGED <<kbd_buf, kbd_buf_wr_ptr, line, keys, cmd, old_cmd, game>>

-----------------------------------------------------------------------------
(***************************************************************************)
(* The board.                                                              *)
(***************************************************************************)
Squares == (0 .. XMax) \X (1 .. YMax)
Wall    == {s \in Squares : s[1] \in {0, XMax} \/ s[2] \in {1, YMax}}
\* Random numbers reach the right wall, and no other.
FoodSquares == (1 .. XMax) \X (2 .. YMax - 1)

Square(p) == <<p.x, p.y>>
Body(b)   == {Square(b[i]) : i \in DOMAIN b}
\* What the loops of snake_body_draw and snake_body_clear reach.
Reached(b) == {Square(b[i]) : i \in {i \in DOMAIN b : \A j \in 1 .. i - 1 : ~b[j].last}}

Printed(scr, squares, c) == [s \in Squares |-> IF s \in squares THEN c ELSE scr[s]]
print_border == Printed([s \in Squares |-> " "], Wall, "#")

snake_body_draw(scr, b)  == Printed(scr, Reached(b), "*")

\* mutant: the last part is not erased.
snake_body_clear_keepsTail(scr, b) == Printed(scr, Reached(Front(b)), " ")

snake_body_clear(scr, b) == Printed(scr, Reached(b), " ")

snake_body_init ==
  LET Part(x, y, last) == [x |-> StartX + x, y |-> StartY + y, last |-> last]
  IN  <<Part(0, 0, FALSE), Part(0, 1, FALSE), Part(0, 2, FALSE),
        Part(1, 2, FALSE), Part(2, 2, TRUE)>>

\* mutant: the old tail stays the last part.
Grown_twoLast(b) == Append(b, Last(b))

Grown(b) == Append([b EXCEPT ![Len(b)].last = FALSE], Last(b))

\* mutant: the parts move from the head on.
Shifted_headFirst(b, n) ==
  [i \in DOMAIN b |-> IF i \in 2 .. n THEN [b[1] EXCEPT !.last = b[i].last] ELSE b[i]]

\* The parts up to n, the length before the meal, take the place of the one
\* before them.
Shifted(b, n) ==
  [i \in DOMAIN b |-> IF i \in 2 .. n THEN [b[i - 1] EXCEPT !.last = b[i].last] ELSE b[i]]

Step(p, d) == CASE d = "UP"   -> [p EXCEPT !.y = @ - 1] [] d = "DOWN"  -> [p EXCEPT !.y = @ + 1]
                [] d = "LEFT" -> [p EXCEPT !.x = @ - 1] [] d = "RIGHT" -> [p EXCEPT !.x = @ + 1]

\* make_food: one time in three there is something new to eat, perhaps on the
\* snake itself. What the board holds and shows after it.
make_food ==
  {[food |-> fruits, scr |-> screen]} \union
  {[food |-> fruits \union {s}, scr |-> Printed(screen, {s}, "o")] :
     s \in {s \in FoodSquares : Cardinality(fruits \union {s}) + eaten <= MaxMeals}}

\* snake_body_move_up, _left, _down and _right, with snake_check_food at the
\* square the head leaves.
Move(d, food, scr) ==
  LET eats  == Square(snake_body[1]) \in food
      grown == IF eats THEN Grown(snake_body) ELSE snake_body
      moved == [Shifted(grown, Len(snake_body)) EXCEPT ![1] = Step(@, d)]
  IN  /\ snake_body' = moved
      /\ screen' = snake_body_draw(snake_body_clear(scr, snake_body), moved)
      /\ IF eats
         THEN /\ fruits' = food \ {Square(snake_body[1])}
              /\ eaten' = eaten + 1
              /\ cnt'   = IF cnt = MealsPerLevel THEN 0 ELSE cnt + 1
              /\ delay' = IF cnt = MealsPerLevel THEN delay - (delay \div 25) ELSE delay
         ELSE fruits' = food /\ UNCHANGED <<eaten, cnt, delay>>

-----------------------------------------------------------------------------
(***************************************************************************)
(* do_game and cmain.                                                      *)
(***************************************************************************)
Opposite == [UP |-> "DOWN", DOWN |-> "UP", LEFT |-> "RIGHT", RIGHT |-> "LEFT"]

\* What a pause comes back to.
Remembered == IF new_cmd = "PAUSE" /\ cmd # "PAUSE" THEN cmd ELSE old_cmd

\* mutant: the opposite of the last key is refused, not that of the command.
Obeyed_lastKey ==
  CASE new_cmd = None                       -> cmd
    [] new_cmd = "PAUSE" /\ cmd = "PAUSE"   -> old_cmd
    [] new_cmd \in Directions /\ cmd \in Directions /\ new_cmd = Opposite[old_cmd] -> cmd
    [] OTHER                                -> new_cmd

\* The command the game follows after what the keyboard said. While it is
\* paused every direction is taken.
Obeyed ==
  CASE new_cmd = None                       -> cmd
    [] new_cmd = "PAUSE" /\ cmd = "PAUSE"   -> old_cmd
    [] new_cmd \in Directions /\ cmd \in Directions /\ new_cmd = Opposite[cmd] -> cmd
    [] OTHER                                -> new_cmd

Obey ==
  /\ pc = "play"
  /\ cmd' = Obeyed /\ old_cmd' = Remembered /\ new_cmd' = None
  /\ UNCHANGED <<kbd, release_code>>

\* The case KBD_PAUSE: cpu_halt, whatever has come since the ring was polled.
Halt ==
  /\ Obey /\ Obeyed = "PAUSE"
  /\ pc' = "halt"
  /\ UNCHANGED game

Play ==
  /\ Obey /\ Obeyed \in Directions
  /\ \E m \in make_food : Move(Obeyed, m.food, m.scr)
  /\ pc' = "wait"

\* mutant: the right wall is forgotten.
collision_detector_noRightWall ==
  \/ snake_body[1].x = 0 \/ snake_body[1].y \in {1, YMax}
  \/ \E i \in 2 .. Len(snake_body) : Square(snake_body[i]) = Square(snake_body[1])

collision_detector ==
  \/ Square(snake_body[1]) \in Wall
  \/ \E i \in 2 .. Len(snake_body) : Square(snake_body[i]) = Square(snake_body[1])

\* wait_time, then the end of the round.
Round ==
  /\ pc = "wait"
  /\ pc' = IF collision_detector THEN "start" ELSE "poll"
  /\ UNCHANGED <<kbd, cmds, game>>

\* do_game up to its loop.
Fresh ==
  /\ cmd' = "LEFT" /\ new_cmd' = None
  /\ fruits' = {} /\ eaten' = 0
  /\ snake_body' = snake_body_init
  /\ screen' = snake_body_draw(print_border, snake_body_init)

\* One turn of the loop of cmain; old_cmd and the ring outlive the game.
NewGame ==
  /\ pc = "start"
  /\ delay' = Delay /\ cnt' = 0
  /\ Fresh
  /\ pc' = "poll"
  /\ UNCHANGED <<kbd, old_cmd, release_code>>

Init ==
  /\ kbd_buf = [i \in 0 .. KBD_BUF - 1 |-> 0]
  /\ kbd_buf_wr_ptr = 0 /\ kbd_buf_rd_ptr = 0 /\ kbd_buf_cnt = 0
  /\ line = <<>> /\ keys = 0 /\ unread = <<>>
  /\ pc = "start"
  /\ new_cmd = None /\ cmd = "LEFT" /\ old_cmd = "UP" /\ release_code = FALSE
  /\ snake_body = <<>> /\ fruits = {} /\ cnt = 0 /\ delay = Delay /\ eaten = 0
  /\ screen = [s \in Squares |-> " "]

Main == Poll \/ Read \/ Halt \/ Play \/ Round \/ NewGame
Next == Main \/ Int8 \/ Int9

Spec == Init /\ [][Next]_vars
\* The processor runs on unless it is halted, and the timer ticks.
FairSpec == Spec /\ WF_vars(Main) /\ WF_vars(Int8)

-----------------------------------------------------------------------------
(***************************************************************************)
(* Properties.                                                             *)
(***************************************************************************)
\* The ring gives the bytes of the keyboard back in their order, whatever
\* interrupts the loop that reads them: it holds the unread ones from the read
\* pointer on, and does so again after an overrun as soon as no more bytes wait
\* than it has room for. (kbd_isr, kbd_read_char)
KeysInOrder ==
  /\ kbd_buf_wr_ptr = (kbd_buf_rd_ptr + Len(unread)) % KBD_BUF
  /\ kbd_buf_cnt = Len(unread) % 256
  /\ Len(unread) <= KBD_BUF =>
       \A i \in 1 .. Len(unread) : kbd_buf[(kbd_buf_rd_ptr + i - 1) % KBD_BUF] = unread[i]

\* The snake is whole: only the entry at snake_len - 1 is its last, so that the
\* loops over the parts end there; every part lies next to the one before; it
\* has grown by its meals; and while the game goes on it lies within the walls
\* and crosses itself nowhere. (snake_check_food, snake_body_move_*,
\* collision_detector)
SnakeIsWhole ==
  snake_body # <<>> =>
    /\ \A i \in DOMAIN snake_body : snake_body[i].last <=> i = Len(snake_body)
    /\ Len(snake_body) = 5 + eaten
    /\ \A i \in 2 .. Len(snake_body) :
         LET p == snake_body[i]
             q == snake_body[i - 1]
         IN  (p.x = q.x /\ p.y - q.y \in {1, -1}) \/ (p.y = q.y /\ p.x - q.x \in {1, -1})
    /\ pc \in {"poll", "read", "play", "halt"} =>
         /\ Body(snake_body) \intersect Wall = {}
         /\ Cardinality(Body(snake_body)) = Len(snake_body)

\* The terminal tells the truth: the stars are the snake, a fruit on the screen
\* is a fruit on the board, and the walls keep standing where neither covers
\* them. (The converse fails: food dropped under the snake stays on the board
\* and is erased from the screen with the part above it.)
ScreenTellsTheGame ==
  snake_body # <<>> =>
    /\ {s \in Squares : screen[s] = "*"} = Body(snake_body)
    /\ {s \in Squares : screen[s] = "o"} \subseteq fruits
    /\ \A s \in Wall : screen[s] # " "

\* The head never turns into the part behind it, unless the game was paused,
\* when the direction is no longer compared, or has not moved yet: the snake
\* starts heading up while the first command is LEFT. ("illegal combinations",
\* main.c; old_cmd survives from one game to the next)
NeverTurnsBack ==
  [][ snake_body' # snake_body /\ cmd # "PAUSE" /\ snake_body # snake_body_init /\ pc = "play" =>
        Square(snake_body'[1]) # Square(snake_body[2]) ]_vars

\* A byte that waits is read, even one that came after the ring was polled and
\* before the processor was halted: the next tick wakes it.
KeysAreRead == kbd_buf_cnt # 0 ~> pc = "read"
=============================================================================
