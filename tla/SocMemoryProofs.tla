-------------------------- MODULE SocMemoryProofs --------------------------
(***************************************************************************)
(* Proofs about the SDRAM controller, its arbiter and the memory mapper,    *)
(* for every set of banks, rows and columns, every depth of the queues that *)
(* covers the reads under way, and every set of requests.                   *)
(***************************************************************************)
EXTENDS SocMemory, QueueProofs

-----------------------------------------------------------------------------
(***************************************************************************)
(* The controller: its inductive invariant.                                 *)
(***************************************************************************)
(* What the chip needs and the waits of the controller give: the counts of   *)
(* sdram_ctrl.v, 2 clocks from PRE, 3 from ACT, 8 from REF and 6 from LMR;   *)
(* and a refresh counter longer than the longest way to a refresh.           *)
Times == T_RP <= 2 /\ T_RCD <= 3 /\ T_RFC <= 8 /\ T_MRD <= 6 /\ REFRESH >= 11

(* Types.                                                                    *)
Commands == {"nop", "act", "rd", "wr", "pre", "ref", "lmr"}
Limit == IF POWER_UP > REFRESH THEN POWER_UP ELSE REFRESH
CounterType == [counter : Nat, request : BOOLEAN, ack : BOOLEAN]
InitType == [state : {"count", "pre", "refresh", "wait", "mode", "ready"},
             next : {"count", "refresh", "mode", "ready"}, count : 0 .. 7, refs : Nat,
             cmd : Commands, done : BOOLEAN]
MainType == [state : {"idle", "ras", "wait", "rd", "wr", "rec", "pre", "ref", "spin"},
             next : {"idle", "ref", "rd", "wr"}, count : 0 .. 7, cmd : Commands,
             bank : Bank, addr : Row \cup Col \cup {"all"}]
ChipType == [open : [Bank -> Row \cup {"closed"}], busy : Nat]
CtrlType ==
    /\ ref \in CounterType /\ ref.counter <= Limit
    /\ i \in InitType /\ m \in MainType
    /\ entries \in Seq(Request) /\ Len(entries) <= 2
    /\ f_pop \in BOOLEAN /\ AtMostOneOf(Request, active) /\ oe \in BOOLEAN
    /\ DOMAIN rd_valid = 1 .. 4 /\ \A n \in 1 .. 4 : AtMostOneOf(Port, rd_valid[n])
    /\ chip \in ChipType
    /\ todo \in Seq(Request)

(* No row is open; the row of the active request is; a refresh is asked for  *)
(* and not acknowledged.                                                     *)
Closed == \A b \in Bank : chip.open[b] = "closed"
RowOpen == active # <<>> /\ chip.open[active[1].bank] = active[1].row
Kind == IF active[1].wr THEN "wr" ELSE "rd"
Asked == ref.request /\ ~ref.ack

(* The initialisation: i is one clock ahead of the pins.                     *)
BothNop == i.cmd = "nop" /\ m.cmd = "nop"
Initialising ==
    /\ m.state = "idle" /\ m.next = "idle" /\ active = <<>> /\ ~f_pop
    /\ ~ref.request /\ ~ref.ack /\ Closed
    /\ i.state \in {"count", "pre"} => BothNop /\ chip.busy = 0
    /\ i.state \in {"refresh", "mode"} =>
         /\ i.cmd = "nop" /\ m.cmd \in {"nop", "pre"} /\ chip.busy <= 2
         /\ m.cmd = "pre" => chip.busy = 0
    /\ i.state = "wait" /\ i.next \in {"refresh", "mode"} =>
         \/ i.cmd = "pre" /\ i.count = 1 /\ m.cmd = "nop" /\ chip.busy = 0
         \/ i.cmd = "ref" /\ i.count = 7 /\ m.cmd = "nop" /\ chip.busy <= 1
         \/ i.cmd = "nop" /\ i.count = 6 /\ m.cmd = "ref" /\ chip.busy = 0
         \/ BothNop /\ chip.busy <= i.count + 2
    /\ i.state = "wait" /\ i.next = "ready" =>
         \/ i.cmd = "lmr" /\ i.count = 4 /\ m.cmd = "nop" /\ chip.busy <= 1
         \/ i.cmd = "nop" /\ i.count = 3 /\ m.cmd = "lmr" /\ chip.busy = 0
         \/ BothNop /\ chip.busy <= i.count + 3
    /\ i.state = "wait" => i.next # "count"
    /\ i.state = "ready" => BothNop /\ chip.busy <= 3

(* The main machine: what is on the pins, how long the chip is busy, and     *)
(* which rows are open, in each of its states.                               *)
Running ==
    /\ i.state = "ready"
    /\ m.state = "idle" => m.cmd = "nop" /\ chip.busy <= 2 /\ (Closed \/ Asked)
    /\ m.state = "ras" =>
         /\ m.cmd = "nop" /\ chip.busy <= 1 /\ Closed
         /\ f_pop /\ entries # <<>> /\ active = <<Head(entries)>>
    /\ m.state = "wait" /\ m.next = "idle" =>
         \/ m.cmd = "nop" /\ chip.busy <= m.count + 1 /\ (Closed \/ Asked)
         \/ m.cmd = "pre" /\ m.count = 1 /\ chip.busy = 0
         \/ m.cmd = "ref" /\ m.count = 7 /\ chip.busy = 0 /\ Closed /\ ref.ack
         \/ m.cmd \in {"rd", "wr"} /\ m.count = 2 /\ chip.busy = 0 /\ Asked
    /\ m.state = "wait" /\ m.next = "idle" => m.count >= 1 /\ (m.count <= 2 \/ ref.ack)
    /\ m.state = "wait" /\ m.next = "ref" => m.cmd = "pre" /\ m.count = 1 /\ chip.busy = 0 /\ Asked
    /\ m.state = "wait" /\ m.next \in {"rd", "wr"} =>
         /\ active # <<>> /\ m.next = Kind
         /\ \/ /\ m.cmd = "act" /\ m.count = 2 /\ chip.busy = 0 /\ Closed
               /\ m.bank = active[1].bank /\ m.addr = active[1].row
            \/ m.cmd = "nop" /\ m.count = 1 /\ chip.busy <= 2 /\ RowOpen
    /\ m.state \in {"rd", "wr"} =>
         /\ RowOpen /\ m.state = Kind
         /\ \/ m.cmd = "nop" /\ chip.busy <= 1
            \/ m.cmd = m.state /\ chip.busy = 0
    /\ m.state = "spin" => RowOpen /\ chip.busy = 0 /\ m.cmd \in {"nop", Kind}
    /\ m.state = "rec" => m.cmd = "nop" /\ chip.busy = 0 /\ active # <<>> /\ m.count = 1 /\ m.next = "idle"
    /\ m.state = "pre" =>
         /\ m.cmd = "nop" /\ chip.busy <= 1 /\ m.count = 1
         /\ \/ m.next = "ref" /\ Asked
            \/ m.next = "idle" /\ active # <<>>
    /\ m.state = "ref" => m.cmd = "nop" /\ chip.busy <= 1 /\ Closed /\ Asked
    /\ f_pop => m.state \in {"ras", "rd", "wr"}
    /\ ref.ack =>
         \/ m.state = "idle" /\ ~ref.request /\ Closed
         \/ /\ m.state = "wait" /\ m.next = "idle" /\ m.cmd \in {"ref", "nop"} /\ Closed
            /\ ref.request => m.cmd = "ref" /\ m.count = 7

Machines == IF i.done THEN Running ELSE Initialising

(* A refresh that is asked for is acknowledged before the counter runs out:  *)
(* the most clocks each state still needs.                                   *)
Deadline ==
    CASE m.state = "idle" -> 5
      [] m.state = "pre" -> IF m.next = "ref" THEN 4 ELSE 7
      [] m.state = "ref" -> 2
      [] m.state = "spin" -> 7
      [] m.state = "ras" -> 11
      [] m.state \in {"rd", "wr", "rec"} -> 8
      [] OTHER -> IF m.next = "ref" THEN 3 ELSE IF m.next = "idle" THEN m.count + 5 ELSE m.count + 8
InTime == ref.request => IF ref.ack THEN 1 <= ref.counter ELSE Deadline <= ref.counter

(* The data pins: where the machine can be with a read on its way.           *)
Reading == m.state = "rd" \/ (m.state = "spin" /\ ~active[1].wr) \/ (m.state = "wait" /\ m.next = "idle")
DataPins ==
    /\ oe = (m.cmd = "wr")
    /\ m.cmd = "rd" => Reading
    /\ rd_valid[1] # <<>> => Reading \/ m.state \in {"rec", "idle"}
    /\ rd_valid[2] # <<>> => m.state # "wr"
    /\ rd_valid[3] # <<>> => m.cmd # "wr"

(* The requests the chip has not seen: the one the machine is about to       *)
(* issue, then those of the input FIFO.                                      *)
Armed == IF ~f_pop /\ (m.state \in {"rd", "wr"} \/ (m.state = "wait" /\ m.next \in {"rd", "wr"})) THEN active ELSE <<>>
Rest == IF column THEN Tail(todo) ELSE todo
Requests == CommandsFollowRequests /\ Rest = Cat(Armed, entries)

CtrlInv == CtrlType /\ Machines /\ InTime /\ DataPins /\ Requests

-----------------------------------------------------------------------------
(* One clock of the chip.                                                    *)
Less(n) == IF n > 0 THEN n - 1 ELSE 0
ChipMoves ==
    /\ chip' \in ChipType
    /\ m.cmd \notin {"act", "pre"} => chip'.open = chip.open
    /\ m.cmd = "act" => chip'.open[m.bank] = m.addr /\ chip'.busy <= 2
    /\ m.cmd = "pre" => Closed' /\ chip'.busy <= 1
    /\ m.cmd = "ref" => chip'.busy <= 7
    /\ m.cmd = "lmr" => chip'.busy <= 5
    /\ m.cmd \in {"nop", "rd", "wr"} => chip'.busy = Less(chip.busy)

LEMMA ChipStep ==
    ASSUME Times, CtrlType, Chip, m.cmd = "act" => m.addr \in Row
    PROVE  ChipMoves
<1> DEFINE o == chip.open
           b == chip.busy
<1>1. o \in [Bank -> Row \cup {"closed"}] /\ b \in Nat /\ m.bank \in Bank /\ m.cmd \in Commands
  BY DEF CtrlType, ChipType, MainType
<1>2. {T_RP, T_RCD, T_RFC, T_MRD} \subseteq Nat \ {0}
  BY SdramAssumption
<1>3. T_RP - 1 \in 0 .. 1 /\ T_RCD - 1 \in 0 .. 2 /\ T_RFC - 1 \in 0 .. 7 /\ T_MRD - 1 \in 0 .. 5 /\ Less(b) \in Nat
  BY <1>1, <1>2 DEF Times, Less
<1>4. /\ chip'.open = (CASE m.cmd = "act" -> [o EXCEPT ![m.bank] = m.addr]
                         [] m.cmd = "pre" -> [x \in Bank |-> "closed"]
                         [] OTHER -> o)
      /\ chip'.busy = (CASE m.cmd = "act" -> T_RCD - 1
                         [] m.cmd = "pre" -> T_RP - 1
                         [] m.cmd = "ref" -> T_RFC - 1
                         [] m.cmd = "lmr" -> T_MRD - 1
                         [] OTHER -> Less(b))
      /\ chip' = [open |-> chip'.open, busy |-> chip'.busy]
  BY DEF Chip, Less
<1> HIDE DEF o, b
<1>5. /\ chip'.open \in [Bank -> Row \cup {"closed"}]
      /\ m.cmd = "act" => chip'.open[m.bank] = m.addr
      /\ m.cmd = "pre" => \A x \in Bank : chip'.open[x] = "closed"
      /\ m.cmd \notin {"act", "pre"} => chip'.open = o
  BY <1>1, <1>4
<1>6. /\ chip'.busy \in Nat
      /\ m.cmd = "act" => chip'.busy <= 2
      /\ m.cmd = "pre" => chip'.busy <= 1
      /\ m.cmd = "ref" => chip'.busy <= 7
      /\ m.cmd = "lmr" => chip'.busy <= 5
      /\ m.cmd \in {"nop", "rd", "wr"} => chip'.busy = Less(b)
  BY <1>1, <1>3, <1>4 DEF Commands
<1> QED
  BY <1>4, <1>5, <1>6 DEF ChipMoves, ChipType, Closed, o, b

(* The input FIFO.                                                           *)
Accepted(offer) == IF za_waitrequest THEN <<>> ELSE offer
EntriesMove(offer) ==
    /\ AtMostOneOf(Request, Accepted(offer))
    /\ entries' = Cat(Popped(entries, Num(f_select)), Accepted(offer))
    /\ f_select => entries # <<>>
    /\ entries' \in Seq(Request) /\ Len(entries') <= 2
    /\ ~f_select /\ entries # <<>> => entries' # <<>> /\ Head(entries') = Head(entries)

LEMMA EntriesStep ==
    ASSUME CtrlType, NEW offer, AtMostOneOf(Request, offer), CtrlEdge(offer)
    PROVE  EntriesMove(offer)
<1> DEFINE e == entries
           a == Accepted(offer)
           k == Num(f_select)
           r == Cat(Popped(e, k), a)
<1>1. e \in Seq(Request) /\ Len(e) <= 2 /\ AtMostOneOf(Request, a) /\ (Len(e) = 2 => a = <<>>)
  BY DEF CtrlType, AtMostOneOf, Accepted, za_waitrequest
<1>2. f_select => e # <<>>
  BY DEF f_select, pending
<1>3. k \in {0, 1} /\ (k = 1 <=> f_select)
  BY DEF Num
<1>4. entries' = r
  <2>1. entries' = (IF f_select THEN Tail(entries) ELSE entries) \o Accepted(offer)
    BY DEF CtrlEdge, Accepted
  <2>2. Popped(e, k) = (IF f_select THEN Tail(entries) ELSE entries)
    BY DEF Popped, Num
  <2> QED
    BY <2>1, <2>2 DEF Cat
<1>5. MovedOn(Request, e, k, a, r)
  BY <1>1, <1>2, <1>3, Moved
<1>6. Len(a) = Num(a # <<>>) /\ Len(e) \in Nat
  BY <1>1, OneIsSeq
<1> HIDE DEF a, k, r
<1>7. /\ r \in Seq(Request) /\ Len(r) = (Len(e) - k) + Len(a)
      /\ \A x \in 1 .. Len(e) - k : r[x] = e[x + k]
  BY <1>5 DEF MovedOn
<1> DEFINE n == Len(e)
           l == Len(a)
<1>8. n \in Nat /\ n <= 2 /\ l \in 0 .. 1 /\ (n = 2 => l = 0)
  BY <1>1, <1>6 DEF Num
<1>9. Len(r) <= 2
  <2>1. Len(r) = (n - k) + l
    BY <1>7
  <2> HIDE DEF n, l
  <2> QED
    BY <1>3, <1>8, <2>1
<1>10. ASSUME ~f_select, e # <<>> PROVE r # <<>> /\ Head(r) = Head(e)
  <2>1. k = 0 /\ Len(e) >= 1
    BY <1>1, <1>3, <1>10
  <2>2. 1 \in 1 .. Len(e) - k /\ Len(r) >= 1
    BY <1>6, <1>7, <1>8, <2>1
  <2>3. r[1] = e[1]
    BY <1>6, <1>7, <2>1, <2>2
  <2> QED
    BY <1>1, <1>7, <1>10, <2>2, <2>3
<1> QED
  BY <1>1, <1>2, <1>4, <1>7, <1>9, <1>10 DEF EntriesMove, a, k, r

(* The machines' registers, field by field.                                  *)
InitIs(r, s, n, c, f, k, d) == r = [state |-> s, next |-> n, count |-> c, refs |-> f, cmd |-> k, done |-> d]
MainIs(r, s, n, c, k, b, a) == r = [state |-> s, next |-> n, count |-> c, cmd |-> k, bank |-> b, addr |-> a]

LEMMA RecordOfInit ==
    ASSUME i \in InitType
    PROVE  /\ InitIs(i, i.state, i.next, i.count, i.refs, i.cmd, i.done)
           /\ i.state \in {"count", "pre", "refresh", "wait", "mode", "ready"}
           /\ i.next \in {"count", "refresh", "mode", "ready"}
           /\ i.count \in 0 .. 7 /\ i.refs \in Nat /\ i.cmd \in Commands /\ i.done \in BOOLEAN
  BY DEF InitType, InitIs

LEMMA RecordOfMain ==
    ASSUME m \in MainType
    PROVE  /\ MainIs(m, m.state, m.next, m.count, m.cmd, m.bank, m.addr)
           /\ m.state \in {"idle", "ras", "wait", "rd", "wr", "rec", "pre", "ref", "spin"}
           /\ m.next \in {"idle", "ref", "rd", "wr"} /\ m.count \in 0 .. 7 /\ m.cmd \in Commands
           /\ m.bank \in Bank /\ m.addr \in Row \cup Col \cup {"all"}
  BY DEF MainType, MainIs

(* What one clock makes of the initialisation machine, state by state.       *)
LEMMA InitFsmMoves ==
    ASSUME i \in InitType, InitFsm
    PROVE  LET d == i.done \/ i.state = "ready"
               s == IF i.count > 1 THEN "wait" ELSE i.next
               c == IF i.count > 1 THEN i.count - 1 ELSE i.count
           IN  /\ i.state = "count" =>
                    InitIs(i', IF ref.counter = 0 THEN "pre" ELSE "count", i.next, i.count, 0, "nop", d)
               /\ i.state = "pre" => InitIs(i', "wait", "refresh", 1, i.refs, "pre", d)
               /\ i.state = "refresh" =>
                    InitIs(i', "wait", IF i.refs = 1 THEN "mode" ELSE "refresh", 7, i.refs + 1, "ref", d)
               /\ i.state = "wait" => InitIs(i', s, i.next, c, i.refs, "nop", d)
               /\ i.state = "mode" => InitIs(i', "wait", "ready", 4, i.refs, "lmr", d)
               /\ i.state = "ready" => InitIs(i', "ready", i.next, i.count, i.refs, i.cmd, TRUE)
<1>1. InitIs(i, i.state, i.next, i.count, i.refs, i.cmd, i.done)
  BY RecordOfInit
<1>2. CASE i.state = "count"
  BY <1>1, <1>2 DEF InitFsm, InitIs
<1>3. CASE i.state = "pre"
  BY <1>1, <1>3 DEF InitFsm, InitIs
<1>4. CASE i.state = "refresh"
  BY <1>1, <1>4 DEF InitFsm, InitIs
<1>5. CASE i.state = "wait"
  BY <1>1, <1>5 DEF InitFsm, InitIs
<1>6. CASE i.state = "mode"
  BY <1>1, <1>6 DEF InitFsm, InitIs
<1>7. CASE i.state = "ready"
  BY <1>1, <1>7 DEF InitFsm, InitIs
<1> QED
  BY <1>2, <1>3, <1>4, <1>5, <1>6, <1>7

LEMMA InitFsmType ==
    ASSUME i \in InitType, InitFsm
    PROVE  i' \in InitType /\ i'.done = (i.done \/ i.state = "ready")
<1> DEFINE d == i.done \/ i.state = "ready"
<1>1. /\ i.state \in {"count", "pre", "refresh", "wait", "mode", "ready"}
      /\ i.next \in {"count", "refresh", "mode", "ready"}
      /\ i.count \in 0 .. 7 /\ i.refs \in Nat /\ i.cmd \in Commands /\ d \in BOOLEAN
  BY RecordOfInit
<1>2. /\ i.state = "count" =>
           InitIs(i', IF ref.counter = 0 THEN "pre" ELSE "count", i.next, i.count, 0, "nop", d)
      /\ i.state = "pre" => InitIs(i', "wait", "refresh", 1, i.refs, "pre", d)
      /\ i.state = "refresh" =>
           InitIs(i', "wait", IF i.refs = 1 THEN "mode" ELSE "refresh", 7, i.refs + 1, "ref", d)
      /\ i.state = "wait" => InitIs(i', IF i.count > 1 THEN "wait" ELSE i.next, i.next,
                                    IF i.count > 1 THEN i.count - 1 ELSE i.count, i.refs, "nop", d)
      /\ i.state = "mode" => InitIs(i', "wait", "ready", 4, i.refs, "lmr", d)
      /\ i.state = "ready" => InitIs(i', "ready", i.next, i.count, i.refs, i.cmd, d)
  BY InitFsmMoves
<1> HIDE DEF d
<1>3. i' \in InitType /\ i'.done = d
  BY <1>1, <1>2 DEF InitIs, InitType, Commands
<1> QED
  BY <1>3 DEF d

LEMMA RefreshType ==
    ASSUME ref \in CounterType, ref.counter <= Limit, i \in InitType, NEW ack \in BOOLEAN, Refresh(ack)
    PROVE  /\ ref' \in CounterType /\ ref'.counter <= Limit /\ ref'.ack = ack
           /\ ref'.counter = (IF ref.counter = 0 THEN REFRESH ELSE ref.counter - 1)
           /\ ref'.request = ((ref.counter = 0 \/ ref.request) /\ ~ref.ack /\ i.done)
<1>1. POWER_UP \in Nat /\ REFRESH \in Nat
  BY SdramAssumption
<1> QED
  BY <1>1 DEF Refresh, CounterType, InitType, Limit

LEMMA RequestFields ==
    ASSUME NEW r \in Request
    PROVE  r.wr \in BOOLEAN /\ r.bank \in Bank /\ r.row \in Row /\ r.col \in Col /\ r.port \in Port
  BY DEF Request

(* What the pins get in a column state.                                      *)
Item == IF f_select THEN Head(entries) ELSE active[1]

(* The main machine's registers after each action.                           *)
LEMMA MainMoves ==
    ASSUME m \in MainType
    PROVE  /\ Starting => MainIs(m', "idle", "idle", m.count, i.cmd, m.bank, "all")
           /\ Idle => \/ ref.request /\ MainIs(m', "pre", "ref", 1, "nop", m.bank, m.addr)
                      \/ ~ref.request /\ entries # <<>> /\ MainIs(m', "ras", m.next, m.count, "nop", m.bank, m.addr)
                      \/ ~ref.request /\ entries = <<>> /\ MainIs(m', "idle", m.next, m.count, "nop", m.bank, m.addr)
           /\ Ras => MainIs(m', "wait", Kind, 2, "act", active[1].bank, active[1].row)
           /\ Wait => IF m.count > 1 THEN MainIs(m', "wait", m.next, m.count - 1, "nop", m.bank, m.addr)
                                     ELSE MainIs(m', m.next, m.next, m.count, "nop", m.bank, m.addr)
           /\ Column => \/ pending /\ ref.request /\ keep /\ MainIs(m', "wait", "idle", 2, m.state, Item.bank, Item.col)
                        \/ pending /\ ~ref.request /\ latch
                           /\ MainIs(m', m.state, m.next, m.count, m.state, Item.bank, Item.col)
                        \/ ~pending /\ keep
                           /\ MainIs(m', "spin", m.next, m.count, IF f_pop THEN "nop" ELSE m.state, Item.bank, Item.col)
           /\ Rec => IF m.count > 1 THEN MainIs(m', "rec", m.next, m.count - 1, "nop", m.bank, m.addr)
                                    ELSE MainIs(m', "pre", m.next, 1, "nop", m.bank, m.addr)
           /\ Pre => MainIs(m', "wait", m.next, m.count, IF ref.request \/ active # <<>> THEN "pre" ELSE "nop", m.bank, "all")
           /\ Ref => MainIs(m', "wait", "idle", 7, "ref", m.bank, m.addr)
           /\ Spin => \/ ref.request /\ keep /\ MainIs(m', "wait", "idle", 1, "nop", m.bank, m.addr)
                      \/ ~ref.request /\ pending /\ latch
                         /\ MainIs(m', IF Head(entries).wr THEN "wr" ELSE "rd", m.next, m.count, "nop", m.bank, m.addr)
                      \/ ~ref.request /\ entries # <<>> /\ ~pending /\ keep /\ MainIs(m', "rec", "idle", 1, "nop", m.bank, m.addr)
                      \/ ~ref.request /\ entries = <<>> /\ keep /\ MainIs(m', "spin", m.next, m.count, "nop", m.bank, m.addr)
<1>1. MainIs(m, m.state, m.next, m.count, m.cmd, m.bank, m.addr)
  BY RecordOfMain
<1>2. Starting => MainIs(m', "idle", "idle", m.count, i.cmd, m.bank, "all")
  BY <1>1 DEF Starting, MainIs
<1>3. ASSUME Idle
      PROVE  \/ ref.request /\ MainIs(m', "pre", "ref", 1, "nop", m.bank, m.addr)
             \/ ~ref.request /\ entries # <<>> /\ MainIs(m', "ras", m.next, m.count, "nop", m.bank, m.addr)
             \/ ~ref.request /\ entries = <<>> /\ MainIs(m', "idle", m.next, m.count, "nop", m.bank, m.addr)
  BY <1>1, <1>3 DEF Idle, MainIs
<1>4. Ras => MainIs(m', "wait", Kind, 2, "act", active[1].bank, active[1].row)
  BY <1>1 DEF Ras, MainIs, Kind
<1>5. Wait => IF m.count > 1 THEN MainIs(m', "wait", m.next, m.count - 1, "nop", m.bank, m.addr)
                             ELSE MainIs(m', m.next, m.next, m.count, "nop", m.bank, m.addr)
  BY <1>1 DEF Wait, MainIs
<1>6. ASSUME Column
      PROVE  \/ pending /\ ref.request /\ keep /\ MainIs(m', "wait", "idle", 2, m.state, Item.bank, Item.col)
             \/ pending /\ ~ref.request /\ latch /\ MainIs(m', m.state, m.next, m.count, m.state, Item.bank, Item.col)
             \/ ~pending /\ keep
                /\ MainIs(m', "spin", m.next, m.count, IF f_pop THEN "nop" ELSE m.state, Item.bank, Item.col)
  <2> DEFINE item == Item
  <2>1. item = IF f_select THEN Head(entries) ELSE active[1]
    BY DEF Item
  <2> HIDE DEF item
  <2>2. \/ /\ pending /\ ref.request /\ keep
           /\ m' = [m EXCEPT !.bank = item.bank, !.addr = item.col, !.cmd = m.state,
                            !.state = "wait", !.next = "idle", !.count = 2]
        \/ /\ pending /\ ~ref.request /\ latch
           /\ m' = [m EXCEPT !.bank = item.bank, !.addr = item.col, !.cmd = m.state]
        \/ /\ ~pending /\ keep
           /\ m' = [m EXCEPT !.bank = item.bank, !.addr = item.col, !.cmd = IF f_pop THEN "nop" ELSE m.state,
                            !.state = "spin"]
    <3>1. Item = item
      BY DEF item
    <3> QED
      BY <1>1, <1>6, <2>1 DEF Column, MainIs
  <2>3. \/ pending /\ ref.request /\ keep /\ MainIs(m', "wait", "idle", 2, m.state, item.bank, item.col)
        \/ pending /\ ~ref.request /\ latch /\ MainIs(m', m.state, m.next, m.count, m.state, item.bank, item.col)
        \/ ~pending /\ keep
           /\ MainIs(m', "spin", m.next, m.count, IF f_pop THEN "nop" ELSE m.state, item.bank, item.col)
    BY <1>1, <2>2 DEF MainIs
  <2> QED
    BY <2>3 DEF item
<1>7. Rec => IF m.count > 1 THEN MainIs(m', "rec", m.next, m.count - 1, "nop", m.bank, m.addr)
                            ELSE MainIs(m', "pre", m.next, 1, "nop", m.bank, m.addr)
  BY <1>1 DEF Rec, MainIs
<1>8. Pre => MainIs(m', "wait", m.next, m.count, IF ref.request \/ active # <<>> THEN "pre" ELSE "nop", m.bank, "all")
  BY <1>1 DEF Pre, MainIs
<1>9. Ref => MainIs(m', "wait", "idle", 7, "ref", m.bank, m.addr)
  BY <1>1 DEF Ref, MainIs
<1>10. ASSUME Spin
       PROVE  \/ ref.request /\ keep /\ MainIs(m', "wait", "idle", 1, "nop", m.bank, m.addr)
              \/ ~ref.request /\ pending /\ latch
                 /\ MainIs(m', IF Head(entries).wr THEN "wr" ELSE "rd", m.next, m.count, "nop", m.bank, m.addr)
              \/ ~ref.request /\ entries # <<>> /\ ~pending /\ keep /\ MainIs(m', "rec", "idle", 1, "nop", m.bank, m.addr)
              \/ ~ref.request /\ entries = <<>> /\ keep /\ MainIs(m', "spin", m.next, m.count, "nop", m.bank, m.addr)
  BY <1>1, <1>10 DEF Spin, MainIs
<1> QED
  BY <1>2, <1>3, <1>4, <1>5, <1>6, <1>7, <1>8, <1>9, <1>10

LEMMA ActiveType ==
    ASSUME CtrlType
    PROVE  /\ active # <<>> => /\ active = <<active[1]>> /\ active[1] \in Request
                               /\ active[1].wr \in BOOLEAN /\ active[1].bank \in Bank
                               /\ active[1].row \in Row /\ active[1].col \in Col
           /\ entries # <<>> => /\ Head(entries) \in Request
                                /\ Head(entries).wr \in BOOLEAN /\ Head(entries).bank \in Bank
                                /\ Head(entries).row \in Row /\ Head(entries).col \in Col
<1>1. AtMostOneOf(Request, active) /\ entries \in Seq(Request)
  BY DEF CtrlType
<1>2. active # <<>> => active = <<active[1]>> /\ active[1] \in Request
  BY <1>1, OneIsSeq
<1>3. entries # <<>> => Head(entries) \in Request
  BY <1>1
<1> QED
  BY <1>2, <1>3, RequestFields

LEMMA MainTypes ==
    ASSUME CtrlType, Machines, Main
    PROVE  m' \in MainType /\ AtMostOneOf(Request, active') /\ f_pop' \in BOOLEAN
<1>1. m \in MainType /\ i \in InitType /\ AtMostOneOf(Request, active)
  BY DEF CtrlType
<1>2. /\ m.state \in {"idle", "ras", "wait", "rd", "wr", "rec", "pre", "ref", "spin"}
      /\ m.next \in {"idle", "ref", "rd", "wr"} /\ m.count \in 0 .. 7 /\ m.cmd \in Commands
      /\ m.bank \in Bank /\ m.addr \in Row \cup Col \cup {"all"} /\ i.cmd \in Commands
  BY <1>1, RecordOfMain, RecordOfInit
<1>3. keep => AtMostOneOf(Request, active') /\ f_pop' \in BOOLEAN
  BY <1>1 DEF keep
<1>4. latch /\ entries # <<>> => AtMostOneOf(Request, active') /\ f_pop' \in BOOLEAN
  BY ActiveType DEF latch, AtMostOneOf
<1>5. pending => entries # <<>>
  BY DEF pending
<1>6. m.state \in {"ras", "rd", "wr"} => active # <<>>
  BY DEF Machines, Running, Initialising, RowOpen
<1>7. ASSUME Starting PROVE m' \in MainType /\ keep
  BY <1>1, <1>2, <1>7, MainMoves DEF MainIs, MainType, Starting
<1>8. ASSUME Idle PROVE m' \in MainType /\ AtMostOneOf(Request, active') /\ f_pop' \in BOOLEAN
  <2>1. m' \in MainType
    <3>1. \/ ref.request /\ MainIs(m', "pre", "ref", 1, "nop", m.bank, m.addr)
          \/ ~ref.request /\ entries # <<>> /\ MainIs(m', "ras", m.next, m.count, "nop", m.bank, m.addr)
          \/ ~ref.request /\ entries = <<>> /\ MainIs(m', "idle", m.next, m.count, "nop", m.bank, m.addr)
      BY <1>1, <1>8, MainMoves
    <3> QED
      BY <1>2, <3>1 DEF MainIs, MainType, Commands
  <2>2. AtMostOneOf(Request, active') /\ f_pop' \in BOOLEAN
    BY <1>3, <1>4, <1>8 DEF Idle, AtMostOneOf
  <2> QED
    BY <2>1, <2>2
<1>9. ASSUME Ras PROVE m' \in MainType /\ keep
  <2>1. active[1].bank \in Bank /\ active[1].row \in Row /\ Kind \in {"rd", "wr"}
    BY <1>6, <1>9, ActiveType DEF Ras, Kind
  <2>2. MainIs(m', "wait", Kind, 2, "act", active[1].bank, active[1].row)
    BY <1>1, <1>9, MainMoves
  <2> DEFINE b == active[1].bank
             a == active[1].row
  <2>3. b \in Bank /\ a \in Row /\ MainIs(m', "wait", Kind, 2, "act", b, a)
    BY <2>1, <2>2
  <2> HIDE DEF b, a
  <2>4. m' \in MainType
    BY <2>1, <2>3 DEF MainIs, MainType, Commands
  <2> QED
    BY <1>9, <2>4 DEF Ras
<1>10. ASSUME Wait PROVE m' \in MainType /\ keep
  <2>1. IF m.count > 1 THEN MainIs(m', "wait", m.next, m.count - 1, "nop", m.bank, m.addr)
                       ELSE MainIs(m', m.next, m.next, m.count, "nop", m.bank, m.addr)
    BY <1>1, <1>10, MainMoves
  <2>2. m.count > 1 => m.count - 1 \in 0 .. 7
    BY <1>2
  <2>3. m' \in MainType
    BY <1>2, <2>1, <2>2 DEF MainIs, MainType, Commands
  <2> QED
    BY <1>10, <2>3 DEF Wait
<1>11. ASSUME Column PROVE m' \in MainType /\ (keep \/ (latch /\ pending))
  <2>1. Item.bank \in Bank /\ Item.col \in Col
    <3>1. active # <<>> /\ (f_select => entries # <<>>)
      BY <1>5, <1>6, <1>11 DEF Column, f_select
    <3> QED
      BY <3>1, ActiveType DEF Item
  <2>2. \/ pending /\ ref.request /\ keep /\ MainIs(m', "wait", "idle", 2, m.state, Item.bank, Item.col)
        \/ pending /\ ~ref.request /\ latch /\ MainIs(m', m.state, m.next, m.count, m.state, Item.bank, Item.col)
        \/ ~pending /\ keep
           /\ MainIs(m', "spin", m.next, m.count, IF f_pop THEN "nop" ELSE m.state, Item.bank, Item.col)
    BY <1>1, <1>11, MainMoves
  <2>3. m.state \in {"rd", "wr"}
    BY <1>11 DEF Column
  <2> DEFINE b == Item.bank
             a == Item.col
  <2> HIDE DEF b, a
  <2>4. b \in Bank /\ a \in Col
    BY <2>1 DEF a, b
  <2>5. \/ MainIs(m', "wait", "idle", 2, m.state, b, a)
        \/ MainIs(m', m.state, m.next, m.count, m.state, b, a)
        \/ MainIs(m', "spin", m.next, m.count, IF f_pop THEN "nop" ELSE m.state, b, a)
    BY <2>2 DEF a, b
  <2>6. m' \in MainType
    BY <1>2, <2>3, <2>4, <2>5 DEF MainIs, MainType, Commands
  <2> QED
    BY <2>2, <2>6
<1>12. ASSUME Rec PROVE m' \in MainType /\ keep
  <2>1. IF m.count > 1 THEN MainIs(m', "rec", m.next, m.count - 1, "nop", m.bank, m.addr)
                       ELSE MainIs(m', "pre", m.next, 1, "nop", m.bank, m.addr)
    BY <1>1, <1>12, MainMoves
  <2>2. m.count > 1 => m.count - 1 \in 0 .. 7
    BY <1>2
  <2>3. m' \in MainType
    BY <1>2, <2>1, <2>2 DEF MainIs, MainType, Commands
  <2> QED
    BY <1>12, <2>3 DEF Rec
<1>13. ASSUME Pre PROVE m' \in MainType /\ keep
  <2>1. MainIs(m', "wait", m.next, m.count, IF ref.request \/ active # <<>> THEN "pre" ELSE "nop", m.bank, "all")
    BY <1>1, <1>13, MainMoves
  <2> QED
    BY <1>2, <1>13, <2>1 DEF MainIs, MainType, Commands, Pre
<1>14. ASSUME Ref PROVE m' \in MainType /\ keep
  <2>1. MainIs(m', "wait", "idle", 7, "ref", m.bank, m.addr)
    BY <1>1, <1>14, MainMoves
  <2> QED
    BY <1>2, <1>14, <2>1 DEF MainIs, MainType, Commands, Ref
<1>15. ASSUME Spin PROVE m' \in MainType /\ (keep \/ (latch /\ pending))
  <2>1. \/ ref.request /\ keep /\ MainIs(m', "wait", "idle", 1, "nop", m.bank, m.addr)
        \/ ~ref.request /\ pending /\ latch
           /\ MainIs(m', IF Head(entries).wr THEN "wr" ELSE "rd", m.next, m.count, "nop", m.bank, m.addr)
        \/ ~ref.request /\ entries # <<>> /\ ~pending /\ keep /\ MainIs(m', "rec", "idle", 1, "nop", m.bank, m.addr)
        \/ ~ref.request /\ entries = <<>> /\ keep /\ MainIs(m', "spin", m.next, m.count, "nop", m.bank, m.addr)
    BY <1>1, <1>15, MainMoves
  <2>2. m' \in MainType
    BY <1>2, <2>1 DEF MainIs, MainType, Commands
  <2> QED
    BY <2>1, <2>2
<1> QED
  BY <1>3, <1>4, <1>5, <1>7, <1>8, <1>9, <1>10, <1>11, <1>12, <1>13, <1>14, <1>15 DEF Main

(* While the chip is initialised the main machine only passes commands on.   *)
LEMMA InitialisingStep ==
    ASSUME CtrlType, ~i.done, Initialising, InitFsm, Main, ChipMoves
    PROVE  Machines'
<1> DEFINE d == i.done \/ i.state = "ready"
           s == IF i.count > 1 THEN "wait" ELSE i.next
           c == IF i.count > 1 THEN i.count - 1 ELSE i.count
<1>1. /\ m \in MainType /\ i \in InitType /\ ref \in CounterType /\ ref.counter <= Limit
      /\ i.state \in {"count", "pre", "refresh", "wait", "mode", "ready"}
      /\ i.next \in {"count", "refresh", "mode", "ready"}
      /\ i.count \in 0 .. 7 /\ i.cmd \in Commands /\ m.cmd \in Commands /\ chip.busy \in Nat
  BY RecordOfInit, RecordOfMain DEF CtrlType, ChipType
<1>2. Starting
  BY DEF Main, Initialising, Idle, Ras, Wait, Column, Rec, Pre, Ref, Spin
<1>3. MainIs(m', "idle", "idle", m.count, i.cmd, m.bank, "all") /\ active' = <<>> /\ ~f_pop'
  BY <1>1, <1>2, MainMoves DEF Starting, keep, Initialising
<1>4. ~ref'.request /\ ~ref'.ack
  <2>1. Refresh(ref.ack) /\ ref.ack \in BOOLEAN
    BY <1>1, <1>2 DEF Starting, CounterType
  <2> QED
    BY <1>1, <2>1, RefreshType DEF Initialising
<1>5. /\ i.state = "count" =>
           InitIs(i', IF ref.counter = 0 THEN "pre" ELSE "count", i.next, i.count, 0, "nop", d)
      /\ i.state = "pre" => InitIs(i', "wait", "refresh", 1, i.refs, "pre", d)
      /\ i.state = "refresh" =>
           InitIs(i', "wait", IF i.refs = 1 THEN "mode" ELSE "refresh", 7, i.refs + 1, "ref", d)
      /\ i.state = "wait" => InitIs(i', s, i.next, c, i.refs, "nop", d)
      /\ i.state = "mode" => InitIs(i', "wait", "ready", 4, i.refs, "lmr", d)
      /\ i.state = "ready" => InitIs(i', "ready", i.next, i.count, i.refs, i.cmd, TRUE)
  BY <1>1, InitFsmMoves
<1>6. m.cmd \in {"nop", "pre", "ref", "lmr"}
  BY <1>1 DEF Initialising, BothNop
<1>7. Closed'
  BY <1>6 DEF ChipMoves, Closed, Initialising
<1>8. m'.state = "idle" /\ m'.next = "idle" /\ m'.cmd = i.cmd
  BY <1>3 DEF MainIs
<1>9. CASE i.state = "ready"
  <2>1. i'.done /\ i'.state = "ready"
    BY <1>5, <1>9 DEF InitIs
  <2>2. i.cmd = "nop" /\ chip'.busy <= 2
    BY <1>1, <1>9 DEF Initialising, BothNop, ChipMoves, Less
  <2>3. Running'
    BY <1>3, <1>4, <1>7, <1>8, <2>1, <2>2 DEF Running
  <2> QED
    BY <2>1, <2>3 DEF Machines
<1>10. ASSUME i.state # "ready", Initialising' PROVE Machines'
  <2>1. ~i'.done
    BY <1>1, <1>10, InitFsmType
  <2> QED
    BY <1>10, <2>1 DEF Machines
<1>11. CASE i.state \in {"count", "pre"}
  <2>1. i.cmd = "nop" /\ m.cmd = "nop" /\ chip.busy = 0
    BY <1>11 DEF Initialising, BothNop
  <2>2. chip'.busy = 0
    BY <2>1 DEF ChipMoves, Less
  <2>3. \/ i'.state \in {"count", "pre"} /\ i'.cmd = "nop"
        \/ i'.state = "wait" /\ i'.next = "refresh" /\ i'.count = 1 /\ i'.cmd = "pre"
    BY <1>5, <1>11 DEF InitIs
  <2>4. Initialising'
    BY <1>3, <1>4, <1>7, <1>8, <2>1, <2>2, <2>3 DEF Initialising, BothNop
  <2> QED
    BY <1>10, <1>11, <2>4
<1>12. CASE i.state \in {"refresh", "mode"}
  <2>1. i.cmd = "nop" /\ chip'.busy <= 1
    BY <1>1, <1>12 DEF Initialising, ChipMoves, Less
  <2>2. /\ i'.state = "wait"
        /\ \/ i'.next \in {"refresh", "mode"} /\ i'.count = 7 /\ i'.cmd = "ref"
           \/ i'.next = "ready" /\ i'.count = 4 /\ i'.cmd = "lmr"
    BY <1>5, <1>12 DEF InitIs
  <2>3. Initialising'
    BY <1>3, <1>4, <1>7, <1>8, <2>1, <2>2 DEF Initialising, BothNop
  <2> QED
    BY <1>10, <1>12, <2>3
<1>13. CASE i.state = "wait"
  <2>1. /\ i'.cmd = "nop" /\ i'.next = i.next /\ i.next # "count"
        /\ IF i.count > 1 THEN i'.state = "wait" /\ i'.count = i.count - 1
                          ELSE i'.state = i.next /\ i'.count = i.count
    BY <1>5, <1>13 DEF InitIs, Initialising
  <2>2. CASE i.next = "ready"
    <3>1. \/ i.cmd = "lmr" /\ i.count = 4 /\ m.cmd = "nop" /\ chip.busy <= 1
          \/ i.cmd = "nop" /\ i.count = 3 /\ m.cmd = "lmr" /\ chip.busy = 0
          \/ i.cmd = "nop" /\ m.cmd = "nop" /\ chip.busy <= i.count + 3
      BY <1>13, <2>2 DEF Initialising, BothNop
    <3>2. \/ i'.state = "wait" /\ i.cmd = "lmr" /\ i'.count = 3 /\ chip'.busy = 0
          \/ i'.state = "wait" /\ i.cmd = "nop" /\ chip'.busy <= i'.count + 3
          \/ i'.state = "ready" /\ i.cmd = "nop" /\ chip'.busy <= 3
      BY <1>1, <2>1, <2>2, <3>1 DEF ChipMoves, Less
    <3>3. Initialising'
      BY <1>3, <1>4, <1>7, <1>8, <2>1, <2>2, <3>2 DEF Initialising, BothNop
    <3> QED
      BY <1>10, <1>13, <3>3
  <2>3. CASE i.next \in {"refresh", "mode"}
    <3>1. \/ i.cmd = "pre" /\ i.count = 1 /\ m.cmd = "nop" /\ chip.busy = 0
          \/ i.cmd = "ref" /\ i.count = 7 /\ m.cmd = "nop" /\ chip.busy <= 1
          \/ i.cmd = "nop" /\ i.count = 6 /\ m.cmd = "ref" /\ chip.busy = 0
          \/ i.cmd = "nop" /\ m.cmd = "nop" /\ chip.busy <= i.count + 2
      BY <1>13, <2>3 DEF Initialising, BothNop
    <3>2. \/ i'.state \in {"refresh", "mode"} /\ i.cmd \in {"nop", "pre"} /\ chip'.busy <= 2
             /\ (i.cmd = "pre" => chip'.busy = 0)
          \/ i'.state = "wait" /\ i.cmd = "ref" /\ i'.count = 6 /\ chip'.busy = 0
          \/ i'.state = "wait" /\ i.cmd = "nop" /\ chip'.busy <= i'.count + 2
      BY <1>1, <2>1, <2>3, <3>1 DEF ChipMoves, Less
    <3>3. Initialising'
      BY <1>3, <1>4, <1>7, <1>8, <2>1, <2>3, <3>2 DEF Initialising, BothNop
    <3> QED
      BY <1>10, <1>13, <3>3
  <2> QED
    BY <1>1, <2>1, <2>2, <2>3
<1> QED
  BY <1>1, <1>9, <1>11, <1>12, <1>13

(* The initialisation is over.                                               *)
RefMoves(ack) ==
    /\ ref'.ack = ack
    /\ ref'.counter = (IF ref.counter = 0 THEN REFRESH ELSE ref.counter - 1)
    /\ ref'.request = ((ref.counter = 0 \/ ref.request) /\ ~ref.ack)
Fields(s, n, c, k) == m'.state = s /\ m'.next = n /\ m'.count = c /\ m'.cmd = k

Clocked ==
    /\ ref.counter \in Nat /\ ref.request \in BOOLEAN /\ ref.ack \in BOOLEAN
    /\ m.state \in {"idle", "ras", "wait", "rd", "wr", "rec", "pre", "ref", "spin"}
    /\ m.next \in {"idle", "ref", "rd", "wr"} /\ m.count \in 0 .. 7 /\ m.cmd \in Commands
    /\ chip.busy \in Nat /\ chip'.busy \in Nat /\ REFRESH \in Nat /\ REFRESH >= 11
    /\ i'.state = "ready"
    /\ m.cmd \notin {"act", "pre"} => chip'.open = chip.open /\ (Closed' <=> Closed)

(* What every clock of the running machine has in common.                    *)
LEMMA RunningClock ==
    ASSUME Times, CtrlType, i.done, Running, InitFsm, ChipMoves
    PROVE  /\ Clocked /\ i'.done
           /\ \A ack \in BOOLEAN : Refresh(ack) => RefMoves(ack)
<1>1. i \in InitType /\ m \in MainType /\ ref \in CounterType /\ ref.counter <= Limit
  BY DEF CtrlType
<1>2. ref.counter \in Nat /\ ref.request \in BOOLEAN /\ ref.ack \in BOOLEAN
  BY <1>1 DEF CounterType
<1>3. chip.busy \in Nat /\ chip'.busy \in Nat
  BY DEF CtrlType, ChipType, ChipMoves
<1>4. REFRESH \in Nat /\ REFRESH >= 11
  BY SdramAssumption DEF Times
<1>5. InitIs(i', "ready", i.next, i.count, i.refs, i.cmd, TRUE)
  BY <1>1, InitFsmMoves DEF Running
<1>6. i'.state = "ready" /\ i'.done
  BY <1>5 DEF InitIs
<1>7. m.cmd \notin {"act", "pre"} => chip'.open = chip.open /\ (Closed' <=> Closed)
  BY DEF ChipMoves, Closed
<1>8. ASSUME NEW ack \in BOOLEAN, Refresh(ack) PROVE RefMoves(ack)
  BY <1>1, <1>8, RefreshType DEF RefMoves
<1>9. Clocked
  BY <1>1, <1>2, <1>3, <1>4, <1>6, <1>7, RecordOfMain DEF Clocked
<1> QED
  BY <1>6, <1>8, <1>9

(* The running machine, one lemma per state.                                 *)
LEMMA IdleStep ==
    ASSUME CtrlType, Running, InTime, Clocked, ChipMoves, NEW offer, EntriesMove(offer),
           i.done, Idle, \A ack \in BOOLEAN : Refresh(ack) => RefMoves(ack)
    PROVE  Running' /\ InTime'
<1>1. m.state = "idle" /\ RefMoves(FALSE)
  BY DEF Idle
<1>2. m.cmd = "nop" /\ chip.busy <= 2 /\ (Closed \/ Asked) /\ ~f_pop /\ ~f_select
  BY <1>1 DEF Running, f_select
<1>3. chip'.busy <= 1 /\ chip'.open = chip.open /\ (Closed' <=> Closed)
  BY <1>2 DEF Clocked, ChipMoves, Less
<1>4. m \in MainType
  BY DEF CtrlType
<1>5. \/ ref.request /\ Fields("pre", "ref", 1, "nop") /\ active' = <<>> /\ ~f_pop'
      \/ ~ref.request /\ entries # <<>> /\ Fields("ras", m.next, m.count, "nop") /\ latch
      \/ ~ref.request /\ entries = <<>> /\ Fields("idle", m.next, m.count, "nop") /\ keep
  BY <1>4, MainMoves DEF Idle, MainIs, Fields
<1>6. CASE ref.request
  <2>1. ~ref.ack /\ Asked'
    BY <1>1, <1>6 DEF Running, RefMoves, Asked
  <2>2. Running'
    BY <1>3, <1>5, <1>6, <2>1 DEF Running, Clocked, Fields, Asked
  <2>3. InTime'
    BY <1>1, <1>5, <1>6, <2>1 DEF InTime, Deadline, RefMoves, Clocked, Fields
  <2> QED
    BY <2>2, <2>3
<1>7. CASE ~ref.request
  <2>1. Closed' /\ ~ref'.ack
    BY <1>1, <1>2, <1>3, <1>7 DEF Asked, RefMoves
  <2>2. entries # <<>> => entries' # <<>> /\ Head(entries') = Head(entries)
    BY <1>2 DEF EntriesMove
  <2>3. ASSUME entries # <<>> PROVE Running'
    <3>1. Fields("ras", m.next, m.count, "nop") /\ f_pop' /\ active' = <<Head(entries)>>
      BY <1>5, <1>7, <2>3 DEF latch
    <3>2. active' = <<Head(entries')>>
      BY <2>2, <2>3, <3>1
    <3>3. Running'
      BY <1>3, <2>1, <2>2, <2>3, <3>1, <3>2 DEF Running, Clocked, Fields
    <3> QED
      BY <3>3
  <2>6. ASSUME entries = <<>> PROVE Running'
    BY <1>3, <1>5, <1>7, <2>1, <2>6 DEF Running, Clocked, Fields, keep
  <2>4. InTime'
    BY <1>1, <1>5, <1>7, <2>1 DEF InTime, Deadline, RefMoves, Clocked, Fields
  <2> QED
    BY <2>3, <2>4, <2>6
<1> QED
  BY <1>6, <1>7 DEF Clocked

LEMMA RasStep ==
    ASSUME CtrlType, Running, InTime, Clocked, ChipMoves, NEW offer, EntriesMove(offer),
           Ras, \A ack \in BOOLEAN : Refresh(ack) => RefMoves(ack)
    PROVE  Running' /\ InTime'
<1>1. m.state = "ras" /\ keep /\ RefMoves(ref.ack)
  BY DEF Ras, Clocked
<1>2. m \in MainType
  BY DEF CtrlType
<1>3. MainIs(m', "wait", Kind, 2, "act", active[1].bank, active[1].row)
  BY <1>2, MainMoves
<1>4. Kind \in {"rd", "wr"} /\ Fields("wait", Kind, 2, "act") /\ m'.bank = active[1].bank /\ m'.addr = active[1].row
  BY <1>3 DEF MainIs, Fields, Kind
<1>5. m.cmd = "nop" /\ chip.busy <= 1 /\ Closed /\ active # <<>> /\ ~ref.ack
  <2>1. m.cmd = "nop" /\ chip.busy <= 1 /\ Closed /\ active = <<Head(entries)>>
    BY <1>1 DEF Running
  <2>2. ~ref.ack
    BY <1>1 DEF Running
  <2> QED
    BY <2>1, <2>2
<1>6. chip'.busy = 0 /\ Closed'
  BY <1>5 DEF Clocked, ChipMoves, Less
<1>7. active' = active /\ ~f_pop' /\ Kind' = Kind
  BY <1>1 DEF keep, Kind
<1>8. Running'
  BY <1>1, <1>4, <1>5, <1>6, <1>7 DEF Running, Clocked, Fields, RefMoves
<1>9. InTime'
  BY <1>1, <1>4, <1>5 DEF InTime, Deadline, RefMoves, Clocked, Fields
<1> QED
  BY <1>8, <1>9

LEMMA WaitStep ==
    ASSUME CtrlType, Running, InTime, Clocked, ChipMoves, NEW offer, EntriesMove(offer),
           Wait, \A ack \in BOOLEAN : Refresh(ack) => RefMoves(ack)
    PROVE  Running' /\ InTime'
<1>1. m.state = "wait" /\ keep /\ RefMoves(ref.ack)
  BY DEF Wait, Clocked
<1>2. m \in MainType
  BY DEF CtrlType
<1>3. IF m.count > 1 THEN Fields("wait", m.next, m.count - 1, "nop") ELSE Fields(m.next, m.next, m.count, "nop")
  BY <1>2, MainMoves DEF MainIs, Fields
<1>4. active' = active /\ ~f_pop' /\ Kind' = Kind
  BY <1>1 DEF keep, Kind
<1>5. CASE m.next = "idle"
  <2>1. \/ m.cmd = "nop" /\ chip.busy <= m.count + 1 /\ (Closed \/ Asked)
        \/ m.cmd = "pre" /\ m.count = 1 /\ chip.busy = 0
        \/ m.cmd = "ref" /\ m.count = 7 /\ chip.busy = 0 /\ Closed /\ ref.ack
        \/ m.cmd \in {"rd", "wr"} /\ m.count = 2 /\ chip.busy = 0 /\ Asked
    BY <1>1, <1>5 DEF Running
  <2>2. Asked => Asked'
    BY <1>1 DEF Asked, RefMoves, Clocked
  <2>3. Closed' \/ Asked'
    BY <2>1, <2>2 DEF Clocked, ChipMoves
  <2>4. IF m.count > 1 THEN chip'.busy <= m'.count + 1 ELSE chip'.busy <= 2
    <3>1. CASE m.cmd = "nop" /\ chip.busy <= m.count + 1
      BY <1>3, <3>1 DEF ChipMoves, Less, Clocked, Fields
    <3>2. CASE m.cmd = "pre" /\ m.count = 1
      BY <1>3, <3>2 DEF ChipMoves, Clocked
    <3>3. CASE m.cmd = "ref" /\ m.count = 7
      BY <1>3, <3>3 DEF ChipMoves, Clocked, Fields
    <3>4. CASE m.cmd \in {"rd", "wr"} /\ chip.busy = 0
      BY <1>3, <3>4 DEF ChipMoves, Less, Clocked, Fields
    <3> QED
      BY <2>1, <3>1, <3>2, <3>3, <3>4
  <2>5. ref.ack => Closed' /\ ref'.ack /\ ~ref'.request
    BY <1>1, <1>5 DEF Running, Clocked, RefMoves
  <2>6. m.count >= 1 /\ m'.count >= 1 /\ (m'.count <= 2 \/ ref'.ack)
    BY <1>1, <1>3, <1>5 DEF Running, RefMoves, Clocked, Fields
  <2>7. Running'
    BY <1>1, <1>3, <1>4, <1>5, <2>3, <2>4, <2>5, <2>6 DEF Running, Clocked, Fields, RefMoves
  <2>8. InTime'
    BY <1>1, <1>3, <1>5, <2>5, <2>6 DEF InTime, Deadline, RefMoves, Clocked, Fields
  <2> QED
    BY <2>7, <2>8
<1>6. CASE m.next = "ref"
  <2>1. m.cmd = "pre" /\ m.count = 1 /\ chip.busy = 0 /\ Asked /\ ~ref.ack
    BY <1>1, <1>6 DEF Running, Asked
  <2>2. Asked' /\ Closed' /\ chip'.busy <= 1
    BY <1>1, <2>1 DEF Asked, RefMoves, Clocked, ChipMoves
  <2>3. Running'
    BY <1>1, <1>3, <1>4, <1>6, <2>1, <2>2 DEF Running, Clocked, Fields, RefMoves
  <2>4. InTime'
    BY <1>1, <1>3, <1>6, <2>1 DEF InTime, Deadline, RefMoves, Clocked, Fields
  <2> QED
    BY <2>3, <2>4
<1>7. CASE m.next \in {"rd", "wr"}
  <2>1. /\ active # <<>> /\ m.next = Kind /\ ~ref.ack
        /\ \/ /\ m.cmd = "act" /\ m.count = 2 /\ chip.busy = 0 /\ Closed
              /\ m.bank = active[1].bank /\ m.addr = active[1].row
           \/ m.cmd = "nop" /\ m.count = 1 /\ chip.busy <= 2 /\ RowOpen
    BY <1>1, <1>7 DEF Running
  <2>2. chip'.open[active[1].bank] = active[1].row
    BY <2>1 DEF RowOpen, ChipMoves
  <2>3. RowOpen'
    BY <1>4, <2>1, <2>2 DEF RowOpen
  <2>4. \/ m.count = 2 /\ chip'.busy <= 2
        \/ m.count = 1 /\ chip'.busy <= 1
    BY <2>1 DEF ChipMoves, Less, Clocked
  <2>5. Running'
    BY <1>1, <1>3, <1>4, <1>7, <2>1, <2>3, <2>4 DEF Running, Clocked, Fields, RefMoves
  <2>6. InTime'
    BY <1>1, <1>3, <1>7, <2>1 DEF InTime, Deadline, RefMoves, Clocked, Fields
  <2> QED
    BY <2>5, <2>6
<1> QED
  BY <1>5, <1>6, <1>7 DEF Clocked

LEMMA ColumnStep ==
    ASSUME CtrlType, Running, InTime, Clocked, ChipMoves, NEW offer, EntriesMove(offer),
           Column, \A ack \in BOOLEAN : Refresh(ack) => RefMoves(ack)
    PROVE  Running' /\ InTime'
<1>1. m.state \in {"rd", "wr"} /\ RefMoves(ref.ack)
  BY DEF Column, Clocked
<1>2. m \in MainType
  BY DEF CtrlType
<1>3. \/ pending /\ ref.request /\ keep /\ Fields("wait", "idle", 2, m.state)
      \/ pending /\ ~ref.request /\ latch /\ Fields(m.state, m.next, m.count, m.state)
      \/ ~pending /\ keep /\ Fields("spin", m.next, m.count, IF f_pop THEN "nop" ELSE m.state)
  BY <1>2, MainMoves DEF MainIs, Fields
<1>4. RowOpen /\ m.state = Kind /\ m.cmd \in {"nop", m.state} /\ chip.busy <= 1 /\ ~ref.ack
  BY <1>1 DEF Running, Clocked
<1>5. chip'.busy = 0 /\ chip'.open = chip.open
  BY <1>1, <1>4 DEF ChipMoves, Less, Clocked
<1>6. pending => Head(entries).wr = active[1].wr /\ Head(entries).bank = active[1].bank
                 /\ Head(entries).row = active[1].row
  BY DEF pending
<1>7. keep => RowOpen' /\ Kind' = Kind /\ active' # <<>>
  BY <1>4, <1>5 DEF keep, RowOpen, Kind
<1>8. latch /\ pending => RowOpen' /\ Kind' = Kind
  BY <1>4, <1>5, <1>6 DEF latch, RowOpen, Kind
<1>9. Running'
  BY <1>1, <1>3, <1>4, <1>5, <1>7, <1>8 DEF Running, Clocked, Fields, RefMoves, Asked, keep, latch
<1>10. InTime'
  BY <1>1, <1>3, <1>4 DEF InTime, Deadline, RefMoves, Clocked, Fields
<1> QED
  BY <1>9, <1>10

LEMMA RecStep ==
    ASSUME CtrlType, Running, InTime, Clocked, ChipMoves, NEW offer, EntriesMove(offer),
           Rec, \A ack \in BOOLEAN : Refresh(ack) => RefMoves(ack)
    PROVE  Running' /\ InTime'
<1>1. m.state = "rec" /\ keep /\ RefMoves(ref.ack)
  BY DEF Rec, Clocked
<1>2. m \in MainType
  BY DEF CtrlType
<1>3. m.cmd = "nop" /\ chip.busy = 0 /\ active # <<>> /\ m.count = 1 /\ m.next = "idle" /\ ~ref.ack
  BY <1>1 DEF Running
<1>4. Fields("pre", "idle", 1, "nop")
  BY <1>2, <1>3, MainMoves DEF MainIs, Fields
<1>5. active' # <<>> /\ ~f_pop' /\ chip'.busy = 0
  BY <1>1, <1>3 DEF keep, ChipMoves, Less
<1>6. Running'
  BY <1>1, <1>3, <1>4, <1>5 DEF Running, Clocked, Fields, RefMoves
<1>7. InTime'
  BY <1>1, <1>3, <1>4 DEF InTime, Deadline, RefMoves, Clocked, Fields
<1> QED
  BY <1>6, <1>7

LEMMA PreStep ==
    ASSUME CtrlType, Running, InTime, Clocked, ChipMoves, NEW offer, EntriesMove(offer),
           Pre, \A ack \in BOOLEAN : Refresh(ack) => RefMoves(ack)
    PROVE  Running' /\ InTime'
<1>1. m.state = "pre" /\ keep /\ RefMoves(ref.ack)
  BY DEF Pre, Clocked
<1>2. m \in MainType
  BY DEF CtrlType
<1>3. m.cmd = "nop" /\ chip.busy <= 1 /\ m.count = 1 /\ ~ref.ack
      /\ ((m.next = "ref" /\ Asked) \/ (m.next = "idle" /\ active # <<>>))
  <2>1. m.cmd = "nop" /\ chip.busy <= 1 /\ m.count = 1
    BY <1>1 DEF Running
  <2>3. (m.next = "ref" /\ Asked) \/ (m.next = "idle" /\ active # <<>>)
    BY <1>1 DEF Running, Asked
  <2>2. ~ref.ack
    BY <1>1 DEF Running
  <2> QED
    BY <2>1, <2>2, <2>3
<1>4. Fields("wait", m.next, 1, "pre")
  BY <1>2, <1>3, MainMoves DEF MainIs, Fields, Asked
<1>5. active' = active /\ ~f_pop' /\ chip'.busy = 0
  BY <1>1, <1>3 DEF keep, ChipMoves, Less, Clocked
<1>6. Asked => Asked'
  BY <1>1 DEF Asked, RefMoves, Clocked
<1>7. Running'
  BY <1>1, <1>3, <1>4, <1>5, <1>6 DEF Running, Clocked, Fields, RefMoves
<1>8. InTime'
  BY <1>1, <1>3, <1>4 DEF InTime, Deadline, RefMoves, Clocked, Fields
<1> QED
  BY <1>7, <1>8

LEMMA RefStep ==
    ASSUME CtrlType, Running, InTime, Clocked, ChipMoves, NEW offer, EntriesMove(offer),
           Ref, \A ack \in BOOLEAN : Refresh(ack) => RefMoves(ack)
    PROVE  Running' /\ InTime'
<1>1. m.state = "ref" /\ keep /\ RefMoves(TRUE)
  BY DEF Ref
<1>2. m \in MainType
  BY DEF CtrlType
<1>3. m.cmd = "nop" /\ chip.busy <= 1 /\ Closed /\ Asked
  BY <1>1 DEF Running
<1>4. Fields("wait", "idle", 7, "ref")
  BY <1>2, MainMoves DEF MainIs, Fields
<1>5. active' = active /\ ~f_pop' /\ chip'.busy = 0 /\ Closed'
  BY <1>1, <1>3 DEF keep, ChipMoves, Less, Clocked
<1>6. Running'
  BY <1>1, <1>3, <1>4, <1>5 DEF Running, Clocked, Fields, RefMoves
<1>7. InTime'
  BY <1>1, <1>3, <1>4 DEF InTime, Deadline, RefMoves, Clocked, Fields, Asked
<1> QED
  BY <1>6, <1>7

LEMMA SpinStep ==
    ASSUME CtrlType, Running, InTime, Clocked, ChipMoves, NEW offer, EntriesMove(offer),
           Spin, \A ack \in BOOLEAN : Refresh(ack) => RefMoves(ack)
    PROVE  Running' /\ InTime'
<1>1. m.state = "spin" /\ RefMoves(ref.ack)
  BY DEF Spin, Clocked
<1>2. m \in MainType
  BY DEF CtrlType
<1>3. \/ ref.request /\ keep /\ Fields("wait", "idle", 1, "nop")
      \/ ~ref.request /\ pending /\ latch /\ Fields(IF Head(entries).wr THEN "wr" ELSE "rd", m.next, m.count, "nop")
      \/ ~ref.request /\ entries # <<>> /\ ~pending /\ keep /\ Fields("rec", "idle", 1, "nop")
      \/ ~ref.request /\ entries = <<>> /\ keep /\ Fields("spin", m.next, m.count, "nop")
  BY <1>2, MainMoves DEF MainIs, Fields
<1>4. RowOpen /\ chip.busy = 0 /\ m.cmd \in {"nop", "rd", "wr"} /\ ~ref.ack
  BY <1>1 DEF Running, Kind
<1>5. chip'.busy = 0 /\ chip'.open = chip.open
  BY <1>4 DEF ChipMoves, Less, Clocked
<1>6. pending => Head(entries).wr = active[1].wr /\ Head(entries).bank = active[1].bank
                 /\ Head(entries).row = active[1].row
  BY DEF pending
<1>7. keep => RowOpen' /\ active' # <<>>
  BY <1>4, <1>5 DEF keep, RowOpen
<1>8. latch /\ pending => RowOpen' /\ Kind' = (IF Head(entries).wr THEN "wr" ELSE "rd")
  BY <1>4, <1>5, <1>6 DEF latch, RowOpen, Kind
<1>9. Running'
  BY <1>1, <1>3, <1>4, <1>5, <1>7, <1>8 DEF Running, Clocked, Fields, RefMoves, Asked, keep, latch
<1>10. InTime'
  BY <1>1, <1>3, <1>4 DEF InTime, Deadline, RefMoves, Clocked, Fields
<1> QED
  BY <1>9, <1>10

(* Both machines together keep the chip's distances and rows.                *)
LEMMA MachinesStep ==
    ASSUME Times, CtrlType, Machines, InTime, InitFsm, Main, ChipMoves, NEW offer, EntriesMove(offer)
    PROVE  Machines' /\ InTime'
<1>1. CASE i.done
  <2>1. Running
    BY <1>1 DEF Machines
  <2>2. Clocked /\ i'.done /\ \A ack \in BOOLEAN : Refresh(ack) => RefMoves(ack)
    BY <1>1, <2>1, RunningClock
  <2>3. ~Starting
    BY <1>1 DEF Starting
  <2>4. Idle \/ Ras \/ Wait \/ Column \/ Rec \/ Pre \/ Ref \/ Spin
    BY <2>3 DEF Main
  <2>5. Running' /\ InTime'
    BY <1>1, <2>1, <2>2, <2>4, IdleStep, RasStep, WaitStep, ColumnStep, RecStep, PreStep, RefStep, SpinStep
  <2> QED
    BY <2>2, <2>5 DEF Machines
<1>2. CASE ~i.done
  <2>1. Initialising
    BY <1>2 DEF Machines
  <2>2. Machines'
    BY <1>2, <2>1, InitialisingStep
  <2>3. Starting
    BY <1>2, <2>1 DEF Main, Initialising, Idle, Ras, Wait, Column, Rec, Pre, Ref, Spin
  <2>4. ref.ack \in BOOLEAN /\ Refresh(ref.ack) /\ i \in InitType /\ ref \in CounterType /\ ref.counter <= Limit
    BY <2>3 DEF CtrlType, CounterType, Starting
  <2>5. ~ref'.request
    BY <1>2, <2>4, RefreshType
  <2> QED
    BY <2>2, <2>5 DEF InTime
<1> QED
  BY <1>1, <1>2

(* Every action keeps the acknowledgement or sets it.                        *)
LEMMA RefTypes ==
    ASSUME CtrlType, Main
    PROVE  ref' \in CounterType /\ ref'.counter <= Limit
<1>1. i \in InitType /\ ref \in CounterType /\ ref.counter <= Limit /\ ref.ack \in BOOLEAN
  BY DEF CtrlType, CounterType
<1>2. \E ack \in BOOLEAN : Refresh(ack)
  BY <1>1 DEF Main, Starting, Idle, Ras, Wait, Column, Rec, Pre, Ref, Spin
<1> QED
  BY <1>1, <1>2, RefreshType

(* What every step does to the pins.                                         *)
PinsMove ==
    /\ (m.state = "wr" /\ ~(f_pop /\ ~pending)) <=> m'.cmd = "wr"
    /\ m'.cmd = "rd" => Reading'
    /\ m.cmd = "rd" /\ Reading => Reading' \/ m'.state \in {"rec", "idle"}
    /\ Reading \/ m.state \in {"rec", "idle"} => m'.state # "wr"
    /\ m.state # "wr" => m'.cmd # "wr"

(* The pins a clock later, and the data pins.                                *)
LEMMA PinsStep ==
    ASSUME CtrlType, Machines, Main
    PROVE  PinsMove
<1>1. /\ m \in MainType /\ m.count \in 0 .. 7
      /\ m.state \in {"idle", "ras", "wait", "rd", "wr", "rec", "pre", "ref", "spin"}
      /\ m.next \in {"idle", "ref", "rd", "wr"}
  BY RecordOfMain DEF CtrlType
<1>2. m.state # "idle" => i.done
  BY DEF Machines, Initialising
<1>3. CASE Starting
  <2>1. Fields("idle", "idle", m.count, i.cmd) /\ m.state = "idle" /\ ~i.done
    BY <1>1, <1>3, MainMoves DEF MainIs, Fields, Starting
  <2>2. i.cmd \in {"nop", "pre", "ref", "lmr"}
    <3>1. i.state \in {"count", "pre", "refresh", "wait", "mode", "ready"} /\ i.next \in {"count", "refresh", "mode", "ready"}
      BY RecordOfInit DEF CtrlType
    <3>2. Initialising
      BY <2>1 DEF Machines
    <3> QED
      BY <3>1, <3>2 DEF Initialising, BothNop
  <2> QED
    BY <2>1, <2>2 DEF PinsMove, Fields, Reading
<1>4. CASE Idle
  <2>1. m.state = "idle" /\ m'.cmd = "nop" /\ m'.state \in {"idle", "pre", "ras"} /\ i.done
    BY <1>1, <1>4, MainMoves DEF MainIs, Idle
  <2>2. m.cmd = "nop"
    BY <2>1 DEF Machines, Running
  <2> QED
    BY <2>1, <2>2 DEF PinsMove, Reading
<1>5. CASE Ras
  <2>1. m.state = "ras" /\ m'.cmd = "act" /\ m'.state = "wait"
    BY <1>1, <1>5, MainMoves DEF MainIs, Ras
  <2>2. m.cmd = "nop"
    BY <1>2, <2>1 DEF Machines, Running
  <2> QED
    BY <2>1, <2>2 DEF PinsMove, Reading
<1>6. CASE Wait
  <2>1. /\ m.state = "wait" /\ m'.cmd = "nop" /\ m'.next = m.next
        /\ m'.state = IF m.count > 1 THEN "wait" ELSE m.next
    BY <1>1, <1>6, MainMoves DEF MainIs, Wait
  <2> QED
    BY <1>1, <2>1 DEF PinsMove, Reading
<1>7. CASE Column
  <2>1. m.state \in {"rd", "wr"}
    BY <1>7 DEF Column
  <2>2. \/ pending /\ ref.request /\ keep /\ Fields("wait", "idle", 2, m.state)
        \/ pending /\ ~ref.request /\ latch /\ Fields(m.state, m.next, m.count, m.state)
        \/ ~pending /\ keep /\ Fields("spin", m.next, m.count, IF f_pop THEN "nop" ELSE m.state)
    BY <1>1, <1>7, MainMoves DEF MainIs, Fields
  <2>3. m.state = Kind /\ active # <<>>
    BY <1>2, <2>1 DEF Machines, Running, RowOpen
  <2>4. m.state = "rd" => ~active[1].wr
    BY <2>3 DEF Kind
  <2>5. keep => active' = active
    BY DEF keep
  <2> QED
    BY <2>1, <2>2, <2>4, <2>5 DEF PinsMove, Reading, Fields
<1>8. CASE Rec
  <2>1. m.state = "rec" /\ m'.cmd = "nop" /\ m'.state \in {"rec", "pre"}
    BY <1>1, <1>8, MainMoves DEF MainIs, Rec
  <2> QED
    BY <2>1 DEF PinsMove, Reading
<1>9. CASE Pre
  <2>1. m.state = "pre" /\ m'.cmd \in {"nop", "pre"} /\ m'.state = "wait"
    BY <1>1, <1>9, MainMoves DEF MainIs, Pre
  <2> QED
    BY <2>1 DEF PinsMove, Reading
<1>10. CASE Ref
  <2>1. m.state = "ref" /\ m'.cmd = "ref" /\ m'.state = "wait"
    BY <1>1, <1>10, MainMoves DEF MainIs, Ref
  <2> QED
    BY <2>1 DEF PinsMove, Reading
<1>11. CASE Spin
  <2>1. m.state = "spin"
    BY <1>11 DEF Spin
  <2>2. \/ ref.request /\ keep /\ Fields("wait", "idle", 1, "nop")
        \/ ~ref.request /\ pending /\ latch /\ Fields(IF Head(entries).wr THEN "wr" ELSE "rd", m.next, m.count, "nop")
        \/ ~ref.request /\ entries # <<>> /\ ~pending /\ keep /\ Fields("rec", "idle", 1, "nop")
        \/ ~ref.request /\ entries = <<>> /\ keep /\ Fields("spin", m.next, m.count, "nop")
    BY <1>1, <1>11, MainMoves DEF MainIs, Fields
  <2>3. keep => active' = active
    BY DEF keep
  <2>4. pending => (Head(entries).wr <=> active[1].wr)
    BY DEF pending
  <2> QED
    BY <2>1, <2>2, <2>3, <2>4 DEF PinsMove, Reading, Fields
<1> QED
  BY <1>3, <1>4, <1>5, <1>6, <1>7, <1>8, <1>9, <1>10, <1>11 DEF Main

LEMMA DataPinsStep ==
    ASSUME CtrlType, Machines, DataPins, Main,
           rd_valid' = <<IF m.cmd = "rd" THEN <<Head(todo).port>> ELSE <<>>,
                         rd_valid[1], rd_valid[2], rd_valid[3]>>,
           oe' = (m.state = "wr" /\ ~(f_pop /\ ~pending))
    PROVE  DataPins'
<1>1. PinsMove
  BY PinsStep
<1>2. /\ rd_valid'[1] # <<>> => m.cmd = "rd"
      /\ rd_valid'[2] = rd_valid[1] /\ rd_valid'[3] = rd_valid[2]
  OBVIOUS
<1>3. oe' = (m'.cmd = "wr")
  BY <1>1 DEF PinsMove
<1> QED
  BY <1>1, <1>2, <1>3 DEF PinsMove, DataPins

(* What a step asks of the chip: the item on the pins leaves the requests    *)
(* that wait, or nothing leaves.                                             *)
Leaves(r, k) == k \in {0, 1} /\ (k = 1 => r # <<>>)
Asks(acc) ==
    \/ ~column' /\ Cat(Armed', entries') = Cat(Cat(Armed, entries), acc)
    \/ /\ column'
       /\ \E x \in Request, y \in Seq(Request) :
             /\ Cat(Armed, entries) = Cat(<<x>>, y) /\ Cat(Armed', entries') = Cat(y, acc)
             /\ (m'.cmd = "wr") = x.wr /\ m'.bank = x.bank /\ m'.addr = x.col
             /\ chip'.open[x.bank] = x.row

(* The requests the chip has not seen yet: states that latch none.           *)
LEMMA PlainAsk ==
    ASSUME CtrlType, NEW offer, EntriesMove(offer), ~f_select, ~column', Armed' = Armed
    PROVE  Asks(Accepted(offer))
<1> DEFINE E == entries
           A == Armed
           o == Accepted(offer)
<1>1. A \in Seq(Request) /\ E \in Seq(Request) /\ o \in Seq(Request)
  BY OneIsSeq DEF Armed, EntriesMove, CtrlType, AtMostOneOf
<1>2. entries' = Cat(E, o)
  BY DEF EntriesMove, Popped, Num
<1> HIDE DEF E, A, o
<1>3. Cat(A, Cat(E, o)) = Cat(Cat(A, E), o)
  BY <1>1, CatFacts
<1> QED
  BY <1>2, <1>3 DEF Asks, A, E, o

(* A row is opened for the head of the FIFO.                                 *)
LEMMA RasAsk ==
    ASSUME CtrlType, NEW offer, EntriesMove(offer), ~column', Armed = <<>>,
           entries # <<>>, Armed' = <<Head(entries)>>, f_select
    PROVE  Asks(Accepted(offer))
<1> DEFINE E == entries
           x == Head(E)
           o == Accepted(offer)
<1>1. E \in Seq(Request) /\ o \in Seq(Request)
  BY OneIsSeq DEF EntriesMove, CtrlType
<1>2. x \in Request /\ Tail(E) \in Seq(Request) /\ Cat(<<x>>, Tail(E)) = E
  BY <1>1, HeadAndTail DEF Cat
<1>3. entries' = Cat(Tail(E), o)
  BY DEF EntriesMove, Popped, Num
<1>4. <<x>> \in Seq(Request) /\ Cat(<<>>, E) = E
  BY <1>1, <1>2, CatFacts
<1>5. Cat(<<x>>, Cat(Tail(E), o)) = Cat(Cat(<<x>>, Tail(E)), o)
  <2> DEFINE t == Tail(E)
             h == <<x>>
  <2>1. t \in Seq(Request) /\ h \in Seq(Request)
    BY <1>2, <1>4
  <2> HIDE DEF t, h, o
  <2>2. Cat(h, Cat(t, o)) = Cat(Cat(h, t), o)
    BY <1>1, <2>1, CatFacts
  <2> QED
    BY <2>2 DEF t, h
<1> QED
  BY <1>2, <1>3, <1>4, <1>5 DEF Asks

(* A column: the active request or the head of the FIFO.                     *)
LEMMA ColumnAsk ==
    ASSUME CtrlType, Machines, Column, ChipMoves, NEW offer, EntriesMove(offer)
    PROVE  Asks(Accepted(offer))
<1> DEFINE E == entries
           o == Accepted(offer)
<1>1. m.state \in {"rd", "wr"}
  BY DEF Column
<1>2. m \in MainType
  BY DEF CtrlType
<1>3. \/ pending /\ ref.request /\ keep /\ MainIs(m', "wait", "idle", 2, m.state, Item.bank, Item.col)
      \/ pending /\ ~ref.request /\ latch /\ MainIs(m', m.state, m.next, m.count, m.state, Item.bank, Item.col)
      \/ ~pending /\ keep
         /\ MainIs(m', "spin", m.next, m.count, IF f_pop THEN "nop" ELSE m.state, Item.bank, Item.col)
  BY <1>2, MainMoves
<1>4. /\ m'.bank = Item.bank /\ m'.addr = Item.col
      /\ m'.cmd = IF f_pop /\ ~pending THEN "nop" ELSE m.state
  BY <1>3 DEF MainIs
<1>5. Armed' = <<>>
  <2>1. \/ m'.state = "wait" /\ m'.next = "idle"
        \/ f_pop'
        \/ m'.state = "spin"
    BY <1>3 DEF MainIs, latch
  <2> QED
    BY <2>1 DEF Armed
<1>6. i.done /\ RowOpen /\ m.state = Kind /\ m.cmd \in {"nop", "rd", "wr"}
  BY <1>1 DEF Machines, Running, Initialising
<1>7. chip'.open = chip.open
  BY <1>6 DEF ChipMoves
<1>8. E \in Seq(Request) /\ o \in Seq(Request) /\ Cat(<<>>, E) = E
  BY OneIsSeq, CatFacts DEF EntriesMove, CtrlType
<1>9. CASE f_pop /\ ~pending
  <2>1. ~f_select /\ ~column' /\ Armed = <<>>
    BY <1>4, <1>9 DEF f_select, column, Armed
  <2> QED
    BY <1>5, <2>1, PlainAsk
<1>10. CASE ~(f_pop /\ ~pending)
  <2>1. column' /\ m'.cmd = m.state
    BY <1>1, <1>4, <1>10 DEF column
  <2>2. active # <<>> /\ active[1] \in Request /\ active = <<active[1]>>
    BY <1>6, ActiveType DEF RowOpen
  <2>3. CASE f_select
    <3>1. pending /\ E # <<>> /\ f_pop /\ Item = Head(E) /\ Armed = <<>>
      BY <2>3 DEF f_select, pending, Item, Armed
    <3> DEFINE x == Head(E)
               y == Tail(E)
    <3>2. x \in Request /\ y \in Seq(Request) /\ E = Cat(<<x>>, y)
      BY <1>8, <3>1, HeadAndTail DEF Cat
    <3>3. entries' = Cat(y, o)
      BY <2>3 DEF EntriesMove, Popped, Num
    <3>4. x.wr = active[1].wr /\ x.bank = active[1].bank /\ x.row = active[1].row
      BY <3>1 DEF pending
    <3>5. chip'.open[x.bank] = x.row /\ (m'.cmd = "wr") = x.wr
      <4>1. x.wr \in BOOLEAN
        BY <3>2, RequestFields
      <4>2. (m.state = "wr") = x.wr
        BY <1>6, <3>4, <4>1 DEF Kind
      <4> QED
        BY <1>6, <1>7, <2>1, <3>4, <4>2 DEF RowOpen
    <3>6. m'.bank = x.bank /\ m'.addr = x.col
      BY <1>4, <3>1
    <3> HIDE DEF x, y, o, E
    <3>7. Cat(y, o) \in Seq(Request) /\ Cat(<<>>, Cat(y, o)) = Cat(y, o)
      BY <1>8, <3>2, CatFacts
    <3>8. Cat(Armed, entries) = Cat(<<x>>, y) /\ Cat(Armed', entries') = Cat(y, o)
      BY <1>5, <1>8, <3>1, <3>2, <3>3, <3>7 DEF E
    <3> QED
      BY <2>1, <3>2, <3>5, <3>6, <3>8 DEF Asks, o
  <2>4. CASE ~f_select
    <3> DEFINE x == active[1]
    <3>1. ~f_pop /\ Item = x /\ Armed = <<x>>
      <4>1. ~f_pop
        BY <1>10, <2>4 DEF f_select
      <4> QED
        BY <1>1, <2>2, <2>4, <4>1 DEF Item, Armed
    <3>2. entries' = Cat(E, o)
      BY <2>4 DEF EntriesMove, Popped, Num
    <3>3. chip'.open[x.bank] = x.row /\ (m'.cmd = "wr") = x.wr
      <4>1. x.wr \in BOOLEAN
        BY <2>2, RequestFields
      <4> QED
        BY <1>6, <1>7, <2>1, <4>1 DEF RowOpen, Kind
    <3>4. m'.bank = x.bank /\ m'.addr = x.col
      BY <1>4, <3>1
    <3> HIDE DEF x, o, E
    <3>5. Cat(E, o) \in Seq(Request) /\ Cat(<<>>, Cat(E, o)) = Cat(E, o)
      BY <1>8, CatFacts
    <3>6. Cat(Armed, entries) = Cat(<<x>>, E) /\ Cat(Armed', entries') = Cat(E, o) /\ x \in Request
      BY <1>5, <2>2, <3>1, <3>2, <3>5 DEF E, x
    <3> QED
      BY <1>8, <2>1, <3>3, <3>4, <3>6 DEF Asks, o
  <2> QED
    BY <2>3, <2>4
<1> QED
  BY <1>9, <1>10

(* Each request is asked of the chip once and in order.                      *)
LEMMA AskStep ==
    ASSUME CtrlType, Machines, Main, ChipMoves, NEW offer, EntriesMove(offer)
    PROVE  Asks(Accepted(offer))
<1>1. /\ m \in MainType /\ m.count \in 0 .. 7
      /\ m.state \in {"idle", "ras", "wait", "rd", "wr", "rec", "pre", "ref", "spin"}
      /\ m.next \in {"idle", "ref", "rd", "wr"}
  BY RecordOfMain DEF CtrlType
<1>2. m.state # "idle" => Running
  BY DEF Machines, Initialising
<1>3. m.state \notin {"ras", "rd", "wr"} => ~f_pop /\ ~f_select
  BY DEF Machines, Running, Initialising, f_select
<1>4. CASE Starting
  <2>1. Fields("idle", "idle", m.count, i.cmd) /\ m.state = "idle" /\ ~i.done
    BY <1>1, <1>4, MainMoves DEF MainIs, Fields, Starting
  <2>2. i.cmd \in {"nop", "pre", "ref", "lmr"}
    <3>1. i.state \in {"count", "pre", "refresh", "wait", "mode", "ready"} /\ i.next \in {"count", "refresh", "mode", "ready"}
      BY RecordOfInit DEF CtrlType
    <3>2. Initialising
      BY <2>1 DEF Machines
    <3> QED
      BY <3>1, <3>2 DEF Initialising, BothNop
  <2>3. ~column' /\ Armed = <<>> /\ Armed' = <<>>
    BY <2>1, <2>2 DEF column, Fields, Armed
  <2> QED
    BY <1>3, <2>1, <2>3, PlainAsk
<1>5. CASE Idle
  <2>1. m.state = "idle" /\ m'.cmd = "nop"
        /\ (m'.state \in {"idle", "pre"} \/ (m'.state = "ras" /\ f_pop'))
    BY <1>1, <1>5, MainMoves DEF MainIs, Idle, latch
  <2>2. ~column' /\ Armed = <<>> /\ Armed' = <<>>
    BY <2>1 DEF column, Armed
  <2> QED
    BY <1>3, <2>1, <2>2, PlainAsk
<1>6. CASE Ras
  <2>1. m.state = "ras" /\ keep /\ Fields("wait", Kind, 2, "act")
    BY <1>1, <1>6, MainMoves DEF MainIs, Ras, Fields
  <2>2. f_pop /\ entries # <<>> /\ active = <<Head(entries)>>
    BY <1>2, <2>1 DEF Running
  <2>3. f_select
    BY <2>2 DEF f_select, pending
  <2>4. ~column' /\ Armed = <<>> /\ Armed' = active
    BY <2>1 DEF column, Fields, Armed, keep, Kind
  <2> QED
    BY <2>2, <2>3, <2>4, RasAsk
<1>7. CASE Wait
  <2>1. /\ m.state = "wait" /\ m'.cmd = "nop" /\ m'.next = m.next
        /\ m'.state = IF m.count > 1 THEN "wait" ELSE m.next
    BY <1>1, <1>7, MainMoves DEF MainIs, Wait
  <2>2. active' = active /\ ~f_pop' /\ ~f_pop
    BY <1>3, <1>7, <2>1 DEF Wait, keep
  <2>3. ~column' /\ Armed' = Armed
    BY <1>1, <2>1, <2>2 DEF column, Armed
  <2> QED
    BY <1>3, <2>1, <2>3, PlainAsk
<1>8. CASE Column
  BY <1>8, ColumnAsk
<1>9. CASE Rec
  <2>1. m.state = "rec" /\ m'.cmd = "nop" /\ m'.state \in {"rec", "pre"}
    BY <1>1, <1>9, MainMoves DEF MainIs, Rec
  <2>2. ~column' /\ Armed = <<>> /\ Armed' = <<>>
    BY <2>1 DEF column, Armed
  <2> QED
    BY <1>3, <2>1, <2>2, PlainAsk
<1>10. CASE Pre
  <2>1. m.state = "pre" /\ m'.cmd \in {"nop", "pre"} /\ m'.state = "wait" /\ m'.next = m.next
    BY <1>1, <1>10, MainMoves DEF MainIs, Pre
  <2>2. m.next \in {"ref", "idle"}
    BY <1>2, <2>1 DEF Running
  <2>3. ~column' /\ Armed = <<>> /\ Armed' = <<>>
    BY <2>1, <2>2 DEF column, Armed
  <2> QED
    BY <1>3, <2>1, <2>3, PlainAsk
<1>11. CASE Ref
  <2>1. m.state = "ref" /\ m'.cmd = "ref" /\ m'.state = "wait" /\ m'.next = "idle"
    BY <1>1, <1>11, MainMoves DEF MainIs, Ref
  <2>2. ~column' /\ Armed = <<>> /\ Armed' = <<>>
    BY <2>1 DEF column, Armed
  <2> QED
    BY <1>3, <2>1, <2>2, PlainAsk
<1>12. CASE Spin
  <2>1. /\ m.state = "spin" /\ m'.cmd = "nop"
        /\ \/ m'.state = "wait" /\ m'.next = "idle"
           \/ f_pop'
           \/ m'.state \in {"rec", "spin"}
    BY <1>1, <1>12, MainMoves DEF MainIs, Spin, latch
  <2>2. ~column' /\ Armed = <<>> /\ Armed' = <<>>
    BY <2>1 DEF column, Armed
  <2> QED
    BY <1>3, <2>1, <2>2, PlainAsk
<1> QED
  BY <1>4, <1>5, <1>6, <1>7, <1>8, <1>9, <1>10, <1>11, <1>12 DEF Main

(* The requests the chip has not seen, across a step.                        *)
LEMMA RequestsStep ==
    ASSUME CtrlType, Machines, Requests, Main, ChipMoves, NEW offer, EntriesMove(offer),
           todo' = Cat(Rest, Accepted(offer))
    PROVE  /\ Requests' /\ todo' \in Seq(Request)
           /\ m'.cmd = "rd" => Rest # <<>> /\ ~Head(Rest).wr
<1> DEFINE o == Accepted(offer)
           R == Rest
<1>1. R = Cat(Armed, entries)
  BY DEF Requests
<1>2. R \in Seq(Request) /\ o \in Seq(Request)
  <2>1. Armed \in Seq(Request) /\ entries \in Seq(Request) /\ o \in Seq(Request)
    BY OneIsSeq DEF Armed, EntriesMove, CtrlType, AtMostOneOf
  <2> QED
    BY <1>1, <2>1, CatFacts
<1>3. Asks(o)
  BY AskStep
<1>4. todo' = Cat(R, o)
  OBVIOUS
<1> HIDE DEF o, R
<1>5. todo' \in Seq(Request)
  BY <1>2, <1>4, CatFacts
<1>6. CASE ~column'
  <2>1. Rest' = todo' /\ CommandsFollowRequests' /\ m'.cmd # "rd"
    BY <1>6 DEF Rest, CommandsFollowRequests, column
  <2>2. Cat(Armed', entries') = Cat(R, o)
    BY <1>1, <1>3, <1>6 DEF Asks
  <2> QED
    BY <1>4, <1>5, <2>1, <2>2 DEF Requests
<1>7. CASE column'
  <2>1. PICK x \in Request, y \in Seq(Request) :
             /\ R = Cat(<<x>>, y) /\ Cat(Armed', entries') = Cat(y, o)
             /\ (m'.cmd = "wr") = x.wr /\ m'.bank = x.bank /\ m'.addr = x.col
             /\ chip'.open[x.bank] = x.row
    BY <1>1, <1>3, <1>7 DEF Asks
  <2>2. Cat(y, o) \in Seq(Request)
    BY <1>2, <2>1, CatFacts
  <2>3. todo' = Cat(<<x>>, Cat(y, o))
    <3>1. <<x>> \in Seq(Request)
      OBVIOUS
    <3> DEFINE h == <<x>>
    <3> HIDE DEF h
    <3>2. h \in Seq(Request) /\ R = Cat(h, y)
      BY <2>1, <3>1 DEF h
    <3>3. Cat(Cat(h, y), o) = Cat(h, Cat(y, o))
      BY <1>2, <2>1, <3>2, CatFacts
    <3> QED
      BY <1>4, <3>2, <3>3 DEF h
  <2>4. todo' # <<>> /\ Head(todo') = x /\ Tail(todo') = Cat(y, o)
    BY <2>2, <2>3, FirstWord DEF Cat
  <2>5. R # <<>> /\ Head(R) = x
    BY <2>1, FirstWord DEF Cat
  <2>6. CommandsFollowRequests'
    BY <2>1, <2>4 DEF CommandsFollowRequests
  <2>7. Rest' = Cat(Armed', entries')
    BY <1>7, <2>1, <2>4 DEF Rest
  <2> QED
    BY <1>5, <2>1, <2>5, <2>6, <2>7 DEF Requests, R
<1> QED
  BY <1>6, <1>7

(* A row is opened with the row of a request.                                *)
LEMMA ActHasRow ==
    ASSUME CtrlType, Machines, m.cmd = "act"
    PROVE  m.addr \in Row
<1>1. /\ m.state \in {"idle", "ras", "wait", "rd", "wr", "rec", "pre", "ref", "spin"}
      /\ m.next \in {"idle", "ref", "rd", "wr"}
      /\ i.state \in {"count", "pre", "refresh", "wait", "mode", "ready"}
      /\ i.next \in {"count", "refresh", "mode", "ready"}
  BY RecordOfMain, RecordOfInit DEF CtrlType
<1>2. i.done
  BY <1>1 DEF Machines, Initialising, BothNop
<1>3. Running
  BY <1>2 DEF Machines
<1>4. m.state = "wait" /\ m.next \in {"rd", "wr"}
  BY <1>1, <1>3 DEF Running, Kind
<1>5. active # <<>> /\ m.addr = active[1].row
  BY <1>3, <1>4 DEF Running
<1> QED
  BY <1>5, ActiveType

(***************************************************************************)
(* The controller keeps its invariant whatever its port is offered.         *)
(***************************************************************************)
ReadLeaves == m'.cmd = "rd" => Rest # <<>> /\ ~Head(Rest).wr
TodoMoves(offer) == todo' = Cat(Rest, Accepted(offer))
(* One clock of the controller keeps its invariant, whatever is offered.     *)
LEMMA CtrlStep ==
    ASSUME Times, CtrlInv, NEW offer, AtMostOneOf(Request, offer), CtrlEdge(offer)
    PROVE  CtrlInv' /\ ReadLeaves /\ TodoMoves(offer) /\ AtMostOneOf(Request, Accepted(offer))
<1>1. /\ CtrlType /\ Machines /\ InTime /\ DataPins /\ Requests /\ InitFsm /\ Main /\ Chip
      /\ oe' = (m.state = "wr" /\ ~(f_pop /\ ~pending))
      /\ rd_valid' = <<IF m.cmd = "rd" THEN <<Head(todo).port>> ELSE <<>>,
                       rd_valid[1], rd_valid[2], rd_valid[3]>>
  BY DEF CtrlInv, CtrlEdge
<1>2. TodoMoves(offer)
  BY DEF CtrlEdge, TodoMoves, Cat, Rest, Accepted
<1>3. ChipMoves
  BY <1>1, ActHasRow, ChipStep
<1>4. EntriesMove(offer)
  BY <1>1, EntriesStep
<1>5. Machines' /\ InTime'
  BY <1>1, <1>3, <1>4, MachinesStep
<1>6. DataPins'
  BY <1>1, DataPinsStep
<1>7. Requests' /\ todo' \in Seq(Request) /\ ReadLeaves
  BY <1>1, <1>2, <1>3, <1>4, RequestsStep DEF TodoMoves, ReadLeaves
<1>8. CtrlType'
  <2>1. m' \in MainType /\ AtMostOneOf(Request, active') /\ f_pop' \in BOOLEAN
    BY <1>1, MainTypes
  <2>2. ref' \in CounterType /\ ref'.counter <= Limit
    BY <1>1, RefTypes
  <2>3. i' \in InitType
    BY <1>1, InitFsmType DEF CtrlType
  <2>4. DOMAIN rd_valid' = 1 .. 4 /\ \A n \in 1 .. 4 : AtMostOneOf(Port, rd_valid'[n])
    <3>1. m.cmd = "rd" => Head(todo) \in Request
      BY <1>1 DEF Requests, CommandsFollowRequests, column, CtrlType
    <3>2. m.cmd = "rd" => Head(todo).port \in Port
      BY <3>1, RequestFields
    <3>3. AtMostOneOf(Port, IF m.cmd = "rd" THEN <<Head(todo).port>> ELSE <<>>)
      BY <3>2 DEF AtMostOneOf
    <3>4. AtMostOneOf(Port, rd_valid[1]) /\ AtMostOneOf(Port, rd_valid[2]) /\ AtMostOneOf(Port, rd_valid[3])
      BY <1>1 DEF CtrlType
    <3> DEFINE f == IF m.cmd = "rd" THEN <<Head(todo).port>> ELSE <<>>
    <3>5. rd_valid' = <<f, rd_valid[1], rd_valid[2], rd_valid[3]>>
      BY <1>1
    <3> HIDE DEF f
    <3>6. DOMAIN rd_valid' = 1 .. 4 /\ rd_valid'[1] = f /\ rd_valid'[2] = rd_valid[1]
          /\ rd_valid'[3] = rd_valid[2] /\ rd_valid'[4] = rd_valid[3]
      BY <3>5
    <3>7. AtMostOneOf(Port, f)
      BY <3>3 DEF f
    <3>8. ASSUME NEW n \in 1 .. 4 PROVE AtMostOneOf(Port, rd_valid'[n])
      <4>1. n = 1 \/ n = 2 \/ n = 3 \/ n = 4
        OBVIOUS
      <4> QED
        BY <3>4, <3>6, <3>7, <4>1
    <3> QED
      BY <3>6, <3>8
  <2>5. Limit' = Limit /\ MainType' = MainType /\ InitType' = InitType /\ CounterType' = CounterType
        /\ ChipType' = ChipType /\ Request' = Request
    BY DEF Limit, MainType, InitType, CounterType, ChipType, Request, Commands
  <2> QED
    BY <1>1, <1>3, <1>4, <1>7, <2>1, <2>2, <2>3, <2>4 DEF CtrlType, ChipMoves, EntriesMove
<1>9. AtMostOneOf(Request, Accepted(offer))
  BY <1>4 DEF EntriesMove
<1> QED
  BY <1>2, <1>5, <1>6, <1>7, <1>8, <1>9 DEF CtrlInv

LEMMA CtrlInit ==
    ASSUME InitCtrl
    PROVE  CtrlInv
<1>1. {POWER_UP, REFRESH} \subseteq Nat /\ Bank # {}
  BY SdramAssumption
<1>2. <<>> \in Seq(Request) /\ (CHOOSE b \in Bank : TRUE) \in Bank
  BY <1>1
<1>3. CtrlType
  <2>1. ref \in CounterType /\ ref.counter <= Limit
    BY <1>1 DEF InitCtrl, CounterType, Limit
  <2>2. i \in InitType
    BY DEF InitCtrl, InitType, Commands
  <2>3. m \in MainType
    <3> DEFINE b == CHOOSE b \in Bank : TRUE
    <3>1. m = [state |-> "idle", next |-> "idle", count |-> 0, cmd |-> "nop", bank |-> b, addr |-> "all"]
      BY DEF InitCtrl
    <3>2. b \in Bank
      BY <1>2
    <3> HIDE DEF b
    <3> QED
      BY <3>1, <3>2 DEF MainType, Commands
  <2>4. chip \in ChipType
    BY DEF InitCtrl, ChipType
  <2>5. DOMAIN rd_valid = 1 .. 4 /\ \A n \in 1 .. 4 : AtMostOneOf(Port, rd_valid[n])
    BY DEF InitCtrl, AtMostOneOf
  <2>6. entries = <<>> /\ todo = <<>> /\ ~f_pop /\ active = <<>> /\ oe = FALSE /\ f_pop = FALSE
    BY DEF InitCtrl
  <2>7. entries \in Seq(Request) /\ Len(entries) <= 2 /\ todo \in Seq(Request)
        /\ f_pop \in BOOLEAN /\ AtMostOneOf(Request, active) /\ oe \in BOOLEAN
    <3>1. entries \in Seq(Request) /\ todo \in Seq(Request) /\ Len(entries) <= 2
      BY <1>2, <2>6
    <3>2. AtMostOneOf(Request, active)
      BY <2>6 DEF AtMostOneOf
    <3> QED
      BY <2>6, <3>1, <3>2
  <2> QED
    BY <2>1, <2>2, <2>3, <2>4, <2>5, <2>7 DEF CtrlType
<1>4. Machines /\ InTime
  BY DEF InitCtrl, Machines, Initialising, BothNop, Closed, InTime
<1>5. DataPins
  BY DEF InitCtrl, DataPins
<1>6. Requests
  <2>1. ~column /\ Armed = <<>> /\ entries = <<>> /\ todo = <<>>
    BY DEF InitCtrl, column, Armed
  <2>2. Cat(<<>>, <<>>) = <<>>
    BY <1>2, CatFacts
  <2> QED
    BY <2>1, <2>2 DEF Requests, CommandsFollowRequests, Rest
<1> QED
  BY <1>3, <1>4, <1>5, <1>6 DEF CtrlInv

(* The invariant gives the rules of the chip.                                *)
LEMMA CtrlObeys ==
    ASSUME CtrlInv
    PROVE  SdramObeys /\ TypeOK
<1>1. CtrlType /\ Machines /\ InTime /\ DataPins /\ Requests
  BY DEF CtrlInv
<1>2. /\ m.state \in {"idle", "ras", "wait", "rd", "wr", "rec", "pre", "ref", "spin"}
      /\ m.next \in {"idle", "ref", "rd", "wr"} /\ m.count \in 0 .. 7 /\ m.cmd \in Commands
      /\ m.bank \in Bank /\ m.addr \in Row \cup Col \cup {"all"}
      /\ i.state \in {"count", "pre", "refresh", "wait", "mode", "ready"}
      /\ i.next \in {"count", "refresh", "mode", "ready"} /\ i.count \in 0 .. 7
      /\ chip.busy \in Nat /\ ref.counter \in Nat
  BY <1>1, RecordOfMain, RecordOfInit DEF CtrlType, ChipType, CounterType
<1>3. ChipReady
  <2>1. CASE i.done
    BY <1>1, <1>2, <2>1 DEF Machines, Running, Kind, ChipReady, Closed
  <2>2. CASE ~i.done
    BY <1>1, <1>2, <2>2 DEF Machines, Initialising, BothNop, ChipReady, Closed
  <2> QED
    BY <2>1, <2>2
<1>4. DataPinsHaveOneDriver
  BY <1>1 DEF DataPins, DataPinsHaveOneDriver
<1>5. RefreshesKeepUp
  <2>1. ref.request => 1 <= ref.counter
    BY <1>1, <1>2 DEF InTime, Deadline
  <2> QED
    BY <1>2, <2>1 DEF RefreshesKeepUp
<1>6. TypeOK
  <2>1. entries \in Seq(Request) /\ Len(entries) <= 2 /\ chip.open \in [Bank -> Row \cup {"closed"}]
    BY <1>1 DEF CtrlType, ChipType
  <2>2. \A n \in DOMAIN entries : entries[n] \in Request
    BY <2>1
  <2>3. ref.counter \in 0 .. Limit
    <3>1. Limit \in Nat /\ ref.counter <= Limit
      BY <1>1, SdramAssumption DEF CtrlType, Limit
    <3> QED
      BY <1>2, <3>1
  <2> QED
    BY <1>2, <2>1, <2>2, <2>3 DEF TypeOK, Limit, Commands
<1> QED
  BY <1>1, <1>3, <1>4, <1>5, <1>6 DEF SdramObeys, ChipRulesKept, Requests

-----------------------------------------------------------------------------
(***************************************************************************)
(* The arbiter: the queue of ports and the reads on their way.              *)
(***************************************************************************)
(* The port of the n-th of the requests s when it is a read; the ports of    *)
(* the reads among them; the reads in the chip and their number.             *)
ReadPort(s, n) == IF n <= Len(s) /\ ~s[n].wr THEN <<s[n].port>> ELSE <<>>
ReadPorts(s) == Cat(ReadPort(s, 1), Cat(ReadPort(s, 2), Cat(ReadPort(s, 3), ReadPort(s, 4))))
OnTheWay == Cat(rd_valid[4], Cat(rd_valid[3], Cat(rd_valid[2], rd_valid[1])))
Under == (Num(rd_valid[1] # <<>>) + Num(rd_valid[2] # <<>>)) + (Num(rd_valid[3] # <<>>) + Num(rd_valid[4] # <<>>))

(* The queue of ports, with the port that is still to be queued, is the      *)
(* ports of the reads in the order they were granted; it is deep enough in   *)
(* its registers for the answers that are near.                              *)
ArbiterInv ==
    /\ ErShape(route, Port) /\ AtMostOneOf(Port, route_s) /\ AtMostOneOf(Request, sdram_req_m)
    /\ Cat(FifoWords(route), route_s) = Cat(OnTheWay, Cat(ReadPorts(todo), ReadPort(sdram_req_m, 1)))
    /\ route_s # <<>> => route_s = ReadPort(sdram_req_m, 1)
    /\ route.res = <<>> => Under = 0
    /\ route.bram = <<>> => Under + Num(m.cmd = "rd") <= Len(route.res)

LEMMA ReadPortType ==
    ASSUME NEW s \in Seq(Request), NEW n \in 1 .. 4
    PROVE  ReadPort(s, n) \in Seq(Port) /\ AtMostOneOf(Port, ReadPort(s, n))
<1>1. CASE n <= Len(s)
  <2>1. s[n] \in Request
    BY <1>1
  <2>2. s[n].port \in Port
    BY <2>1, RequestFields
  <2>3. AtMostOneOf(Port, ReadPort(s, n))
    BY <2>2 DEF ReadPort, AtMostOneOf
  <2> QED
    BY <2>3, OneIsSeq
<1>2. CASE ~(n <= Len(s))
  BY <1>2, OneIsSeq DEF ReadPort, AtMostOneOf
<1> QED
  BY <1>1, <1>2

LEMMA ReadPortsType ==
    ASSUME NEW s \in Seq(Request)
    PROVE  ReadPorts(s) \in Seq(Port)
<1>1. /\ ReadPort(s, 1) \in Seq(Port) /\ ReadPort(s, 2) \in Seq(Port)
      /\ ReadPort(s, 3) \in Seq(Port) /\ ReadPort(s, 4) \in Seq(Port)
  BY ReadPortType
<1> DEFINE a == ReadPort(s, 1)
           b == ReadPort(s, 2)
           c == ReadPort(s, 3)
           d == ReadPort(s, 4)
<1>2. a \in Seq(Port) /\ b \in Seq(Port) /\ c \in Seq(Port) /\ d \in Seq(Port)
  BY <1>1
<1>3. ReadPorts(s) = Cat(a, Cat(b, Cat(c, d)))
  BY DEF ReadPorts
<1> HIDE DEF a, b, c, d
<1>4. \A x, y \in Seq(Port) : Cat(x, y) \in Seq(Port)
  BY CatFacts
<1> QED
  BY <1>2, <1>3, <1>4

(* The ports of the reads, when the first request leaves.                    *)
LEMMA ReadsLeave ==
    ASSUME NEW s \in Seq(Request), s # <<>>, Len(s) <= 4
    PROVE  /\ ReadPorts(s) = Cat(ReadPort(s, 1), ReadPorts(Tail(s)))
           /\ ReadPort(Tail(s), 1) = ReadPort(s, 2) /\ ReadPort(Tail(s), 2) = ReadPort(s, 3)
           /\ ReadPort(Tail(s), 3) = ReadPort(s, 4) /\ ReadPort(Tail(s), 4) = <<>>
<1> DEFINE t == Tail(s)
<1>1. t \in Seq(Request) /\ Len(t) = Len(s) - 1 /\ \A n \in 1 .. Len(t) : t[n] = s[n + 1]
  BY HeadTailProperties
<1>2. Len(s) \in 1 .. 4
  <2> DEFINE l == Len(s)
  <2>1. l \in Nat /\ l # 0 /\ l <= 4
    OBVIOUS
  <2> HIDE DEF l
  <2>2. l \in 1 .. 4
    BY <2>1
  <2> QED
    BY <2>2 DEF l
<1> HIDE DEF t
<1>3. ASSUME NEW n \in 1 .. 3 PROVE ReadPort(t, n) = ReadPort(s, n + 1)
  <2>1. n <= Len(t) <=> n + 1 <= Len(s)
    BY <1>1, <1>2
  <2>2. n <= Len(t) => t[n] = s[n + 1]
    BY <1>1, <1>2
  <2> QED
    BY <2>1, <2>2 DEF ReadPort
<1>4. ReadPort(t, 1) = ReadPort(s, 2) /\ ReadPort(t, 2) = ReadPort(s, 3) /\ ReadPort(t, 3) = ReadPort(s, 4)
  <2>1. ReadPort(t, 1) = ReadPort(s, 1 + 1) /\ ReadPort(t, 2) = ReadPort(s, 2 + 1) /\ ReadPort(t, 3) = ReadPort(s, 3 + 1)
    BY <1>3
  <2>2. 1 + 1 = 2 /\ 2 + 1 = 3 /\ 3 + 1 = 4
    OBVIOUS
  <2> QED
    BY <2>1, <2>2
<1>5. ReadPort(t, 4) = <<>>
  BY <1>1, <1>2 DEF ReadPort
<1>6. ReadPort(s, 4) \in Seq(Port)
  BY ReadPortType
<1>7. Cat(ReadPort(s, 4), <<>>) = ReadPort(s, 4)
  BY <1>6, CatFacts
<1>8. ReadPorts(t) = Cat(ReadPort(s, 2), Cat(ReadPort(s, 3), ReadPort(s, 4)))
  BY <1>4, <1>5, <1>7 DEF ReadPorts
<1> QED
  BY <1>4, <1>5, <1>8 DEF ReadPorts, t

(* When a request follows.                                                   *)
ReadJoins(s, r, a, n) == ReadPort(r, n) = IF n <= Len(s) THEN ReadPort(s, n)
                                          ELSE IF n = Len(s) + 1 THEN ReadPort(a, 1) ELSE <<>>
LEMMA ReadsJoin ==
    ASSUME NEW s \in Seq(Request), Len(s) <= 3, NEW a, AtMostOneOf(Request, a),
           NEW r, r = Cat(s, a)
    PROVE  /\ ReadPorts(r) = Cat(ReadPorts(s), ReadPort(a, 1))
           /\ ReadJoins(s, r, a, 1) /\ ReadJoins(s, r, a, 2) /\ ReadJoins(s, r, a, 3) /\ ReadJoins(s, r, a, 4)
<1>1. a \in Seq(Request) /\ Len(a) = Num(a # <<>>) /\ Len(a) \in 0 .. 1
  BY OneIsSeq DEF Num
<1>2. /\ r \in Seq(Request) /\ Len(r) = Len(s) + Len(a)
      /\ \A n \in 1 .. Len(s) + Len(a) : r[n] = IF n <= Len(s) THEN s[n] ELSE a[n - Len(s)]
  BY <1>1, ConcatProperties DEF Cat
<1>3. Len(s) \in 0 .. 3
  <2> DEFINE l == Len(s)
  <2>1. l \in Nat /\ l <= 3
    OBVIOUS
  <2> HIDE DEF l
  <2>2. l \in 0 .. 3
    BY <2>1
  <2> QED
    BY <2>2 DEF l
<1>4. ASSUME NEW n \in 1 .. 4 PROVE ReadJoins(s, r, a, n)
  <2>1. CASE n <= Len(s)
    <3>1. n <= Len(r) /\ r[n] = s[n]
      BY <1>1, <1>2, <1>3, <2>1
    <3> QED
      BY <2>1, <3>1 DEF ReadJoins, ReadPort
  <2>2. CASE n = Len(s) + 1
    <3>1. n <= Len(r) <=> 1 <= Len(a)
      BY <1>1, <1>2, <1>3, <2>2
    <3>2. 1 <= Len(a) => r[n] = a[1]
      BY <1>1, <1>2, <1>3, <2>2
    <3>3. ReadPort(r, n) = ReadPort(a, 1)
      BY <3>1, <3>2 DEF ReadPort
    <3> QED
      BY <1>3, <2>2, <3>3 DEF ReadJoins
  <2>3. CASE n > Len(s) + 1
    <3>1. ~(n <= Len(r))
      BY <1>1, <1>2, <1>3, <2>3
    <3> QED
      BY <1>3, <2>3, <3>1 DEF ReadJoins, ReadPort
  <2> QED
    BY <1>3, <2>1, <2>2, <2>3
<1>5. ReadJoins(s, r, a, 1) /\ ReadJoins(s, r, a, 2) /\ ReadJoins(s, r, a, 3) /\ ReadJoins(s, r, a, 4)
  BY <1>4
<1> DEFINE p == ReadPort(s, 1)
           q == ReadPort(s, 2)
           u == ReadPort(s, 3)
           v == ReadPort(s, 4)
           e == ReadPort(a, 1)
<1>6. p \in Seq(Port) /\ q \in Seq(Port) /\ u \in Seq(Port) /\ v \in Seq(Port) /\ e \in Seq(Port) /\ <<>> \in Seq(Port)
  BY <1>1, ReadPortType
<1>7. ReadPorts(s) = Cat(p, Cat(q, Cat(u, v)))
  BY DEF ReadPorts
<1>8. /\ v = <<>> /\ (Len(s) <= 2 => u = <<>>) /\ (Len(s) <= 1 => q = <<>>) /\ (Len(s) = 0 => p = <<>>)
  BY <1>3 DEF ReadPort
<1> DEFINE P == ReadPort(r, 1)
           Q == ReadPort(r, 2)
           U == ReadPort(r, 3)
           V == ReadPort(r, 4)
<1>9. ReadPorts(r) = Cat(P, Cat(Q, Cat(U, V)))
  BY DEF ReadPorts
<1>10. /\ P = (IF 1 <= Len(s) THEN p ELSE IF 1 = Len(s) + 1 THEN e ELSE <<>>)
       /\ Q = (IF 2 <= Len(s) THEN q ELSE IF 2 = Len(s) + 1 THEN e ELSE <<>>)
       /\ U = (IF 3 <= Len(s) THEN u ELSE IF 3 = Len(s) + 1 THEN e ELSE <<>>)
       /\ V = (IF 4 <= Len(s) THEN v ELSE IF 4 = Len(s) + 1 THEN e ELSE <<>>)
  BY <1>5 DEF ReadJoins
<1> HIDE DEF p, q, u, v, e, P, Q, U, V
<1>11. /\ \A x, y \in Seq(Port) : Cat(x, y) \in Seq(Port)
       /\ \A x \in Seq(Port) : Cat(<<>>, x) = x /\ Cat(x, <<>>) = x
       /\ \A x, y, z \in Seq(Port) : Cat(Cat(x, y), z) = Cat(x, Cat(y, z))
  BY CatFacts
<1>12. Cat(P, Cat(Q, Cat(U, V))) = Cat(Cat(p, Cat(q, Cat(u, v))), e)
  <2>1. CASE Len(s) = 0
    <3>1. P = e /\ Q = <<>> /\ U = <<>> /\ V = <<>> /\ p = <<>> /\ q = <<>> /\ u = <<>> /\ v = <<>>
      BY <1>8, <1>10, <2>1
    <3>2. Cat(<<>>, <<>>) = <<>> /\ Cat(e, <<>>) = e /\ Cat(<<>>, e) = e
      BY <1>6, <1>11
    <3> QED
      BY <3>1, <3>2
  <2>2. CASE Len(s) = 1
    <3>1. P = p /\ Q = e /\ U = <<>> /\ V = <<>> /\ q = <<>> /\ u = <<>> /\ v = <<>>
      BY <1>8, <1>10, <2>2
    <3>2. Cat(<<>>, <<>>) = <<>> /\ Cat(e, <<>>) = e /\ Cat(p, <<>>) = p
      BY <1>6, <1>11
    <3> QED
      BY <3>1, <3>2
  <2>3. CASE Len(s) = 2
    <3>1. P = p /\ Q = q /\ U = e /\ V = <<>> /\ u = <<>> /\ v = <<>>
      BY <1>8, <1>10, <2>3
    <3>2. Cat(<<>>, <<>>) = <<>> /\ Cat(e, <<>>) = e /\ Cat(q, <<>>) = q /\ Cat(Cat(p, q), e) = Cat(p, Cat(q, e))
      BY <1>6, <1>11
    <3> QED
      BY <3>1, <3>2
  <2>4. CASE Len(s) = 3
    <3>1. P = p /\ Q = q /\ U = u /\ V = e /\ v = <<>>
      BY <1>8, <1>10, <2>4
    <3>2. Cat(Cat(p, Cat(q, u)), e) = Cat(p, Cat(Cat(q, u), e)) /\ Cat(Cat(q, u), e) = Cat(q, Cat(u, e))
      BY <1>6, <1>11
    <3> QED
      BY <1>6, <1>11, <3>1, <3>2
  <2> QED
    BY <1>3, <2>1, <2>2, <2>3, <2>4
<1> QED
  BY <1>5, <1>7, <1>9, <1>12 DEF e

(* The word of a read that the chip gets.                                    *)
Issued == IF m.cmd = "rd" THEN <<Head(todo).port>> ELSE <<>>

(* Reads of the CPU: under way in the chip, at the controller, and on the    *)
(* way to it.                                                                *)
Ps(o) == Num(o = <<"ps">>)
PsUnder == (Ps(rd_valid[1]) + Ps(rd_valid[2])) + (Ps(rd_valid[3]) + Ps(rd_valid[4]))
PsTodo(s) == (Ps(ReadPort(s, 1)) + Ps(ReadPort(s, 2))) + (Ps(ReadPort(s, 3)) + Ps(ReadPort(s, 4)))
PsAll == (PsUnder + PsTodo(todo)) + (Ps(ReadPort(sdram_req_m, 1)) + Ps(ReadPort(sdram_req, 1)))

PathMoves(acc) ==
    /\ rd_valid' = <<Issued, rd_valid[1], rd_valid[2], rd_valid[3]>>
    /\ AtMostOneOf(Port, Issued) /\ (Issued # <<>> <=> m.cmd = "rd")
    /\ Rest \in Seq(Request) /\ Len(Rest) <= 3
    /\ ReadPorts(todo) = Cat(Issued, ReadPorts(Rest))
    /\ ReadPorts(todo') = Cat(ReadPorts(Rest), ReadPort(acc, 1))
    /\ PsTodo(todo) = Ps(Issued) + PsTodo(Rest)
    /\ PsTodo(todo') = PsTodo(Rest) + Ps(ReadPort(acc, 1))
    /\ m'.cmd = "rd" => Len(ReadPorts(Rest)) >= 1

(* The reads of the controller, as one edge moves them.                      *)
LEMMA PathStep ==
    ASSUME CtrlInv, NEW offer, CtrlEdge(offer),
           TodoMoves(offer), AtMostOneOf(Request, Accepted(offer)), ReadLeaves
    PROVE  PathMoves(Accepted(offer))
<1> DEFINE acc == Accepted(offer)
<1>1. /\ CtrlType /\ Requests /\ todo \in Seq(Request)
      /\ rd_valid' = <<Issued, rd_valid[1], rd_valid[2], rd_valid[3]>>
  BY DEF CtrlInv, CtrlEdge, Issued, CtrlType
<1>2. Rest = Cat(Armed, entries) /\ entries \in Seq(Request) /\ Len(entries) <= 2 /\ AtMostOneOf(Request, Armed)
  BY <1>1 DEF Requests, CtrlType, Armed, AtMostOneOf
<1>3. Rest \in Seq(Request) /\ Len(Rest) <= 3
  <2>1. Armed \in Seq(Request) /\ Len(Armed) = Num(Armed # <<>>)
    BY <1>2, OneIsSeq
  <2>2. Cat(Armed, entries) \in Seq(Request) /\ Len(Cat(Armed, entries)) = Len(Armed) + Len(entries)
    BY <1>2, <2>1, CatFacts
  <2> DEFINE a == Len(Armed)
             b == Len(entries)
             c == Len(Rest)
  <2>3. c = a + b /\ a \in 0 .. 1 /\ b \in Nat /\ b <= 2
    BY <1>2, <2>1, <2>2 DEF Num
  <2> HIDE DEF a, b, c
  <2>4. c <= 3
    BY <2>3
  <2> QED
    BY <1>2, <2>2, <2>4 DEF c
<1>4. Issued # <<>> <=> m.cmd = "rd"
  BY DEF Issued
<1>5. /\ AtMostOneOf(Port, Issued)
      /\ ReadPorts(todo) = Cat(Issued, ReadPorts(Rest))
      /\ PsTodo(todo) = Ps(Issued) + PsTodo(Rest)
  <2>1. CASE ~column
    <3>1. Rest = todo /\ Issued = <<>>
      BY <2>1 DEF Rest, Issued, column
    <3>2. ReadPorts(todo) \in Seq(Port)
      BY <1>1, ReadPortsType
    <3>3. Cat(<<>>, ReadPorts(todo)) = ReadPorts(todo)
      BY <3>2, CatFacts
    <3>4. PsTodo(todo) = 0 + PsTodo(todo) /\ Ps(<<>>) = 0
      <4>1. PsTodo(todo) \in Nat
        BY DEF PsTodo, Ps, Num
      <4> QED
        BY <4>1 DEF Ps, Num
    <3> QED
      BY <3>1, <3>3, <3>4 DEF AtMostOneOf
  <2>2. CASE column
    <3>1. todo # <<>> /\ Rest = Tail(todo) /\ ((m.cmd = "wr") = Head(todo).wr) /\ Head(todo) \in Request
      BY <1>1, <2>2 DEF Requests, CommandsFollowRequests, Rest
    <3>2. Len(todo) <= 4
      <4>1. Len(Rest) = Len(todo) - 1
        BY <1>1, <3>1, HeadTailProperties
      <4> DEFINE a == Len(Rest)
                 b == Len(todo)
      <4>2. a \in Nat /\ b \in Nat /\ a = b - 1 /\ a <= 3
        BY <1>1, <1>3, <4>1
      <4> HIDE DEF a, b
      <4>3. b <= 4
        BY <4>2
      <4> QED
        BY <4>3 DEF b
    <3>3. Issued = ReadPort(todo, 1)
      <4>1. 1 <= Len(todo) /\ todo[1] = Head(todo) /\ Head(todo).wr \in BOOLEAN
        BY <1>1, <3>1, RequestFields
      <4>2. m.cmd = "rd" <=> ~Head(todo).wr
        BY <2>2, <3>1, <4>1 DEF column
      <4> QED
        BY <4>1, <4>2 DEF Issued, ReadPort
    <3>4. AtMostOneOf(Port, ReadPort(todo, 1))
      BY <1>1, ReadPortType
    <3>5. /\ ReadPorts(todo) = Cat(ReadPort(todo, 1), ReadPorts(Rest))
          /\ ReadPort(Rest, 1) = ReadPort(todo, 2) /\ ReadPort(Rest, 2) = ReadPort(todo, 3)
          /\ ReadPort(Rest, 3) = ReadPort(todo, 4) /\ ReadPort(Rest, 4) = <<>>
      BY <1>1, <3>1, <3>2, ReadsLeave
    <3>6. PsTodo(todo) = Ps(ReadPort(todo, 1)) + PsTodo(Rest)
      BY <3>5 DEF PsTodo, Ps, Num
    <3> QED
      BY <3>3, <3>4, <3>5, <3>6
  <2> QED
    BY <2>1, <2>2
<1>6. /\ ReadPorts(todo') = Cat(ReadPorts(Rest), ReadPort(acc, 1))
      /\ PsTodo(todo') = PsTodo(Rest) + Ps(ReadPort(acc, 1))
  <2>1. todo' = Cat(Rest, acc)
    BY DEF TodoMoves
  <2> DEFINE r == todo'
  <2>2. r = Cat(Rest, acc)
    BY <2>1
  <2> HIDE DEF r, acc
  <2>3. AtMostOneOf(Request, acc)
    BY DEF acc
  <2>4. /\ ReadPorts(r) = Cat(ReadPorts(Rest), ReadPort(acc, 1))
        /\ ReadJoins(Rest, r, acc, 1) /\ ReadJoins(Rest, r, acc, 2)
        /\ ReadJoins(Rest, r, acc, 3) /\ ReadJoins(Rest, r, acc, 4)
    BY <1>3, <2>2, <2>3, ReadsJoin
  <2>5. PsTodo(r) = PsTodo(Rest) + Ps(ReadPort(acc, 1))
    <3> DEFINE l == Len(Rest)
               e == ReadPort(acc, 1)
               p(n) == ReadPort(Rest, n)
    <3>1. l \in 0 .. 3
      <4>1. l \in Nat /\ l <= 3
        BY <1>3
      <4> HIDE DEF l
      <4> QED
        BY <4>1
    <3>2. /\ ReadPort(r, 1) = (IF 1 <= l THEN p(1) ELSE IF 1 = l + 1 THEN e ELSE <<>>)
          /\ ReadPort(r, 2) = (IF 2 <= l THEN p(2) ELSE IF 2 = l + 1 THEN e ELSE <<>>)
          /\ ReadPort(r, 3) = (IF 3 <= l THEN p(3) ELSE IF 3 = l + 1 THEN e ELSE <<>>)
          /\ ReadPort(r, 4) = (IF 4 <= l THEN p(4) ELSE IF 4 = l + 1 THEN e ELSE <<>>)
      BY <2>4 DEF ReadJoins
    <3>3. (l < 1 => p(1) = <<>>) /\ (l < 2 => p(2) = <<>>) /\ (l < 3 => p(3) = <<>>) /\ p(4) = <<>>
      BY <3>1 DEF ReadPort
    <3>4. Ps(<<>>) = 0
      BY DEF Ps, Num
    <3>5. Ps(e) \in Nat /\ Ps(p(1)) \in Nat /\ Ps(p(2)) \in Nat /\ Ps(p(3)) \in Nat /\ Ps(p(4)) \in Nat
      BY DEF Ps, Num
    <3> DEFINE n1 == Ps(ReadPort(r, 1))
               n2 == Ps(ReadPort(r, 2))
               n3 == Ps(ReadPort(r, 3))
               n4 == Ps(ReadPort(r, 4))
               p1 == Ps(p(1))
               p2 == Ps(p(2))
               p3 == Ps(p(3))
               p4 == Ps(p(4))
               pe == Ps(e)
    <3>6. /\ n1 = (IF 1 <= l THEN p1 ELSE IF 1 = l + 1 THEN pe ELSE 0) /\ (l < 1 => p1 = 0)
          /\ n2 = (IF 2 <= l THEN p2 ELSE IF 2 = l + 1 THEN pe ELSE 0) /\ (l < 2 => p2 = 0)
          /\ n3 = (IF 3 <= l THEN p3 ELSE IF 3 = l + 1 THEN pe ELSE 0) /\ (l < 3 => p3 = 0)
          /\ n4 = (IF 4 <= l THEN p4 ELSE IF 4 = l + 1 THEN pe ELSE 0) /\ p4 = 0
      <4> HIDE DEF l, e, p
      <4> QED
        BY <3>2, <3>3, <3>4
    <3> HIDE DEF n1, n2, n3, n4, p1, p2, p3, p4, pe, l
    <3>7. (n1 + n2) + (n3 + n4) = ((p1 + p2) + (p3 + p4)) + pe
      <4>1. pe \in Nat /\ p1 \in Nat /\ p2 \in Nat /\ p3 \in Nat
        BY <3>5 DEF p1, p2, p3, pe
      <4> QED
        BY <3>1, <3>6, <4>1
    <3> QED
      BY <3>7 DEF PsTodo, n1, n2, n3, n4, p1, p2, p3, p4, pe
  <2> QED
    BY <2>4, <2>5 DEF r
<1>7. ASSUME m'.cmd = "rd" PROVE Len(ReadPorts(Rest)) >= 1
  <2>1. Rest # <<>> /\ ~Head(Rest).wr
    BY <1>7 DEF ReadLeaves
  <2>2. ReadPort(Rest, 1) = <<Head(Rest).port>> /\ Head(Rest) \in Request
    BY <1>3, <2>1 DEF ReadPort
  <2>3. ReadPorts(Rest) = Cat(<<Head(Rest).port>>, ReadPorts(Tail(Rest)))
    <3>1. Len(Rest) <= 4
      BY <1>3
    <3> QED
      BY <1>3, <2>1, <2>2, <3>1, ReadsLeave
  <2>4. Head(Rest).port \in Port /\ ReadPorts(Tail(Rest)) \in Seq(Port)
    <3>1. Tail(Rest) \in Seq(Request)
      BY <1>3, <2>1
    <3> QED
      BY <2>2, <3>1, RequestFields, ReadPortsType
  <2>5. ReadPorts(Rest) # <<>> /\ ReadPorts(Rest) \in Seq(Port)
    BY <2>3, <2>4, FirstWord DEF Cat
  <2> DEFINE w == ReadPorts(Rest)
  <2> HIDE DEF w
  <2>6. w \in Seq(Port) /\ w # <<>>
    BY <2>5 DEF w
  <2>7. Len(w) >= 1
    BY <2>6
  <2> QED
    BY <2>7 DEF w
<1> QED
  BY <1>1, <1>3, <1>4, <1>5, <1>6, <1>7 DEF PathMoves

(* The path of a read: z leaves the chip, x enters it, e enters the          *)
(* controller and h the arbiter; w and t are the queue of ports.             *)
AreWords(S, z, p, x, r, e, k, h, w, t) ==
    /\ z \in Seq(S) /\ p \in Seq(S) /\ x \in Seq(S) /\ r \in Seq(S) /\ e \in Seq(S) /\ k \in Seq(S)
    /\ h \in Seq(S) /\ w \in Seq(S) /\ t \in Seq(S)
    /\ Cat(w, t) = Cat(Cat(z, p), Cat(Cat(x, r), Cat(e, k)))

LEMMA PathWords ==
    ASSUME NEW S, NEW z, NEW p, NEW x, NEW r, NEW e, NEW k, NEW h, NEW w, NEW t,
           AreWords(S, z, p, x, r, e, k, h, w, t)
    PROVE  Cat(Cat(w, t), h) = Cat(z, Cat(Cat(p, x), Cat(Cat(r, e), Cat(k, h))))
<1>0. /\ z \in Seq(S) /\ p \in Seq(S) /\ x \in Seq(S) /\ r \in Seq(S) /\ e \in Seq(S) /\ k \in Seq(S)
      /\ h \in Seq(S) /\ w \in Seq(S) /\ t \in Seq(S)
      /\ Cat(w, t) = Cat(Cat(z, p), Cat(Cat(x, r), Cat(e, k)))
  BY DEF AreWords
<1>1. /\ \A a, b \in Seq(S) : Cat(a, b) \in Seq(S)
      /\ \A a, b, c \in Seq(S) : Cat(Cat(a, b), c) = Cat(a, Cat(b, c))
  BY CatFacts
<1> DEFINE tail == Cat(e, Cat(k, h))
           rest == Cat(r, tail)
           more == Cat(x, rest)
<1>2. tail \in Seq(S) /\ rest \in Seq(S) /\ more \in Seq(S)
  BY <1>0, <1>1
<1>3. Cat(k, h) \in Seq(S) /\ Cat(e, k) \in Seq(S) /\ Cat(x, r) \in Seq(S) /\ Cat(z, p) \in Seq(S)
      /\ Cat(p, x) \in Seq(S) /\ Cat(r, e) \in Seq(S)
  BY <1>0, <1>1
<1>4. Cat(Cat(e, k), h) = tail /\ Cat(Cat(x, r), tail) = more /\ Cat(Cat(r, e), Cat(k, h)) = rest
  BY <1>0, <1>1, <1>2, <1>3
<1>5. Cat(Cat(Cat(x, r), Cat(e, k)), h) = more
  BY <1>0, <1>1, <1>3, <1>4
<1>6. Cat(Cat(Cat(z, p), Cat(Cat(x, r), Cat(e, k))), h) = Cat(Cat(z, p), more)
  <2> DEFINE a == Cat(z, p)
             b == Cat(Cat(x, r), Cat(e, k))
  <2>1. a \in Seq(S) /\ b \in Seq(S) /\ Cat(b, h) = more
    BY <1>0, <1>1, <1>3, <1>5
  <2> HIDE DEF a, b, more
  <2>2. Cat(Cat(a, b), h) = Cat(a, Cat(b, h))
    BY <1>0, <1>1, <2>1
  <2> QED
    BY <2>1, <2>2 DEF a, b
<1> HIDE DEF more, rest, tail
<1>7. Cat(Cat(z, p), more) = Cat(z, Cat(p, more))
  BY <1>0, <1>1, <1>2
<1>8. Cat(Cat(p, x), rest) = Cat(p, more)
  BY <1>0, <1>1, <1>2 DEF more
<1> QED
  BY <1>0, <1>4, <1>6, <1>7, <1>8

(* What leaves the chip is the first word of the queue of ports.             *)
LEMMA PathFirst ==
    ASSUME NEW S, NEW z, AtMostOneOf(S, z), NEW n \in Seq(S), NEW w \in Seq(S), NEW t \in Seq(S), NEW h \in Seq(S),
           Cat(Cat(w, t), h) = Cat(z, n), z # <<>> => w # <<>>
    PROVE  /\ z # <<>> => z = <<w[1]>>
           /\ Cat(Cat(Popped(w, Num(z # <<>>)), t), h) = n
<1>1. /\ \A a, b \in Seq(S) : Cat(a, b) \in Seq(S)
      /\ \A a, b, c \in Seq(S) : Cat(Cat(a, b), c) = Cat(a, Cat(b, c))
      /\ \A a \in Seq(S) : Cat(<<>>, a) = a
      /\ \A y \in S, a \in Seq(S) : Tail(Cat(<<y>>, a)) = a /\ Cat(<<y>>, a)[1] = y
  BY CatFacts
<1>2. CASE z = <<>>
  BY <1>1, <1>2 DEF Popped, Num
<1>3. CASE z # <<>>
  <2>1. PICK y \in S : z = <<y>>
    BY <1>3 DEF AtMostOneOf
  <2> DEFINE v == Head(w)
             u == Tail(w)
  <2>2. v \in S /\ u \in Seq(S) /\ w = Cat(<<v>>, u) /\ w[1] = v
    BY <1>3, HeadAndTail DEF Cat
  <2>3. Popped(w, Num(z # <<>>)) = u
    BY <1>3 DEF Popped, Num
  <2> HIDE DEF v, u
  <2>4. <<v>> \in Seq(S) /\ Cat(u, t) \in Seq(S) /\ Cat(Cat(u, t), h) \in Seq(S)
    <3>1. <<v>> \in Seq(S)
      BY <2>2
    <3> QED
      BY <1>1, <2>2, <3>1
  <2>5. Cat(Cat(w, t), h) = Cat(<<v>>, Cat(Cat(u, t), h))
    <3> DEFINE g == <<v>>
               m1 == Cat(u, t)
    <3>1. g \in Seq(S) /\ m1 \in Seq(S)
      BY <2>4
    <3> HIDE DEF g
    <3>2. Cat(Cat(g, u), t) = Cat(g, m1)
      BY <1>1, <2>2, <3>1
    <3> HIDE DEF m1
    <3>3. Cat(Cat(g, m1), h) = Cat(g, Cat(m1, h))
      BY <1>1, <3>1
    <3> QED
      BY <2>2, <3>2, <3>3 DEF g, m1
  <2> DEFINE l == Cat(Cat(u, t), h)
  <2>6. l \in Seq(S) /\ Cat(<<v>>, l) = Cat(<<y>>, n)
    BY <2>1, <2>4, <2>5
  <2> HIDE DEF l
  <2>7. v = y
    <3>1. Cat(<<v>>, l)[1] = v /\ Cat(<<y>>, n)[1] = y
      BY <1>1, <2>1, <2>2, <2>6
    <3> QED
      BY <2>6, <3>1
  <2>8. l = n
    <3>1. Tail(Cat(<<v>>, l)) = l /\ Tail(Cat(<<y>>, n)) = n
      BY <1>1, <2>1, <2>2, <2>6
    <3> QED
      BY <2>6, <3>1
  <2> QED
    BY <2>1, <2>2, <2>3, <2>7, <2>8 DEF l
<1> QED
  BY <1>2, <1>3

(* The reads in the chip.                                                    *)
LEMMA OnTheWayType ==
    ASSUME CtrlType
    PROVE  /\ OnTheWay \in Seq(Port) /\ Len(OnTheWay) = Under /\ Under \in 0 .. 4
           /\ OnTheWay = Cat(za, Cat(rd_valid[3], Cat(rd_valid[2], rd_valid[1])))
           /\ rd_valid[1] \in Seq(Port) /\ rd_valid[2] \in Seq(Port) /\ rd_valid[3] \in Seq(Port) /\ za \in Seq(Port)
           /\ AtMostOneOf(Port, rd_valid[1]) /\ AtMostOneOf(Port, rd_valid[2])
           /\ AtMostOneOf(Port, rd_valid[3]) /\ AtMostOneOf(Port, za)
<1> DEFINE a == rd_valid[1]
           b == rd_valid[2]
           c == rd_valid[3]
           d == rd_valid[4]
<1>1. AtMostOneOf(Port, a) /\ AtMostOneOf(Port, b) /\ AtMostOneOf(Port, c) /\ AtMostOneOf(Port, d)
  BY DEF CtrlType
<1>2. OnTheWay = Cat(d, Cat(c, Cat(b, a)))
      /\ Under = (Num(a # <<>>) + Num(b # <<>>)) + (Num(c # <<>>) + Num(d # <<>>)) /\ za = d
  BY DEF OnTheWay, Under, za
<1> HIDE DEF a, b, c, d
<1>3. /\ a \in Seq(Port) /\ b \in Seq(Port) /\ c \in Seq(Port) /\ d \in Seq(Port)
      /\ Len(a) = Num(a # <<>>) /\ Len(b) = Num(b # <<>>) /\ Len(c) = Num(c # <<>>) /\ Len(d) = Num(d # <<>>)
  BY <1>1, OneIsSeq
<1>4. /\ \A x, y \in Seq(Port) : Cat(x, y) \in Seq(Port) /\ Len(Cat(x, y)) = Len(x) + Len(y)
  BY CatFacts
<1>5. Cat(b, a) \in Seq(Port) /\ Len(Cat(b, a)) = Len(b) + Len(a)
  BY <1>3, <1>4
<1>6. Cat(c, Cat(b, a)) \in Seq(Port) /\ Len(Cat(c, Cat(b, a))) = Len(c) + (Len(b) + Len(a))
  <2> DEFINE y == Cat(b, a)
  <2>1. y \in Seq(Port) /\ Len(y) = Len(b) + Len(a)
    BY <1>5
  <2> HIDE DEF y
  <2>2. Cat(c, y) \in Seq(Port) /\ Len(Cat(c, y)) = Len(c) + Len(y)
    BY <1>3, <1>4, <2>1
  <2>3. Cat(c, y) \in Seq(Port) /\ Len(Cat(c, y)) = Len(c) + (Len(b) + Len(a))
    BY <2>1, <2>2
  <2> QED
    BY <2>3 DEF y
<1>7. OnTheWay \in Seq(Port) /\ Len(OnTheWay) = Len(d) + (Len(c) + (Len(b) + Len(a)))
  <2> DEFINE y == Cat(c, Cat(b, a))
  <2>1. y \in Seq(Port) /\ Len(y) = Len(c) + (Len(b) + Len(a)) /\ OnTheWay = Cat(d, y)
    BY <1>2, <1>6
  <2> HIDE DEF y
  <2>2. Cat(d, y) \in Seq(Port) /\ Len(Cat(d, y)) = Len(d) + Len(y)
    BY <1>3, <1>4, <2>1
  <2> QED
    BY <2>1, <2>2
<1>8. Num(a # <<>>) \in 0 .. 1 /\ Num(b # <<>>) \in 0 .. 1 /\ Num(c # <<>>) \in 0 .. 1 /\ Num(d # <<>>) \in 0 .. 1
  BY DEF Num
<1>9. Len(OnTheWay) = Under /\ Under \in 0 .. 4
  BY <1>2, <1>3, <1>7, <1>8
<1> QED
  BY <1>1, <1>2, <1>3, <1>7, <1>9 DEF a, b, c, d

LEMMA ReadPortsLength ==
    ASSUME NEW s \in Seq(Request)
    PROVE  ReadPorts(s) \in Seq(Port) /\ Len(ReadPorts(s)) \in 0 .. 4
<1> DEFINE a == ReadPort(s, 1)
           b == ReadPort(s, 2)
           c == ReadPort(s, 3)
           d == ReadPort(s, 4)
           y == Cat(c, d)
           x == Cat(b, Cat(c, d))
<1>1. AtMostOneOf(Port, a) /\ AtMostOneOf(Port, b) /\ AtMostOneOf(Port, c) /\ AtMostOneOf(Port, d)
  BY ReadPortType
<1>2. ReadPorts(s) = Cat(a, Cat(b, Cat(c, d)))
  BY DEF ReadPorts
<1> HIDE DEF a, b, c, d
<1>3. /\ a \in Seq(Port) /\ b \in Seq(Port) /\ c \in Seq(Port) /\ d \in Seq(Port)
      /\ Len(a) \in 0 .. 1 /\ Len(b) \in 0 .. 1 /\ Len(c) \in 0 .. 1 /\ Len(d) \in 0 .. 1
  BY <1>1, OneIsSeq DEF Num
<1>4. \A u, v \in Seq(Port) : Cat(u, v) \in Seq(Port) /\ Len(Cat(u, v)) = Len(u) + Len(v)
  BY CatFacts
<1>5. y \in Seq(Port) /\ Len(y) = Len(c) + Len(d) /\ x = Cat(b, y)
  BY <1>3, <1>4
<1> HIDE DEF y
<1>6. x \in Seq(Port) /\ Len(x) = Len(b) + Len(y) /\ ReadPorts(s) = Cat(a, x)
  BY <1>2, <1>3, <1>4, <1>5
<1> HIDE DEF x
<1>7. ReadPorts(s) \in Seq(Port) /\ Len(ReadPorts(s)) = Len(a) + Len(x)
  BY <1>3, <1>4, <1>6
<1> DEFINE la == Len(a)
           lb == Len(b)
           lc == Len(c)
           ld == Len(d)
           lx == Len(x)
           ly == Len(y)
<1>8. la + lx \in 0 .. 4
  <2>1. la \in 0 .. 1 /\ lb \in 0 .. 1 /\ lc \in 0 .. 1 /\ ld \in 0 .. 1 /\ ly = lc + ld /\ lx = lb + ly
    BY <1>3, <1>5, <1>6
  <2> HIDE DEF la, lb, lc, ld, lx, ly
  <2> QED
    BY <2>1
<1> QED
  BY <1>7, <1>8

(* What the queue of ports holds, and that it is never full.                 *)
Rooms == ORDER_DEPTH > CREDITS + 11 /\ RESULT_DEPTH > CREDITS
ArbiterFacts ==
    /\ FifoWords(route) \in Seq(Port) /\ Len(FifoWords(route)) <= 9
    /\ Under + Len(ReadPorts(todo)) <= Len(FifoWords(route))
    /\ za # <<>> => FifoWords(route) # <<>> /\ route.res = za
    /\ FifoReady(route, ORDER_DEPTH)

(* The arbiter's invariant gives what the mapper sees of it.                 *)
LEMMA ArbiterHolds ==
    ASSUME Rooms, CtrlType, ArbiterInv
    PROVE  ArbiterFacts
<1> DEFINE w == FifoWords(route)
           t == route_s
           o == OnTheWay
           r == ReadPorts(todo)
           k == ReadPort(sdram_req_m, 1)
           n == Cat(rd_valid[3], Cat(rd_valid[2], rd_valid[1]))
<1>1. /\ ErShape(route, Port) /\ AtMostOneOf(Port, t) /\ AtMostOneOf(Request, sdram_req_m)
      /\ Cat(w, t) = Cat(o, Cat(r, k)) /\ (t # <<>> => t = k)
      /\ (route.res = <<>> => Under = 0) /\ todo \in Seq(Request)
  BY DEF ArbiterInv, CtrlType
<1>2. w \in Seq(Port) /\ Len(w) = (Num(route.res # <<>>) + Num(route.bram # <<>>)) + Len(route.q)
      /\ (route.res # <<>> => w # <<>> /\ route.res = <<w[1]>>)
  BY <1>1, ErWords
<1>3. o \in Seq(Port) /\ Len(o) = Under /\ Under \in 0 .. 4 /\ o = Cat(za, n)
      /\ rd_valid[1] \in Seq(Port) /\ rd_valid[2] \in Seq(Port) /\ rd_valid[3] \in Seq(Port) /\ AtMostOneOf(Port, za)
  BY OnTheWayType
<1>4. r \in Seq(Port) /\ Len(r) \in 0 .. 4
  BY <1>1, ReadPortsLength
<1>5. AtMostOneOf(Port, k)
  <2>1. sdram_req_m \in Seq(Request)
    BY <1>1, OneIsSeq
  <2> QED
    BY <2>1, ReadPortType
<1>6. k \in Seq(Port) /\ Len(k) \in 0 .. 1 /\ t \in Seq(Port) /\ Len(t) \in 0 .. 1 /\ Len(t) <= Len(k)
  <2>1. k \in Seq(Port) /\ Len(k) \in 0 .. 1 /\ t \in Seq(Port) /\ Len(t) = Num(t # <<>>)
    BY <1>1, <1>5, OneIsSeq DEF Num
  <2>2. CASE t = <<>>
    BY <2>1, <2>2 DEF Num
  <2>3. CASE t # <<>>
    <3>1. t = k
      BY <1>1, <2>3
    <3> HIDE DEF t, k
    <3>2. Len(t) = Len(k)
      BY <3>1
    <3> QED
      BY <2>1, <3>2
  <2> QED
    BY <2>2, <2>3
<1>7. \A u, v \in Seq(Port) : Cat(u, v) \in Seq(Port) /\ Len(Cat(u, v)) = Len(u) + Len(v)
  BY CatFacts
<1>8. n \in Seq(Port)
  <2>1. Cat(rd_valid[2], rd_valid[1]) \in Seq(Port)
    BY <1>3, <1>7
  <2> QED
    BY <1>3, <1>7, <2>1
<1>9. za # <<>> => route.res # <<>>
  <2>1. za # <<>> => Under >= 1
    BY DEF za, Under, Num
  <2> QED
    BY <1>1, <2>1
<1> HIDE DEF w, t, o, r, k, n
<1>10. Len(w) + Len(t) = Under + (Len(r) + Len(k))
  <2> DEFINE y == Cat(r, k)
  <2>1. y \in Seq(Port) /\ Len(y) = Len(r) + Len(k) /\ Cat(w, t) = Cat(o, y)
    BY <1>1, <1>4, <1>6, <1>7
  <2> HIDE DEF y
  <2>2. Len(Cat(w, t)) = Len(w) + Len(t) /\ Len(Cat(o, y)) = Len(o) + Len(y)
    BY <1>2, <1>3, <1>6, <1>7, <2>1
  <2> QED
    BY <1>3, <2>1, <2>2
<1> DEFINE lw == Len(w)
           lq == Len(route.q)
<1>11. lw \in Nat /\ lq \in Nat /\ lq <= lw
  <2>1. lw \in Nat /\ lq \in Nat
    BY <1>1, <1>2 DEF ErShape
  <2>2. Num(route.res # <<>>) \in Nat /\ Num(route.bram # <<>>) \in Nat
    BY DEF Num
  <2> HIDE DEF lq
  <2> QED
    BY <1>2, <2>1, <2>2 DEF lq
<1>12. lw <= 9 /\ Under + Len(r) <= lw
  <2> DEFINE lt == Len(t)
             lr == Len(r)
             lk == Len(k)
             u == Under
  <2>1. lw + lt = u + (lr + lk) /\ u \in 0 .. 4 /\ lr \in 0 .. 4 /\ lk \in 0 .. 1 /\ lt \in 0 .. 1 /\ lt <= lk
    BY <1>3, <1>4, <1>6, <1>10
  <2> HIDE DEF lw, lt, lr, lk, u
  <2>2. lw <= 9 /\ u + lr <= lw
    BY <1>11, <2>1
  <2> QED
    BY <2>2 DEF u, lr
<1>13. FifoReady(route, ORDER_DEPTH)
  <2>1. lq # ORDER_DEPTH - 1
    <3>1. ORDER_DEPTH \in Nat /\ CREDITS \in Nat
      BY SocAssumption
    <3> HIDE DEF lw, lq
    <3> QED
      BY <1>11, <1>12, <3>1 DEF Rooms
  <2> QED
    BY <2>1 DEF FifoReady
<1>14. ASSUME za # <<>> PROVE w # <<>> /\ route.res = za
  <2>1. w # <<>> /\ route.res = <<w[1]>>
    BY <1>2, <1>9, <1>14 DEF w
  <2> DEFINE y == Cat(r, k)
             x == Cat(n, y)
  <2>2. y \in Seq(Port) /\ x \in Seq(Port) /\ <<>> \in Seq(Port)
    BY <1>4, <1>6, <1>7, <1>8
  <2>3. Cat(w, t) = Cat(za, x)
    <3>1. Cat(Cat(za, n), y) = Cat(za, Cat(n, y))
      <4>1. za \in Seq(Port)
        BY <1>3, OneIsSeq
      <4> HIDE DEF y
      <4> QED
        BY <1>8, <2>2, <4>1, CatFacts
    <3> QED
      BY <1>1, <1>3, <3>1
  <2> HIDE DEF x
  <2>4. Cat(Cat(w, t), <<>>) = Cat(w, t)
    <3>1. Cat(w, t) \in Seq(Port)
      BY <1>2, <1>6, <1>7
    <3> QED
      BY <3>1, CatFacts
  <2>5. za = <<w[1]>>
    <3> DEFINE z == za
    <3>1. AtMostOneOf(Port, z) /\ Cat(Cat(w, t), <<>>) = Cat(z, x) /\ (z # <<>> => w # <<>>) /\ z # <<>>
      BY <1>3, <1>14, <2>1, <2>3, <2>4
    <3> DEFINE h == <<>>
    <3>3. h \in Seq(Port) /\ Cat(Cat(w, t), h) = Cat(z, x) /\ w \in Seq(Port) /\ t \in Seq(Port)
      BY <1>2, <1>6, <2>2, <3>1
    <3> HIDE DEF z, h
    <3>2. z # <<>> => z = <<w[1]>>
      BY <2>2, <3>1, <3>3, PathFirst
    <3> QED
      BY <3>1, <3>2 DEF z
  <2> QED
    BY <2>1, <2>5
<1> QED
  BY <1>2, <1>12, <1>13, <1>14 DEF ArbiterFacts, w, r

(* The arbiter's request register: k is kept, h comes in.                    *)
Kept == IF za_waitrequest THEN ReadPort(sdram_req_m, 1) ELSE <<>>
RequestMoves(video) ==
    /\ AtMostOneOf(Request, granted(video)) /\ AtMostOneOf(Request, sdram_req_m')
    /\ ReadPort(sdram_req_m, 1) = Cat(ReadPort(Accepted(sdram_req_m), 1), Kept)
    /\ ReadPort(sdram_req_m', 1) = Cat(Kept, ReadPort(granted(video), 1))
    /\ route_s' = ReadPort(granted(video), 1)
    /\ route_s' # <<>> => route_s' = ReadPort(sdram_req_m', 1)
    /\ AtMostOneOf(Port, ReadPort(Accepted(sdram_req_m), 1)) /\ AtMostOneOf(Port, Kept)
    /\ AtMostOneOf(Port, ReadPort(granted(video), 1))

(* The request that is kept, that goes on, that is granted.                  *)
LEMMA RequestStep ==
    ASSUME NEW video, AtMostOneOf(Request, video), AtMostOneOf(Request, sdram_req),
           AtMostOneOf(Request, sdram_req_m), Arbiter(video)
    PROVE  RequestMoves(video)
<1> DEFINE hs == granted(video)
           q == sdram_req_m
           q1 == IF hs # <<>> THEN hs ELSE IF za_waitrequest THEN q ELSE <<>>
           h == ReadPort(hs, 1)
           acc == Accepted(q)
<1>1. AtMostOneOf(Request, hs) /\ AtMostOneOf(Request, q1) /\ AtMostOneOf(Request, acc)
  BY DEF granted, AtMostOneOf, Accepted
<1>2. sdram_req_m' = q1
  BY DEF Arbiter
<1>3. \A o : AtMostOneOf(Request, o) => AtMostOneOf(Port, ReadPort(o, 1))
  <2>1. ASSUME NEW o, AtMostOneOf(Request, o) PROVE AtMostOneOf(Port, ReadPort(o, 1))
    <3>1. o \in Seq(Request)
      BY <2>1, OneIsSeq
    <3> QED
      BY <3>1, ReadPortType
  <2> QED
    BY <2>1
<1>4. ReadPort(<<>>, 1) = <<>>
  BY DEF ReadPort
<1>5. h = IF hs # <<>> /\ ~hs[1].wr THEN <<hs[1].port>> ELSE <<>>
  <2>1. CASE hs = <<>>
    BY <1>4, <2>1
  <2>2. CASE hs # <<>>
    <3>1. PICK x \in Request : hs = <<x>>
      BY <1>1, <2>2 DEF AtMostOneOf
    <3> QED
      BY <2>2, <3>1 DEF ReadPort
  <2> QED
    BY <2>1, <2>2
<1>6. route_s' = h
  BY <1>5 DEF Arbiter
<1>7. AtMostOneOf(Port, ReadPort(q, 1)) /\ AtMostOneOf(Port, ReadPort(acc, 1)) /\ AtMostOneOf(Port, h)
      /\ AtMostOneOf(Port, Kept)
  BY <1>1, <1>3 DEF Kept, AtMostOneOf
<1>8. \A x \in Seq(Port) : Cat(<<>>, x) = x /\ Cat(x, <<>>) = x
  BY CatFacts
<1>9. ReadPort(q, 1) \in Seq(Port) /\ h \in Seq(Port) /\ <<>> \in Seq(Port)
  BY <1>7, OneIsSeq
<1>10. ReadPort(q, 1) = Cat(ReadPort(acc, 1), Kept)
  <2>1. CASE za_waitrequest
    BY <1>4, <1>8, <1>9, <2>1 DEF Kept, Accepted
  <2>2. CASE ~za_waitrequest
    BY <1>4, <1>8, <1>9, <2>2 DEF Kept, Accepted
  <2> QED
    BY <2>1, <2>2
<1>11. hs # <<>> => Kept = <<>>
  BY <1>4 DEF granted, room, Kept
<1> HIDE DEF hs
<1>12. ReadPort(q1, 1) = Cat(Kept, h)
  <2>1. CASE hs # <<>>
    BY <1>8, <1>9, <1>11, <2>1
  <2>2. CASE hs = <<>>
    <3>1. h = <<>> /\ ReadPort(q1, 1) = Kept /\ Kept \in Seq(Port)
      BY <1>4, <1>9, <2>2 DEF Kept
    <3> QED
      BY <1>8, <3>1
  <2> QED
    BY <2>1, <2>2
<1>13. h # <<>> => h = ReadPort(q1, 1)
  BY <1>4
<1> QED
  BY <1>1, <1>2, <1>6, <1>7, <1>10, <1>12, <1>13 DEF RequestMoves, hs

(* How many reads are under way in the chip after an edge.                   *)
UnderMoves == Under' + Num(za # <<>>) = Under + Num(m.cmd = "rd")

LEMMA UnderStep ==
    ASSUME CtrlType, CtrlType', NEW acc, PathMoves(acc)
    PROVE  /\ UnderMoves
           /\ OnTheWay' = Cat(Cat(rd_valid[3], Cat(rd_valid[2], rd_valid[1])), Issued)
<1>1. /\ rd_valid'[1] = Issued /\ rd_valid'[2] = rd_valid[1] /\ rd_valid'[3] = rd_valid[2] /\ rd_valid'[4] = rd_valid[3]
      /\ (Issued # <<>> <=> m.cmd = "rd") /\ AtMostOneOf(Port, Issued)
  BY DEF PathMoves
<1> DEFINE a == rd_valid[1]
           b == rd_valid[2]
           c == rd_valid[3]
           x == Issued
<1>2. AtMostOneOf(Port, a) /\ AtMostOneOf(Port, b) /\ AtMostOneOf(Port, c) /\ AtMostOneOf(Port, x)
  BY <1>1 DEF CtrlType
<1>3. OnTheWay' = Cat(c, Cat(b, Cat(a, x)))
  BY <1>1 DEF OnTheWay
<1>4. UnderMoves
  <2> DEFINE na == Num(a # <<>>)
             nb == Num(b # <<>>)
             nc == Num(c # <<>>)
             nz == Num(za # <<>>)
             nx == Num(m.cmd = "rd")
  <2>1. Under' = (nx + na) + (nb + nc) /\ Under = (na + nb) + (nc + nz)
    BY <1>1 DEF Under, za
  <2>2. na \in Nat /\ nb \in Nat /\ nc \in Nat /\ nz \in Nat /\ nx \in Nat
    BY DEF Num
  <2> HIDE DEF na, nb, nc, nz, nx
  <2>3. Under' + nz = Under + nx
    BY <2>1, <2>2
  <2> QED
    BY <2>3 DEF nz, nx, UnderMoves
<1> HIDE DEF a, b, c, x
<1>5. a \in Seq(Port) /\ b \in Seq(Port) /\ c \in Seq(Port) /\ x \in Seq(Port)
  BY <1>2, OneIsSeq
<1>6. Cat(c, Cat(b, Cat(a, x))) = Cat(Cat(c, Cat(b, a)), x)
  <2>1. /\ \A u, v \in Seq(Port) : Cat(u, v) \in Seq(Port)
        /\ \A u, v, w \in Seq(Port) : Cat(Cat(u, v), w) = Cat(u, Cat(v, w))
    BY CatFacts
  <2>2. Cat(Cat(b, a), x) = Cat(b, Cat(a, x)) /\ Cat(b, a) \in Seq(Port)
    BY <1>5, <2>1
  <2> DEFINE y == Cat(b, a)
  <2> HIDE DEF y
  <2>3. y \in Seq(Port) /\ Cat(y, x) = Cat(b, Cat(a, x))
    BY <2>2 DEF y
  <2>4. Cat(Cat(c, y), x) = Cat(c, Cat(y, x))
    BY <1>5, <2>1, <2>3
  <2> QED
    BY <2>3, <2>4 DEF y
<1> QED
  BY <1>3, <1>4, <1>6 DEF a, b, c, x

(* The words follow from PathWords, the registers from the reads to come.    *)
LEMMA ArbiterStep ==
    ASSUME Rooms, CtrlType, CtrlType', ArbiterInv, NEW video, RequestMoves(video), Arbiter(video),
           PathMoves(Accepted(sdram_req_m))
    PROVE  ArbiterInv'
<1> DEFINE w == FifoWords(route)
           t == route_s
           z == za
           p == Cat(rd_valid[3], Cat(rd_valid[2], rd_valid[1]))
           x == Issued
           r == ReadPorts(Rest)
           e == ReadPort(Accepted(sdram_req_m), 1)
           k == Kept
           h == ReadPort(granted(video), 1)
           taken == z # <<>>
           g == FifoErStep(route, ORDER_DEPTH, t, taken)
<1>1. ErShape(route, Port) /\ AtMostOneOf(Port, t) /\ AtMostOneOf(Port, z) /\ AtMostOneOf(Port, x)
      /\ AtMostOneOf(Port, e) /\ AtMostOneOf(Port, k) /\ AtMostOneOf(Port, h)
  BY DEF ArbiterInv, CtrlType, PathMoves, RequestMoves, za
<1>2. ArbiterFacts
  BY ArbiterHolds
<1>3. route' = g
  BY DEF Arbiter
<1>4. taken \in BOOLEAN /\ (taken => route.res # <<>>) /\ (t # <<>> => FifoReady(route, ORDER_DEPTH))
  BY <1>2 DEF ArbiterFacts
<1> HIDE DEF g
<1>5. ErMoves(Port, route, g, taken, t)
  <2>1. g = FifoErStep(route, ORDER_DEPTH, t, taken)
    BY DEF g
  <2> HIDE DEF taken, t
  <2> QED
    BY <1>1, <1>4, <2>1, ErStep
<1>6. /\ ErShape(route', Port) /\ FifoWords(route') = Cat(Popped(w, Num(taken)), t)
      /\ route'.bram = <<>> => route.q = <<>> /\ route'.q = t
      /\ route'.res = <<>> => route.bram = <<>> /\ (route.res = <<>> \/ taken)
  BY <1>3, <1>5 DEF ErMoves
<1>7. /\ w \in Seq(Port) /\ t \in Seq(Port) /\ z \in Seq(Port) /\ p \in Seq(Port) /\ x \in Seq(Port)
      /\ r \in Seq(Port) /\ e \in Seq(Port) /\ k \in Seq(Port) /\ h \in Seq(Port)
  <2>1. t \in Seq(Port) /\ z \in Seq(Port) /\ x \in Seq(Port) /\ e \in Seq(Port) /\ k \in Seq(Port) /\ h \in Seq(Port)
    BY <1>1, OneIsSeq
  <2>2. w \in Seq(Port)
    BY <1>2 DEF ArbiterFacts
  <2>3. r \in Seq(Port)
    BY ReadPortsType DEF PathMoves
  <2>4. p \in Seq(Port)
    <3>1. rd_valid[1] \in Seq(Port) /\ rd_valid[2] \in Seq(Port) /\ rd_valid[3] \in Seq(Port)
      BY OnTheWayType
    <3>2. \A u, v \in Seq(Port) : Cat(u, v) \in Seq(Port)
      BY CatFacts
    <3>3. Cat(rd_valid[2], rd_valid[1]) \in Seq(Port)
      BY <3>1, <3>2
    <3> QED
      BY <3>1, <3>2, <3>3
  <2> QED
    BY <2>1, <2>2, <2>3, <2>4
<1>8. Cat(w, t) = Cat(Cat(z, p), Cat(Cat(x, r), Cat(e, k)))
  <2>1. OnTheWay = Cat(z, p)
    BY OnTheWayType
  <2>2. ReadPorts(todo) = Cat(x, r)
    BY DEF PathMoves
  <2>3. ReadPort(sdram_req_m, 1) = Cat(e, k)
    BY DEF RequestMoves
  <2> QED
    BY <2>1, <2>2, <2>3 DEF ArbiterInv
<1>9. OnTheWay' = Cat(p, x) /\ UnderMoves
  BY UnderStep
<1>10. ReadPorts(todo') = Cat(r, e) /\ ReadPort(sdram_req_m', 1) = Cat(k, h) /\ route_s' = h
  BY DEF PathMoves, RequestMoves
<1> DEFINE n == Cat(Cat(p, x), Cat(Cat(r, e), Cat(k, h)))
<1>11. n \in Seq(Port)
  <2>1. \A u, v \in Seq(Port) : Cat(u, v) \in Seq(Port)
    BY CatFacts
  <2> HIDE DEF p, x, r, e, k, h
  <2>2. Cat(p, x) \in Seq(Port) /\ Cat(r, e) \in Seq(Port) /\ Cat(k, h) \in Seq(Port)
    BY <1>7, <2>1
  <2>3. Cat(Cat(r, e), Cat(k, h)) \in Seq(Port)
    BY <2>1, <2>2
  <2> QED
    BY <2>1, <2>2, <2>3
<1>12. taken => w # <<>>
  BY <1>2 DEF ArbiterFacts
<1> HIDE DEF w, t, z, p, x, r, e, k, h, taken
<1>13. Cat(Cat(w, t), h) = Cat(z, n)
  <2>2. AreWords(Port, z, p, x, r, e, k, h, w, t)
    BY <1>7, <1>8 DEF AreWords
  <2>1. Cat(Cat(w, t), h) = Cat(z, Cat(Cat(p, x), Cat(Cat(r, e), Cat(k, h))))
    BY <2>2, PathWords
  <2> QED
    BY <2>1
<1> HIDE DEF n
<1>14. Cat(Cat(Popped(w, Num(taken)), t), h) = n
  <2>1. z # <<>> => w # <<>>
    BY <1>12 DEF taken
  <2>2. Cat(Cat(Popped(w, Num(z # <<>>)), t), h) = n
    BY <1>1, <1>7, <1>11, <1>13, <2>1, PathFirst
  <2> QED
    BY <2>2 DEF taken
<1>15. Cat(FifoWords(route'), route_s') = Cat(OnTheWay', Cat(ReadPorts(todo'), ReadPort(sdram_req_m', 1)))
  BY <1>6, <1>9, <1>10, <1>14 DEF n
<1> DEFINE u == Under
           u1 == Under'
           nz == Num(taken)
           nr == Num(m.cmd = "rd")
           nr1 == Num(m'.cmd = "rd")
           lw == Len(w)
           lr == Len(r)
           lt == Len(t)
<1>16. /\ u1 + nz = u + nr /\ nz \in 0 .. 1 /\ nr \in 0 .. 1 /\ nr1 \in 0 .. 1 /\ u \in 0 .. 4 /\ u1 \in 0 .. 4
       /\ (nz = 1 <=> taken) /\ lw \in Nat /\ lr \in Nat /\ lt \in Nat /\ u + (nr + lr) <= lw
       /\ (nr1 = 1 => lr >= 1) /\ (nz = 1 => u >= 1)
  <2>1. u1 + nz = u + nr
    BY <1>9 DEF UnderMoves, taken, z
  <2>2. nz \in 0 .. 1 /\ nr \in 0 .. 1 /\ nr1 \in 0 .. 1 /\ (nz = 1 <=> taken) /\ lt \in Nat /\ lr \in Nat
    BY <1>7 DEF Num
  <2>3. u \in 0 .. 4
    BY OnTheWayType
  <2>4. lw \in Nat /\ u + Len(ReadPorts(todo)) <= lw
    BY <1>2, <1>7 DEF ArbiterFacts, w
  <2>5. Len(ReadPorts(todo)) = nr + lr
    <3>1. Len(Cat(x, r)) = Len(x) + Len(r)
      BY <1>7, CatFacts
    <3>2. Len(x) = Num(x # <<>>) /\ (x # <<>> <=> m.cmd = "rd") /\ ReadPorts(todo) = Cat(x, r)
      BY <1>1, OneIsSeq DEF PathMoves, x, r
    <3>3. Num(x # <<>>) = nr
      BY <3>2 DEF Num
    <3> QED
      BY <3>1, <3>2, <3>3
  <2>6. nr1 = 1 => lr >= 1
    BY DEF PathMoves, Num, r
  <2>7. u1 \in 0 .. 4
    <3>1. u1 = (Num(rd_valid'[1] # <<>>) + Num(rd_valid'[2] # <<>>)) + (Num(rd_valid'[3] # <<>>) + Num(rd_valid'[4] # <<>>))
      BY DEF Under
    <3> DEFINE a == Num(rd_valid'[1] # <<>>)
               b == Num(rd_valid'[2] # <<>>)
               c == Num(rd_valid'[3] # <<>>)
               d == Num(rd_valid'[4] # <<>>)
    <3>2. a \in 0 .. 1 /\ b \in 0 .. 1 /\ c \in 0 .. 1 /\ d \in 0 .. 1 /\ u1 = (a + b) + (c + d)
      BY <3>1 DEF Num
    <3> HIDE DEF a, b, c, d, u1
    <3> QED
      BY <3>2
  <2>8. nz = 1 => u >= 1
    BY <2>2 DEF taken, z, za, Under, Num
  <2> QED
    BY <2>1, <2>2, <2>3, <2>4, <2>5, <2>6, <2>7, <2>8
<1>17. route'.res = <<>> => Under' = 0
  <2>1. SUFFICES ASSUME route'.res = <<>> PROVE u1 = 0
    OBVIOUS
  <2>2. route.bram = <<>> /\ (route.res = <<>> \/ taken)
    BY <1>6, <2>1
  <2>3. u + nr <= Len(route.res)
    BY <2>2 DEF ArbiterInv
  <2>4. Len(route.res) = Num(route.res # <<>>)
    <3>1. AtMostOneOf(Port, route.res)
      BY <1>1 DEF ErShape
    <3> QED
      BY <3>1, OneIsSeq
  <2> DEFINE ls == Len(route.res)
  <2>5. u + nr <= 1 /\ (route.res = <<>> => u + nr <= 0)
    <3>1. ls \in 0 .. 1 /\ (route.res = <<>> => ls = 0) /\ u + nr <= ls
      BY <2>3, <2>4 DEF Num
    <3> HIDE DEF u, nr, ls
    <3> QED
      BY <1>16, <3>1
  <2> HIDE DEF u, u1, nz, nr, nr1, lw, lr, lt
  <2> QED
    BY <1>16, <2>2, <2>5
<1>18. route'.bram = <<>> => Under' + Num(m'.cmd = "rd") <= Len(route'.res)
  <2>1. SUFFICES ASSUME route'.bram = <<>> PROVE u1 + nr1 <= Len(route'.res)
    OBVIOUS
  <2>2. route'.q = t
    BY <1>6, <2>1
  <2> DEFINE ls == Len(route'.res)
             lf == Len(FifoWords(route'))
  <2>3. lf = (ls + 0) + lt /\ ls \in Nat
    <3>1. AtMostOneOf(Port, route'.res)
      BY <1>6 DEF ErShape
    <3>2. Len(route'.res) = Num(route'.res # <<>>)
      BY <3>1, OneIsSeq
    <3>3. lf = (Num(route'.res # <<>>) + Num(route'.bram # <<>>)) + Len(route'.q)
      <4> DEFINE f == route'
      <4>1. ErShape(f, Port)
        BY <1>6
      <4> HIDE DEF f
      <4>2. Len(FifoWords(f)) = (Num(f.res # <<>>) + Num(f.bram # <<>>)) + Len(f.q)
        BY <4>1, ErWords
      <4> QED
        BY <4>2 DEF f
    <3>4. Num(route'.bram # <<>>) = 0 /\ Num(route'.res # <<>>) \in Nat
      BY <2>1 DEF Num
    <3> QED
      BY <2>2, <3>2, <3>3, <3>4
  <2>4. lf = (lw - nz) + lt
    <3>1. nz \in {0, 1} /\ (nz = 1 => w # <<>>)
      BY <1>12 DEF Num
    <3>2. Len(Cat(Popped(w, nz), t)) = (Len(w) - nz) + Len(t)
      <4> DEFINE y == Cat(Popped(w, nz), t)
      <4> HIDE DEF nz
      <4>1. MovedOn(Port, w, nz, t, y)
        BY <1>1, <1>7, <3>1, Moved
      <4> QED
        BY <4>1 DEF MovedOn
    <3> QED
      BY <1>6, <3>2
  <2> HIDE DEF u, u1, nz, nr, nr1, lw, lr, lt, ls, lf
  <2>5. u1 + nr1 <= ls
    BY <1>16, <2>3, <2>4
  <2> QED
    BY <2>5 DEF ls
<1>19. AtMostOneOf(Port, route_s') /\ AtMostOneOf(Request, sdram_req_m')
       /\ (route_s' # <<>> => route_s' = ReadPort(sdram_req_m', 1))
  BY <1>1, <1>10 DEF RequestMoves
<1> QED
  BY <1>6, <1>15, <1>17, <1>18, <1>19 DEF ArbiterInv

-----------------------------------------------------------------------------
(***************************************************************************)
(* The mapper.                                                              *)
(***************************************************************************)
BramRequest == [wr : BOOLEAN]
CpuRequest == ({"bram"} \X BramRequest) \cup ({"sdram"} \X RequestOf("ps"))
IsRead(new) == new # <<>> /\ ~new[1].wr

(* The requests of an edge: nb goes to the on-chip RAM, ns to the SDRAM.     *)
Turn(nb, ns) == IF IsRead(ns) THEN <<"sdram">> ELSE IF IsRead(nb) THEN <<"bram">> ELSE <<>>
MapperAs(nb, ns, video) ==
    /\ order' = FifoErStep(order, ORDER_DEPTH, Turn(nb, ns), mem_res_tvalid)
    /\ bram_req' = bram_request(nb)
    /\ ram' = <<bram_req # <<>> /\ bram_req_tready /\ ~bram_req[1].wr, ram[1], ram[2]>>
    /\ results' = FifoErStep(results, RESULT_DEPTH, IF ram[3] THEN <<"bram">> ELSE <<>>, bram_res_m_tready)
    /\ bram_credit(IsRead(nb))
    /\ sdram_req' = IF ns # <<>> THEN ns ELSE IF sdram_req_tready(video) THEN <<>> ELSE sdram_req
    /\ AtMostOneOf(BramRequest, nb) /\ AtMostOneOf(RequestOf("ps"), ns)
    /\ nb = <<>> \/ ns = <<>>
    /\ nb # <<>> => bram_req_tready
    /\ ns # <<>> => sdram_req_tready(video)

(* An edge of the mapper is one of these.                                    *)
LEMMA MapperFields ==
    ASSUME NEW mem_req, AtMostOneOf(CpuRequest, mem_req), bram_req_tready \in BOOLEAN,
           NEW video, Mapper(mem_req, video)
    PROVE  \E nb, ns : /\ MapperAs(nb, ns, video)
                       /\ IsRead(ns) => mem_req # <<>> /\ mem_req[1][1] = "sdram" /\ ~mem_req[1][2].wr
<1>1. CASE mem_req = <<>>
  <2>1. AtMostOneOf(BramRequest, <<>>) /\ AtMostOneOf(RequestOf("ps"), <<>>) /\ ~IsRead(<<>>)
    BY DEF AtMostOneOf, IsRead
  <2> DEFINE hs == mem_req # <<>> /\ mem_req_tready(mem_req[1][1], video)
             q == mem_req[1][2]
             to == mem_req[1][1]
             no == <<>>
  <2>2. hs = FALSE
    BY <1>1
  <2>3. /\ order' = FifoErStep(order, ORDER_DEPTH, IF hs /\ ~q.wr THEN <<to>> ELSE <<>>, mem_res_tvalid)
        /\ bram_req' = bram_request(IF hs /\ to = "bram" THEN <<q>> ELSE <<>>)
        /\ ram' = <<bram_req # <<>> /\ bram_req_tready /\ ~bram_req[1].wr, ram[1], ram[2]>>
        /\ results' = FifoErStep(results, RESULT_DEPTH, IF ram[3] THEN <<"bram">> ELSE <<>>, bram_res_m_tready)
        /\ bram_credit((hs /\ ~q.wr) /\ (hs /\ to = "bram"))
        /\ sdram_req' = IF hs /\ to = "sdram" THEN <<q>>
                        ELSE IF sdram_req_tready(video) THEN <<>> ELSE sdram_req
    BY DEF Mapper
  <2> HIDE DEF hs, q, to
  <2>4. (IF hs /\ ~q.wr THEN <<to>> ELSE <<>>) = <<>> /\ (IF hs /\ to = "bram" THEN <<q>> ELSE <<>>) = <<>>
        /\ (IF hs /\ to = "sdram" THEN <<q>> ELSE IF sdram_req_tready(video) THEN <<>> ELSE sdram_req)
           = (IF sdram_req_tready(video) THEN <<>> ELSE sdram_req)
    BY <2>2
  <2>5. ((hs /\ ~q.wr) /\ (hs /\ to = "bram")) = FALSE /\ IsRead(no) = FALSE /\ Turn(no, no) = <<>>
    BY <2>1, <2>2 DEF Turn, IsRead
  <2>6. bram_credit(IsRead(no))
    BY <2>3, <2>5
  <2>7. order' = FifoErStep(order, ORDER_DEPTH, Turn(no, no), mem_res_tvalid) /\ bram_req' = bram_request(no)
        /\ sdram_req' = IF no # <<>> THEN no ELSE IF sdram_req_tready(video) THEN <<>> ELSE sdram_req
    BY <2>3, <2>4, <2>5
  <2>8. AtMostOneOf(BramRequest, no) /\ AtMostOneOf(RequestOf("ps"), no) /\ ~IsRead(no) /\ no = <<>>
    BY <2>1
  <2> HIDE DEF no
  <2>9. MapperAs(no, no, video)
    BY <2>3, <2>6, <2>7, <2>8 DEF MapperAs
  <2> QED
    BY <2>8, <2>9
<1>2. CASE mem_req # <<>>
  <2>1. PICK x \in CpuRequest : mem_req = <<x>>
    BY <1>2 DEF AtMostOneOf
  <2> DEFINE to == x[1]
             q == x[2]
             hs == mem_req_tready(to, video)
             nb == IF hs /\ to = "bram" THEN <<q>> ELSE <<>>
             ns == IF hs /\ to = "sdram" THEN <<q>> ELSE <<>>
  <2>2. mem_req[1] = x /\ mem_req # <<>>
    BY <1>2, <2>1
  <2>3. (to = "bram" /\ q \in BramRequest) \/ (to = "sdram" /\ q \in RequestOf("ps"))
    BY DEF CpuRequest
  <2>4. /\ order' = FifoErStep(order, ORDER_DEPTH, IF hs /\ ~q.wr THEN <<to>> ELSE <<>>, mem_res_tvalid)
        /\ bram_req' = bram_request(IF hs /\ to = "bram" THEN <<q>> ELSE <<>>)
        /\ ram' = <<bram_req # <<>> /\ bram_req_tready /\ ~bram_req[1].wr, ram[1], ram[2]>>
        /\ results' = FifoErStep(results, RESULT_DEPTH, IF ram[3] THEN <<"bram">> ELSE <<>>, bram_res_m_tready)
        /\ bram_credit((hs /\ ~q.wr) /\ (hs /\ to = "bram"))
        /\ sdram_req' = IF hs /\ to = "sdram" THEN <<q>>
                        ELSE IF sdram_req_tready(video) THEN <<>> ELSE sdram_req
    BY <2>2 DEF Mapper
  <2>5. (hs /\ to = "bram" => bram_req_tready) /\ (hs /\ to = "sdram" => sdram_req_tready(video)) /\ hs \in BOOLEAN
    BY DEF mem_req_tready, sdram_req_tready
  <2>6. AtMostOneOf(BramRequest, nb) /\ AtMostOneOf(RequestOf("ps"), ns)
    BY <2>3 DEF AtMostOneOf
  <2> HIDE DEF hs, to, q
  <2>7. IsRead(nb) = ((hs /\ ~q.wr) /\ (hs /\ to = "bram")) /\ IsRead(ns) = (hs /\ to = "sdram" /\ ~q.wr)
    <3>1. <<q>> # <<>> /\ <<q>>[1] = q
      OBVIOUS
    <3>2. IsRead(<<q>>) = ~q.wr /\ IsRead(<<>>) = FALSE
      BY <3>1 DEF IsRead
    <3>3. CASE hs /\ to = "bram"
      BY <3>2, <3>3
    <3>4. CASE hs /\ to = "sdram"
      BY <3>2, <3>4
    <3>5. CASE ~hs
      BY <3>2, <3>5
    <3> QED
      BY <2>3, <3>3, <3>4, <3>5
  <2>8. Turn(nb, ns) = IF hs /\ ~q.wr THEN <<to>> ELSE <<>>
    BY <2>3, <2>7 DEF Turn
  <2>9. bram_credit(IsRead(nb))
    BY <2>4, <2>7
  <2>10. (ns # <<>> <=> hs /\ to = "sdram") /\ (nb # <<>> <=> hs /\ to = "bram")
    OBVIOUS
  <2>11. sdram_req' = IF ns # <<>> THEN ns ELSE IF sdram_req_tready(video) THEN <<>> ELSE sdram_req
    BY <2>4, <2>10
  <2>12. bram_req' = bram_request(nb)
    BY <2>4
  <2> HIDE DEF nb, ns
  <2>13. MapperAs(nb, ns, video)
    BY <2>4, <2>5, <2>6, <2>8, <2>9, <2>10, <2>11, <2>12 DEF MapperAs
  <2>14. IsRead(ns) => mem_req # <<>> /\ mem_req[1][1] = "sdram" /\ ~mem_req[1][2].wr
    BY <2>2, <2>7 DEF to, q
  <2> QED
    BY <2>13, <2>14
<1> QED
  BY <1>1, <1>2

(* The credits: each read of the on-chip RAM has one, from its request to    *)
(* its answer.                                                               *)
BramReads == Num(IsRead(bram_req)) + Num(ram[1]) + (Num(ram[2]) + Num(ram[3]))
CreditsInv ==
    /\ ErShape(results, {"bram"}) /\ AtMostOneOf(BramRequest, bram_req)
    /\ ram \in [1 .. 3 -> BOOLEAN] /\ bram_req_tready \in BOOLEAN /\ bram_trans_cnt \in 0 .. CREDITS
    /\ bram_trans_cnt = BramReads + Len(FifoWords(results))
    /\ bram_req_tready => bram_trans_cnt < CREDITS

CreditMoves(nb) == bram_trans_cnt' + Num(bram_res_m_tready) = bram_trans_cnt + Num(IsRead(nb))
ResultsMove ==
    /\ ErMoves({"bram"}, results, results', bram_res_m_tready, IF ram[3] THEN <<"bram">> ELSE <<>>)
    /\ Len(FifoWords(results')) + Num(bram_res_m_tready) = Len(FifoWords(results)) + Num(ram[3])
    /\ ram'[2] = ram[1] /\ ram'[3] = ram[2]

(* A word of the on-chip RAM finds room: its credit is still out.            *)
LEMMA ResultsReady ==
    ASSUME Rooms, CreditsInv
    PROVE  /\ ram[3] => FifoReady(results, RESULT_DEPTH)
           /\ FifoWords(results) \in Seq({"bram"}) /\ Len(FifoWords(results)) \in Nat
           /\ results.res # <<>> => FifoWords(results) # <<>> /\ Len(FifoWords(results)) >= 1
<1> DEFINE w == FifoWords(results)
           lw == Len(w)
           lq == Len(results.q)
           a == Num(IsRead(bram_req))
           b == Num(ram[1])
           c == Num(ram[2])
           d == Num(ram[3])
           e == Num(results.res # <<>>)
           f == Num(results.bram # <<>>)
<1>1. w \in Seq({"bram"}) /\ lw = (e + f) + lq /\ (results.res # <<>> => w # <<>>)
  BY ErWords DEF CreditsInv
<1>2. lw \in Nat /\ lq \in Nat /\ a \in Nat /\ b \in Nat /\ c \in Nat /\ d \in Nat /\ e \in Nat /\ f \in Nat
      /\ (ram[3] => d = 1) /\ (results.res # <<>> => e = 1)
  <2>1. lw \in Nat
    BY <1>1
  <2>2. lq \in Nat
    BY DEF CreditsInv, ErShape
  <2>3. a \in Nat /\ b \in Nat /\ c \in Nat /\ d \in Nat /\ e \in Nat /\ f \in Nat
        /\ (ram[3] => d = 1) /\ (results.res # <<>> => e = 1)
    BY DEF Num
  <2> QED
    BY <2>1, <2>2, <2>3
<1>3. bram_trans_cnt \in 0 .. CREDITS /\ bram_trans_cnt = (a + b + (c + d)) + lw
  BY DEF CreditsInv, BramReads
<1>4. CREDITS \in Nat /\ RESULT_DEPTH \in Nat /\ RESULT_DEPTH > CREDITS
  BY SocAssumption DEF Rooms
<1> HIDE DEF lw, lq, a, b, c, d, e, f
<1>5. ram[3] => lq # RESULT_DEPTH - 1
  BY <1>1, <1>2, <1>3, <1>4
<1>6. ram[3] => FifoReady(results, RESULT_DEPTH)
  BY <1>5 DEF lq, FifoReady
<1>7. results.res # <<>> => lw >= 1
  BY <1>1, <1>2
<1> QED
  BY <1>1, <1>2, <1>6, <1>7 DEF lw

(* The credits move with the requests and answers of the on-chip RAM.        *)
LEMMA CreditsStep ==
    ASSUME Rooms, CreditsInv, NEW nb, NEW ns, NEW video, MapperAs(nb, ns, video)
    PROVE  CreditsInv' /\ CreditMoves(nb) /\ ResultsMove
<1> DEFINE w == FifoWords(results)
           t == bram_res_m_tready
           o == IF ram[3] THEN <<"bram">> ELSE <<>>
           g == FifoErStep(results, RESULT_DEPTH, o, t)
           S == {"bram"}
           rd == IsRead(nb)
<1>1. /\ ErShape(results, S) /\ AtMostOneOf(BramRequest, bram_req) /\ AtMostOneOf(BramRequest, nb)
      /\ ram \in [1 .. 3 -> BOOLEAN] /\ bram_req_tready \in BOOLEAN /\ bram_trans_cnt \in 0 .. CREDITS
      /\ bram_trans_cnt = BramReads + Len(w)
      /\ bram_req_tready => bram_trans_cnt < CREDITS
      /\ CREDITS \in Nat
  BY SocAssumption DEF CreditsInv, MapperAs
<1>2. /\ bram_req' = bram_request(nb)
      /\ ram' = <<IsRead(bram_req) /\ bram_req_tready, ram[1], ram[2]>>
      /\ results' = g /\ bram_credit(rd) /\ (nb # <<>> => bram_req_tready)
  BY DEF MapperAs, IsRead
<1>3. AtMostOneOf(S, o) /\ (o # <<>> => FifoReady(results, RESULT_DEPTH)) /\ t \in BOOLEAN
      /\ (t => results.res # <<>>) /\ Len(o) = Num(ram[3])
  <2>1. AtMostOneOf(S, o) /\ Len(o) = Num(ram[3])
    BY DEF AtMostOneOf, Num
  <2> QED
    BY <2>1, ResultsReady DEF bram_res_m_tready
<1> HIDE DEF g, o
<1>4. ErMoves(S, results, g, t, o)
  <2>1. g = FifoErStep(results, RESULT_DEPTH, o, t)
    BY DEF g
  <2> HIDE DEF t
  <2> QED
    BY <1>1, <1>3, <2>1, ErStep
<1>5. ErShape(results', S) /\ FifoWords(results') = Cat(Popped(w, Num(t)), o)
  BY <1>2, <1>4 DEF ErMoves
<1>6. w \in Seq(S) /\ Len(w) \in Nat /\ (t => w # <<>>) /\ (t => Len(w) >= 1)
  BY <1>3, ResultsReady
<1>7. Len(FifoWords(results')) = (Len(w) - Num(t)) + Num(ram[3])
  <2>1. Num(t) \in {0, 1} /\ (Num(t) = 1 => w # <<>>)
    BY <1>6 DEF Num
  <2> DEFINE y == Cat(Popped(w, Num(t)), o)
             n == Num(t)
  <2> HIDE DEF n, t
  <2>2. y = Cat(Popped(w, n), o)
    BY DEF n
  <2> HIDE DEF y, w
  <2>3. MovedOn(S, w, n, o, y)
    BY <1>3, <1>6, <2>1, <2>2, Moved DEF n
  <2>4. Len(y) = (Len(w) - n) + Len(o)
    BY <2>3 DEF MovedOn
  <2> QED
    BY <1>3, <1>5, <2>4 DEF y, n
<1>8. AtMostOneOf(BramRequest, bram_req')
  BY <1>1, <1>2 DEF bram_request, AtMostOneOf
<1>9. ram' \in [1 .. 3 -> BOOLEAN]
  <2>1. (IsRead(bram_req) /\ bram_req_tready) \in BOOLEAN /\ ram[1] \in BOOLEAN /\ ram[2] \in BOOLEAN
    BY <1>1
  <2>2. \A x, y, z \in BOOLEAN : <<x, y, z>> \in [1 .. 3 -> BOOLEAN]
    OBVIOUS
  <2> QED
    BY <1>2, <2>1, <2>2
<1>10. ram'[1] = (IsRead(bram_req) /\ bram_req_tready) /\ ram'[2] = ram[1] /\ ram'[3] = ram[2]
  BY <1>2
<1>11. Num(IsRead(bram_req')) + Num(ram'[1]) = Num(IsRead(bram_req)) + Num(rd)
  <2>1. ~IsRead(<<>>)
    BY DEF IsRead
  <2>2. CASE nb # <<>>
    <3>1. bram_req' = nb /\ ram'[1] = IsRead(bram_req)
      BY <1>2, <1>10, <2>2 DEF bram_request, IsRead
    <3> QED
      BY <3>1 DEF Num
  <2>3. CASE nb = <<>> /\ bram_req_tready
    <3>1. bram_req' = <<>> /\ ram'[1] = IsRead(bram_req) /\ ~rd
      BY <1>2, <1>10, <2>1, <2>3 DEF bram_request, IsRead
    <3> QED
      BY <2>1, <3>1 DEF Num
  <2>4. CASE nb = <<>> /\ ~bram_req_tready
    <3>1. bram_req' = bram_req /\ ram'[1] = FALSE /\ ~rd
      BY <1>2, <1>10, <2>1, <2>4 DEF bram_request
    <3> QED
      BY <3>1 DEF Num
  <2> QED
    BY <2>2, <2>3, <2>4
<1> DEFINE a == Num(IsRead(bram_req))
           a1 == Num(IsRead(bram_req'))
           b == Num(ram[1])
           b1 == Num(ram'[1])
           c == Num(ram[2])
           d == Num(ram[3])
           nt == Num(t)
           nr == Num(rd)
           cnt == bram_trans_cnt
           cnt1 == bram_trans_cnt'
           lw == Len(w)
<1>12. /\ a \in Nat /\ a1 \in Nat /\ b \in Nat /\ b1 \in Nat /\ c \in Nat /\ d \in Nat /\ nt \in 0 .. 1 /\ nr \in 0 .. 1
       /\ a1 + b1 = a + nr /\ lw \in Nat /\ (nt = 1 => lw >= 1)
       /\ (nt = 1 <=> t) /\ (nr = 1 <=> rd)
       /\ cnt = (a + b + (c + d)) + lw /\ cnt \in 0 .. CREDITS
       /\ (nr = 1 => cnt < CREDITS)
  <2>1. nr = 1 => nb # <<>>
    BY DEF Num, IsRead
  <2> QED
    BY <1>1, <1>2, <1>6, <1>11, <2>1 DEF Num, BramReads
<1>13. /\ cnt1 = (IF rd = t THEN cnt ELSE IF rd THEN cnt + 1 ELSE cnt - 1)
       /\ bram_req_tready' = (IF rd # t /\ cnt = CREDITS - 1 THEN t ELSE bram_req_tready)
  BY <1>2 DEF bram_credit, event_bram_res
<1>14. BramReads' + Len(FifoWords(results')) = (a1 + b1 + (b + c)) + ((lw - nt) + d)
  BY <1>7, <1>10 DEF BramReads
<1>15. t \in BOOLEAN /\ rd \in BOOLEAN
  BY <1>3 DEF IsRead
<1> HIDE DEF a, a1, b, b1, c, d, nt, nr, cnt, cnt1, lw, t, rd
<1>16. cnt1 + nt = cnt + nr /\ cnt1 \in 0 .. CREDITS
  BY <1>1, <1>12, <1>13, <1>15
<1>17. cnt1 = (a1 + b1 + (b + c)) + ((lw - nt) + d)
  BY <1>12, <1>16
<1>18. bram_req_tready' \in BOOLEAN /\ (bram_req_tready' => cnt1 < CREDITS)
  <2>1. bram_req_tready => cnt < CREDITS
    BY <1>1 DEF cnt
  <2>2. CASE rd # t /\ cnt = CREDITS - 1
    BY <1>1, <1>12, <1>13, <1>15, <2>2
  <2>3. CASE ~(rd # t /\ cnt = CREDITS - 1)
    BY <1>1, <1>12, <1>13, <1>15, <2>1, <2>3
  <2> QED
    BY <2>2, <2>3
<1>19. CreditsInv'
  BY <1>5, <1>8, <1>9, <1>14, <1>16, <1>17, <1>18 DEF CreditsInv, cnt1
<1>20. CreditMoves(nb)
  BY <1>16 DEF CreditMoves, cnt1, cnt, nt, nr, t, rd
<1>21. ResultsMove
  <2>1. Len(FifoWords(results')) = (lw - nt) + d
    BY <1>7 DEF lw, nt, d, w
  <2>2. Len(FifoWords(results')) + nt = lw + d
    BY <1>12, <2>1
  <2>3. ErMoves(S, results, results', t, o)
    BY <1>2, <1>4
  <2> QED
    BY <1>10, <2>2, <2>3 DEF ResultsMove, nt, lw, d, t, o, w
<1> QED
  BY <1>19, <1>20, <1>21

(* The reads of the CPU at an edge: those that wait for an answer of the     *)
(* SDRAM become one less with an answer and one more with a new request ns.  *)
PsMoves(ns) ==
    /\ PsUnder \in 0 .. 4 /\ PsTodo(todo) \in 0 .. 4 /\ PsAll \in 0 .. 10
    /\ PsUnder + PsTodo(todo) <= PsAll
    /\ PsUnder' \in 0 .. 4 /\ PsTodo(todo') \in 0 .. 4 /\ PsAll' \in 0 .. 10
    /\ PsUnder' + PsTodo(todo') <= PsAll'
    /\ PsUnder' + Ps(za) <= PsUnder + PsTodo(todo)
    /\ (PsUnder' + PsTodo(todo')) + Ps(za) <= PsAll
    /\ PsAll' + Ps(za) = PsAll + Num(IsRead(ns))
    /\ Ps(za) \in 0 .. 1 /\ Ps(za) <= PsUnder

(* Each of them goes one place on, or stays.                                 *)
PsPath(ns) ==
    /\ rd_valid'[2] = rd_valid[1] /\ rd_valid'[3] = rd_valid[2] /\ rd_valid'[4] = rd_valid[3]
    /\ Ps(rd_valid'[1]) <= PsTodo(todo)
    /\ PsTodo(todo') <= PsTodo(todo) + Ps(ReadPort(sdram_req_m, 1))
    /\ Ps(ReadPort(sdram_req_m', 1)) <= Ps(ReadPort(sdram_req_m, 1)) + Ps(ReadPort(sdram_req, 1))
    /\ Ps(ReadPort(sdram_req', 1)) <= Ps(ReadPort(sdram_req, 1)) + Num(IsRead(ns))

LEMMA PsTypes ==
    /\ \A o : Ps(o) \in 0 .. 1
    /\ Ps(<<>>) = 0
    /\ PsUnder \in 0 .. 4 /\ PsTodo(todo) \in 0 .. 4 /\ PsAll \in 0 .. 10
    /\ PsUnder + PsTodo(todo) <= PsAll
    /\ Ps(za) <= PsUnder
<1>1. \A o : Ps(o) \in 0 .. 1
  BY DEF Ps, Num
<1>2. Ps(<<>>) = 0
  BY DEF Ps, Num
<1> DEFINE a == Ps(rd_valid[1])
           b == Ps(rd_valid[2])
           c == Ps(rd_valid[3])
           d == Ps(rd_valid[4])
           e == Ps(ReadPort(todo, 1))
           f == Ps(ReadPort(todo, 2))
           g == Ps(ReadPort(todo, 3))
           h == Ps(ReadPort(todo, 4))
           k == Ps(ReadPort(sdram_req_m, 1))
           l == Ps(ReadPort(sdram_req, 1))
<1>3. /\ a \in 0 .. 1 /\ b \in 0 .. 1 /\ c \in 0 .. 1 /\ d \in 0 .. 1 /\ e \in 0 .. 1 /\ f \in 0 .. 1
      /\ g \in 0 .. 1 /\ h \in 0 .. 1 /\ k \in 0 .. 1 /\ l \in 0 .. 1
  BY <1>1
<1>4. PsUnder = (a + b) + (c + d) /\ PsTodo(todo) = (e + f) + (g + h) /\ PsAll = (PsUnder + PsTodo(todo)) + (k + l)
      /\ Ps(za) = d
  BY DEF PsUnder, PsTodo, PsAll, za
<1> HIDE DEF a, b, c, d, e, f, g, h, k, l
<1>5. PsUnder \in 0 .. 4 /\ PsTodo(todo) \in 0 .. 4 /\ Ps(za) <= PsUnder
  BY <1>3, <1>4
<1>6. PsAll \in 0 .. 10 /\ PsUnder + PsTodo(todo) <= PsAll
  BY <1>3, <1>4, <1>5
<1> QED
  BY <1>1, <1>2, <1>5, <1>6

LEMMA PsTodoType ==
    ASSUME NEW s
    PROVE  PsTodo(s) \in 0 .. 4
<1> DEFINE e == Ps(ReadPort(s, 1))
           f == Ps(ReadPort(s, 2))
           g == Ps(ReadPort(s, 3))
           h == Ps(ReadPort(s, 4))
<1>1. e \in 0 .. 1 /\ f \in 0 .. 1 /\ g \in 0 .. 1 /\ h \in 0 .. 1 /\ PsTodo(s) = (e + f) + (g + h)
  BY PsTypes DEF PsTodo
<1> HIDE DEF e, f, g, h
<1> QED
  BY <1>1

(* One edge, with a request of the video controller or without.              *)
LEMMA PsStep ==
    ASSUME CtrlType, NEW video, AtMostOneOf(RequestOf("video"), video), AtMostOneOf(RequestOf("ps"), sdram_req),
           AtMostOneOf(Request, sdram_req_m), NEW nb, NEW ns, MapperAs(nb, ns, video), Arbiter(video),
           RequestMoves(video), PathMoves(Accepted(sdram_req_m))
    PROVE  PsMoves(ns) /\ PsPath(ns)
<1> DEFINE e == ReadPort(Accepted(sdram_req_m), 1)
           k == Kept
           h == ReadPort(granted(video), 1)
           M == ReadPort(sdram_req_m, 1)
           M1 == ReadPort(sdram_req_m', 1)
           Q == ReadPort(sdram_req, 1)
           Q1 == ReadPort(sdram_req', 1)
<1>1. ReadPort(<<>>, 1) = <<>> /\ \A o : Ps(o) \in 0 .. 1
  BY PsTypes DEF ReadPort
<1>2. Ps(M) = Ps(e) + Ps(k)
  <2>1. CASE za_waitrequest
    <3>1. e = <<>> /\ k = M
      BY <1>1, <2>1 DEF Accepted, Kept
    <3> HIDE DEF e, k, M
    <3> QED
      BY <1>1, <3>1, PsTypes
  <2>2. CASE ~za_waitrequest
    <3>1. e = M /\ k = <<>>
      BY <1>1, <2>2 DEF Accepted, Kept
    <3> HIDE DEF e, k, M
    <3> QED
      BY <1>1, <3>1, PsTypes
  <2> QED
    BY <2>1, <2>2
<1>3. Ps(M1) = Ps(k) + Ps(h)
  <2>1. M1 = Cat(k, h) /\ AtMostOneOf(Port, k) /\ AtMostOneOf(Port, h)
    BY DEF RequestMoves
  <2>2. h = <<>> \/ k = <<>>
    BY <1>1 DEF granted, room, Kept
  <2> HIDE DEF k, h, M1
  <2>3. k \in Seq(Port) /\ h \in Seq(Port)
    BY <2>1, OneIsSeq
  <2>4. Cat(k, <<>>) = k /\ Cat(<<>>, h) = h
    BY <2>3, CatFacts
  <2>5. CASE h = <<>>
    <3>1. M1 = k /\ Ps(h) = 0
      BY <2>1, <2>4, <2>5, PsTypes
    <3> QED
      BY <1>1, <3>1
  <2>6. CASE k = <<>>
    <3>1. M1 = h /\ Ps(k) = 0
      BY <2>1, <2>4, <2>6, PsTypes
    <3> QED
      BY <1>1, <3>1
  <2> QED
    BY <2>2, <2>5, <2>6
<1>4. ASSUME NEW o, AtMostOneOf(RequestOf("ps"), o) PROVE Ps(ReadPort(o, 1)) = Num(IsRead(o))
  <2>1. CASE o = <<>>
    BY <1>1, <2>1, PsTypes DEF IsRead, Num
  <2>2. CASE o # <<>>
    <3>1. PICK x \in RequestOf("ps") : o = <<x>>
      BY <1>4, <2>2 DEF AtMostOneOf
    <3>2. x.port = "ps" /\ Len(o) = 1 /\ o[1] = x
      BY <3>1 DEF RequestOf
    <3>3. ReadPort(o, 1) = IF ~x.wr THEN <<"ps">> ELSE <<>>
      BY <3>2 DEF ReadPort
    <3>4. IsRead(o) = ~x.wr
      BY <2>2, <3>2 DEF IsRead
    <3>5. Ps(<<"ps">>) = 1
      BY DEF Ps, Num
    <3>6. CASE x.wr
      <4>1. ReadPort(o, 1) = <<>> /\ IsRead(o) = FALSE
        BY <3>3, <3>4, <3>6
      <4> QED
        BY <4>1, PsTypes DEF Num
    <3>7. CASE ~x.wr
      <4>1. ReadPort(o, 1) = <<"ps">> /\ IsRead(o) = TRUE
        BY <3>3, <3>4, <3>7
      <4> QED
        BY <3>5, <4>1 DEF Num
    <3> QED
      BY <3>6, <3>7
  <2> QED
    BY <2>1, <2>2
<1>5. Ps(h) + Ps(Q1) = Ps(Q) + Num(IsRead(ns)) /\ Ps(h) <= Ps(Q)
  <2>1. /\ sdram_req' = IF ns # <<>> THEN ns ELSE IF sdram_req_tready(video) THEN <<>> ELSE sdram_req
        /\ AtMostOneOf(RequestOf("ps"), ns) /\ (ns # <<>> => sdram_req_tready(video))
    BY DEF MapperAs
  <2>2. sdram_req_tready(video) <=> room /\ video = <<>>
    BY DEF sdram_req_tready, port_req_sel
  <2>3. CASE room /\ video = <<>>
    <3>1. h = Q
      BY <2>3 DEF granted
    <3>2. sdram_req' = ns
      BY <2>1, <2>2, <2>3
    <3>3. Ps(Q1) = Num(IsRead(ns))
      BY <1>4, <2>1, <3>2
    <3> HIDE DEF h, Q, Q1
    <3> QED
      BY <1>1, <3>1, <3>3
  <2>4. CASE ~(room /\ video = <<>>)
    <3>1. ns = <<>> /\ sdram_req' = sdram_req
      BY <2>1, <2>2, <2>4
    <3>2. Ps(h) = 0
      <4>1. CASE ~room
        BY <1>1, <4>1, PsTypes DEF granted
      <4>2. CASE room /\ video # <<>>
        <5>1. PICK x \in RequestOf("video") : video = <<x>>
          BY <4>2 DEF AtMostOneOf
        <5>2. granted(video) = video /\ x.port = "video" /\ Len(video) = 1 /\ video[1] = x
          BY <4>2, <5>1 DEF granted, RequestOf
        <5>3. h = IF ~x.wr THEN <<"video">> ELSE <<>>
          BY <5>2 DEF ReadPort
        <5>4. h # <<"ps">>
          <6>1. <<"video">> # <<"ps">> /\ <<>> # <<"ps">>
            BY Zenon, Z3
          <6> QED
            BY <5>3, <6>1
        <5> QED
          BY <5>4 DEF Ps, Num
      <4> QED
        BY <2>4, <4>1, <4>2
    <3>3. Q1 = Q /\ Num(IsRead(ns)) = 0
      BY <3>1 DEF IsRead, Num
    <3> HIDE DEF h, Q, Q1
    <3> QED
      BY <1>1, <3>2, <3>3
  <2> QED
    BY <2>3, <2>4
<1>6. /\ rd_valid'[1] = Issued /\ rd_valid'[2] = rd_valid[1] /\ rd_valid'[3] = rd_valid[2] /\ rd_valid'[4] = rd_valid[3]
      /\ PsTodo(todo) = Ps(Issued) + PsTodo(Rest) /\ PsTodo(todo') = PsTodo(Rest) + Ps(e)
  BY DEF PathMoves
<1> DEFINE a == Ps(rd_valid[1])
           b == Ps(rd_valid[2])
           c == Ps(rd_valid[3])
           z == Ps(za)
           x == Ps(Issued)
           r == PsTodo(Rest)
           pe == Ps(e)
           pk == Ps(k)
           ph == Ps(h)
           q == Ps(Q)
           q1 == Ps(Q1)
           n == Num(IsRead(ns))
<1>7. PsUnder = (a + b) + (c + z) /\ PsUnder' = (x + a) + (b + c)
  BY <1>6 DEF PsUnder, za
<1>8. PsAll = (PsUnder + (x + r)) + ((pe + pk) + q) /\ PsAll' = (PsUnder' + (r + pe)) + ((pk + ph) + q1)
  BY <1>2, <1>3, <1>6 DEF PsAll
<1>9. /\ a \in 0 .. 1 /\ b \in 0 .. 1 /\ c \in 0 .. 1 /\ z \in 0 .. 1 /\ x \in 0 .. 1 /\ pe \in 0 .. 1 /\ pk \in 0 .. 1
      /\ ph \in 0 .. 1 /\ q \in 0 .. 1 /\ q1 \in 0 .. 1 /\ n \in 0 .. 1 /\ r \in 0 .. 4 /\ ph + q1 = q + n
      /\ PsTodo(todo) = x + r /\ PsTodo(todo') = r + pe /\ PsTodo(todo') \in 0 .. 4 /\ PsTodo(todo) \in 0 .. 4
      /\ pk + ph \in 0 .. 1
  <2>1. r \in 0 .. 4 /\ PsTodo(todo') \in 0 .. 4 /\ PsTodo(todo) \in 0 .. 4
    BY PsTodoType
  <2>2. n \in 0 .. 1
    BY DEF Num
  <2>3. pk + ph \in 0 .. 1
    BY <1>1, <1>3
  <2> QED
    BY <1>1, <1>5, <1>6, <2>1, <2>2, <2>3
<1> DEFINE u == PsUnder
           u1 == PsUnder'
           p == PsAll
           p1 == PsAll'
           t == PsTodo(todo)
           t1 == PsTodo(todo')
<1>10. PsPath(ns)
  <2>1. /\ Ps(M) = pe + pk /\ Ps(M1) = pk + ph /\ ph <= q /\ PsTodo(todo) = x + r /\ PsTodo(todo') = r + pe
        /\ x = Ps(rd_valid'[1]) /\ q = Ps(Q) /\ q1 = Ps(Q1) /\ n = Num(IsRead(ns))
    BY <1>2, <1>3, <1>5, <1>6
  <2>2. rd_valid'[2] = rd_valid[1] /\ rd_valid'[3] = rd_valid[2] /\ rd_valid'[4] = rd_valid[3]
    BY <1>6
  <2> HIDE DEF a, b, c, z, x, r, pe, pk, ph, q, q1, n, M, M1, Q, Q1
  <2>3. /\ x \in Nat /\ r \in Nat /\ pe \in Nat /\ pk \in Nat /\ ph \in Nat /\ q \in Nat /\ q1 \in Nat /\ n \in Nat
        /\ ph + q1 = q + n
    BY <1>9
  <2>4. /\ x <= x + r /\ r + pe <= (x + r) + (pe + pk) /\ pk + ph <= (pe + pk) + q /\ q1 <= q + n
    BY <2>1, <2>3
  <2> QED
    BY <2>1, <2>2, <2>4 DEF PsPath, M, M1, Q, Q1
<1>11. u = (a + b) + (c + z) /\ u1 = (x + a) + (b + c) /\ t = x + r /\ t1 = r + pe
       /\ p = (u + (x + r)) + ((pe + pk) + q) /\ p1 = (u1 + (r + pe)) + ((pk + ph) + q1)
       /\ t1 \in 0 .. 4 /\ t \in 0 .. 4
  BY <1>7, <1>8, <1>9
<1> HIDE DEF a, b, c, z, x, r, pe, pk, ph, q, q1, n, u, u1, p, p1, t, t1
<1>12. u \in 0 .. 4 /\ u1 \in 0 .. 4 /\ z <= u
  BY <1>9, <1>11
<1>13. u1 + z <= u + t /\ (u1 + t1) + z <= p /\ u + t <= p /\ u1 + t1 <= p1
  BY <1>9, <1>11
<1>14. p1 + z = p + n
  BY <1>9, <1>11
<1>15. p1 \in 0 .. 10
  BY <1>9, <1>11, <1>12
<1>16. p \in 0 .. 10
  BY PsTypes DEF p
<1> QED
  BY <1>9, <1>10, <1>11, <1>12, <1>13, <1>14, <1>15, <1>16 DEF PsMoves, z, n, u, u1, p, p1, t, t1

(* The reads of the on-chip RAM that leave within n clocks when nothing      *)
(* holds them: those in the output registers of the results f, in f, and in  *)
(* the pipeline r behind it.                                                 *)
Given(f, r, n) ==
    IF n = 0 THEN 0
    ELSE IF n = 1 THEN Num(f.res # <<>>)
    ELSE IF n = 2 THEN Num(f.res # <<>>) + Num(f.bram # <<>>)
    ELSE IF n = 3 THEN Len(FifoWords(f))
    ELSE IF n = 4 THEN Len(FifoWords(f)) + Num(r[3])
    ELSE IF n = 5 THEN Len(FifoWords(f)) + (Num(r[3]) + Num(r[2]))
    ELSE Len(FifoWords(f)) + ((Num(r[3]) + Num(r[2])) + Num(r[1]))

(* The first b of them leave within n clocks, one in a clock.                *)
Leave(f, r, b, n) == b <= n /\ b <= Given(f, r, n)

(* An output register is empty only when the words have just begun to come.  *)
ResultsShape == results.res = <<>> \/ results.bram = <<>> => Len(results.q) <= 1

LEMMA GivenGrows ==
    ASSUME NEW f, ErShape(f, {"bram"}), NEW r
    PROVE  /\ Given(f, r, 0) = 0 /\ Given(f, r, 1) \in 0 .. 1 /\ Given(f, r, 2) \in 0 .. 2 /\ Given(f, r, 3) \in Nat
           /\ Given(f, r, 4) \in Nat /\ Given(f, r, 5) \in Nat /\ Given(f, r, 6) \in Nat
           /\ Given(f, r, 1) <= Given(f, r, 2) /\ Given(f, r, 2) <= Given(f, r, 3)
           /\ Given(f, r, 3) <= Given(f, r, 4) /\ Given(f, r, 4) <= Given(f, r, 5)
           /\ Given(f, r, 5) <= Given(f, r, 6) /\ Given(f, r, 2) <= Given(f, r, 1) + 1
           /\ Given(f, r, 4) <= Given(f, r, 3) + 1 /\ Given(f, r, 5) <= Given(f, r, 4) + 1
           /\ Given(f, r, 6) <= Given(f, r, 5) + 1
           /\ Given(f, r, 3) = Given(f, r, 2) + Len(f.q) /\ Len(f.q) \in Nat
           /\ (f.res # <<>> <=> Given(f, r, 1) = 1) /\ (f.bram # <<>> <=> Given(f, r, 2) = Given(f, r, 1) + 1)
<1> DEFINE lw == Len(FifoWords(f))
           lq == Len(f.q)
           x == Num(f.res # <<>>)
           y == Num(f.bram # <<>>)
           b == Num(r[1])
           c == Num(r[2])
           d == Num(r[3])
<1>1. lw = (x + y) + lq /\ lq \in Nat
  BY ErWords DEF ErShape
<1>2. /\ x \in 0 .. 1 /\ y \in 0 .. 1 /\ b \in 0 .. 1 /\ c \in 0 .. 1 /\ d \in 0 .. 1
      /\ (f.res # <<>> <=> x = 1) /\ (f.bram # <<>> <=> y = 1)
  BY DEF Num
<1>3. /\ Given(f, r, 0) = 0 /\ Given(f, r, 1) = x /\ Given(f, r, 2) = x + y /\ Given(f, r, 3) = lw
      /\ Given(f, r, 4) = lw + d /\ Given(f, r, 5) = lw + (d + c) /\ Given(f, r, 6) = lw + ((d + c) + b)
  BY DEF Given
<1> HIDE DEF lw, lq, x, y, b, c, d
<1>4. /\ x + y \in 0 .. 2 /\ lw \in Nat /\ lw + d \in Nat /\ lw + (d + c) \in Nat /\ lw + ((d + c) + b) \in Nat
      /\ x <= x + y /\ x + y <= lw /\ lw <= lw + d /\ lw + d <= lw + (d + c) /\ lw + (d + c) <= lw + ((d + c) + b)
      /\ x + y <= x + 1 /\ lw + d <= lw + 1 /\ lw + (d + c) <= (lw + d) + 1
      /\ lw + ((d + c) + b) <= (lw + (d + c)) + 1 /\ (y = 1 <=> x + y = x + 1)
  BY <1>1, <1>2
<1>5. lq = Len(f.q)
  BY DEF lq
<1> QED
  BY <1>1, <1>2, <1>3, <1>4, <1>5

LEMMA LeaveLater ==
    ASSUME NEW f, ErShape(f, {"bram"}), NEW r, NEW b \in Nat, NEW n \in 0 .. 6, NEW k \in 0 .. 6, n <= k,
           Leave(f, r, b, n)
    PROVE  Leave(f, r, b, k)
<1> DEFINE g(x) == Given(f, r, x)
<1>1. /\ g(0) = 0 /\ g(1) \in Nat /\ g(2) \in Nat /\ g(3) \in Nat /\ g(4) \in Nat /\ g(5) \in Nat /\ g(6) \in Nat
      /\ g(1) <= g(2) /\ g(2) <= g(3) /\ g(3) <= g(4) /\ g(4) <= g(5) /\ g(5) <= g(6)
  BY GivenGrows
<1>2. n \in {0, 1, 2, 3, 4, 5, 6} /\ k \in {0, 1, 2, 3, 4, 5, 6} /\ b <= n /\ b <= g(n)
  BY DEF Leave
<1> HIDE DEF g
<1>3. b <= k /\ b <= g(k)
  BY <1>1, <1>2
<1> QED
  BY <1>3 DEF Leave, g

(* How the words of the on-chip RAM move at an edge.                         *)
GivenMoves ==
    /\ Given(results', ram', 3) + Num(bram_res_m_tready) = Given(results, ram, 4)
    /\ Given(results', ram', 4) + Num(bram_res_m_tready) = Given(results, ram, 5)
    /\ Given(results', ram', 5) + Num(bram_res_m_tready) = Given(results, ram, 6)
    /\ results.res = <<>> \/ bram_res_m_tready =>
          /\ Given(results', ram', 1) + Num(bram_res_m_tready) = Given(results, ram, 2)
          /\ Given(results', ram', 2) + Num(bram_res_m_tready) = Given(results, ram, 3) \/ Given(results', ram', 2) = 2

LEMMA GivenStep ==
    ASSUME Rooms, CreditsInv, CreditsInv', ResultsShape, ResultsMove,
           NEW nb, NEW ns, NEW video, MapperAs(nb, ns, video)
    PROVE  GivenMoves /\ ResultsShape'
<1> DEFINE t == bram_res_m_tready
           nt == Num(t)
           lw == Len(FifoWords(results))
           lw1 == Len(FifoWords(results'))
           o == IF ram[3] THEN <<"bram">> ELSE <<>>
           S == {"bram"}
           g == FifoErStep(results, RESULT_DEPTH, o, t)
<1>1. /\ ErMoves(S, results, results', t, o) /\ lw1 + nt = lw + Num(ram[3])
      /\ ram'[2] = ram[1] /\ ram'[3] = ram[2]
  BY DEF ResultsMove
<1>2. /\ Given(results, ram, 3) = lw /\ Given(results, ram, 4) = lw + Num(ram[3]) /\ Given(results, ram, 5) = lw + (Num(ram[3]) + Num(ram[2]))
      /\ Given(results, ram, 6) = lw + ((Num(ram[3]) + Num(ram[2])) + Num(ram[1]))
  BY DEF Given
<1>3. Given(results', ram', 3) = lw1 /\ Given(results', ram', 4) = lw1 + Num(ram[2]) /\ Given(results', ram', 5) = lw1 + (Num(ram[2]) + Num(ram[1]))
  BY <1>1 DEF Given
<1>4. lw \in Nat /\ lw1 \in Nat /\ nt \in 0 .. 1 /\ Num(ram[1]) \in 0 .. 1 /\ Num(ram[2]) \in 0 .. 1 /\ Num(ram[3]) \in 0 .. 1
      /\ t \in BOOLEAN /\ (t => results.res # <<>>) /\ (nt = 1 <=> t)
  <2>1. lw \in Nat
    BY ErWords DEF CreditsInv
  <2>2. lw1 \in Nat
    BY <1>1, ErWords DEF ErMoves
  <2> QED
    BY <2>1, <2>2 DEF Num, bram_res_m_tready
<1>5. /\ Given(results', ram', 3) + nt = Given(results, ram, 4) /\ Given(results', ram', 4) + nt = Given(results, ram, 5) /\ Given(results', ram', 5) + nt = Given(results, ram, 6)
  <2> DEFINE b == Num(ram[1])
             c == Num(ram[2])
             d == Num(ram[3])
  <2> HIDE DEF lw, lw1, nt, b, c, d
  <2>1. lw1 + nt = lw + d /\ lw1 \in Nat /\ lw \in Nat /\ nt \in 0 .. 1 /\ b \in 0 .. 1 /\ c \in 0 .. 1 /\ d \in 0 .. 1
    BY <1>1, <1>4 DEF b, c, d
  <2>2. (lw1 + c) + nt = lw + (d + c) /\ (lw1 + (c + b)) + nt = lw + ((d + c) + b)
    BY <2>1
  <2> QED
    BY <1>2, <1>3, <2>1, <2>2 DEF b, c, d
<1>6. ResultsShape'
  <2>1. Len(o) \in 0 .. 1 /\ Len(o) <= 1
    OBVIOUS
  <2>2. /\ results'.bram = <<>> => results'.q = o
        /\ results'.res = <<>> => results.bram = <<>>
        /\ results.bram = <<>> => results'.q = Cat(Popped(results.q, Num(results.q # <<>>)), o)
    BY <1>1 DEF ErMoves
  <2>3. CASE results.bram = <<>>
    <3>1. Len(results.q) <= 1 /\ results.q \in Seq(S) /\ AtMostOneOf(S, o)
      BY <2>3 DEF ResultsShape, CreditsInv, ErShape, AtMostOneOf
    <3> DEFINE q == results.q
               q1 == results'.q
               k == Num(q # <<>>)
    <3>2. k \in {0, 1} /\ (k = 1 => q # <<>>) /\ (q # <<>> => k = 1) /\ q1 = Cat(Popped(q, k), o)
      BY <2>2, <2>3 DEF Num
    <3> HIDE DEF q1, o, k
    <3>3. MovedOn(S, q, k, o, q1)
      BY <3>1, <3>2, Moved
    <3>4. Len(q1) = (Len(q) - k) + Len(o)
      BY <3>3 DEF MovedOn
    <3>5. Len(q) - k = 0
      BY <3>1, <3>2
    <3> QED
      BY <2>1, <3>4, <3>5 DEF ResultsShape, q1
  <2>4. CASE results.bram # <<>>
    <3> HIDE DEF o
    <3>1. results'.res # <<>>
      BY <2>2, <2>4
    <3>2. results'.bram = <<>> => results'.q = o
      BY <2>2
    <3>3. Len(o) <= 1
      BY <2>1
    <3>4. results'.bram = <<>> => Len(results'.q) <= 1
      BY <3>2, <3>3
    <3> QED
      BY <3>1, <3>4 DEF ResultsShape
  <2> QED
    BY <2>3, <2>4
<1>7. ASSUME results.res = <<>> \/ t
      PROVE  Given(results', ram', 1) + nt = Given(results, ram, 2) /\ (Given(results', ram', 2) + nt = Given(results, ram, 3) \/ Given(results', ram', 2) = 2)
  <2> DEFINE e == Num(results.res # <<>>)
             f == Num(results.bram # <<>>)
             lq == Len(results.q)
             h == Num(results.q # <<>>)
  <2>1. results' = g
    BY DEF MapperAs
  <2>2. g.res = results.bram /\ g.bram = (IF results.q # <<>> THEN <<Head(results.q)>> ELSE <<>>)
    BY <1>7 DEF FifoErStep
  <2>3. (results'.res # <<>> <=> results.bram # <<>>) /\ (results'.bram # <<>> <=> results.q # <<>>)
    BY <2>1, <2>2
  <2>4. Given(results', ram', 1) = f /\ Given(results', ram', 2) = f + h
    BY <2>3 DEF Given, Num
  <2>5. nt = e
    BY <1>4, <1>7 DEF Num
  <2>6. Given(results, ram, 2) = e + f /\ Given(results, ram, 3) = Given(results, ram, 2) + lq /\ lq \in Nat
    BY GivenGrows DEF Given, CreditsInv
  <2>7. e \in 0 .. 1 /\ f \in 0 .. 1 /\ h \in 0 .. 1 /\ (h = 0 => lq = 0) /\ (h = 1 => lq >= 1)
        /\ (lq <= 1 \/ f = 1)
    <3>1. results.q = <<>> => lq = 0
      OBVIOUS
    <3>2. results.q # <<>> => lq >= 1
      BY DEF CreditsInv, ErShape
    <3> QED
      BY <3>1, <3>2 DEF Num, ResultsShape
  <2> HIDE DEF nt, e, f, lq, h
  <2> QED
    BY <2>4, <2>5, <2>6, <2>7
<1> QED
  BY <1>5, <1>6, <1>7 DEF GivenMoves

(* Nothing holds the first b of them: at an edge they are one clock nearer.  *)
LEMMA LeaveStep ==
    ASSUME CreditsInv, ErShape(results', {"bram"}), ResultsShape, GivenMoves,
           NEW b \in Nat, NEW n \in 1 .. 6, Leave(results, ram, b, n),
           b # 0 => (bram_res_m_tready <=> results.res # <<>>),
           NEW b1, b1 = IF b = 0 THEN 0 ELSE b - Num(bram_res_m_tready)
    PROVE  b1 \in Nat /\ Leave(results', ram', b1, n - 1)
<1> DEFINE t == Num(bram_res_m_tready)
           g(x) == Given(results, ram, x)
           h(x) == Given(results', ram', x)
<1>1. t \in 0 .. 1 /\ (t = 1 <=> bram_res_m_tready)
  BY DEF Num
<1>2. /\ g(1) \in 0 .. 1 /\ g(2) \in 0 .. 2 /\ g(3) \in Nat /\ g(4) \in Nat /\ g(5) \in Nat /\ g(6) \in Nat
      /\ (results.res # <<>> <=> g(1) = 1) /\ g(2) <= g(1) + 1 /\ g(4) <= g(3) + 1 /\ g(5) <= g(4) + 1
      /\ g(6) <= g(5) + 1 /\ g(3) = g(2) + Len(results.q) /\ Len(results.q) \in Nat
  BY GivenGrows DEF CreditsInv
<1>3. /\ h(0) = 0 /\ h(1) \in Nat /\ h(2) \in Nat /\ h(3) \in Nat /\ h(4) \in Nat /\ h(5) \in Nat
  BY GivenGrows
<1>4. b <= n /\ b <= g(n)
  BY DEF Leave
<1>5. /\ h(3) + t = g(4) /\ h(4) + t = g(5) /\ h(5) + t = g(6)
      /\ b # 0 => h(1) + t = g(2) /\ (h(2) + t = g(3) \/ h(2) = 2)
  BY DEF GivenMoves
<1>6. /\ b # 0 => t = g(1)
      /\ g(1) = 0 => g(3) <= 2
  <2> HIDE DEF t, g, h
  <2>1. g(1) = 0 => Len(results.q) <= 1
    BY <1>2 DEF ResultsShape
  <2> QED
    BY <1>1, <1>2, <2>1
<1> HIDE DEF t, g, h
<1>7. CASE b = 0
  <2>1. n - 1 \in {0, 1, 2, 3, 4, 5}
    OBVIOUS
  <2>2. b1 = 0 /\ 0 <= n - 1 /\ 0 <= h(n - 1)
    BY <1>3, <1>7, <2>1
  <2> QED
    BY <2>2 DEF Leave, h
<1>8. CASE b # 0
  <2>1. b1 = b - t
    BY <1>8 DEF t
  <2>2. CASE n = 1
    <3>1. b = 1 /\ t = 1
      BY <1>1, <1>2, <1>4, <1>6, <1>8, <2>2
    <3>2. b1 = 0 /\ n - 1 = 0
      BY <2>1, <2>2, <3>1
    <3> QED
      BY <1>3, <3>2 DEF Leave, h
  <2>3. CASE n \in 2 .. 6
    <3>1. b1 <= n - 1
      BY <1>1, <1>2, <1>4, <1>5, <1>6, <1>8, <2>1, <2>3
    <3>2. b1 \in Nat
      BY <1>1, <1>8, <2>1
    <3>3. b1 <= h(n - 1)
      <4>1. /\ t \in Int /\ h(1) \in Int /\ h(2) \in Int /\ h(3) \in Int /\ h(4) \in Int /\ h(5) \in Int
            /\ b \in Int /\ b1 = b - t /\ b <= n /\ b <= g(n)
        BY <1>1, <1>3, <1>4, <2>1
      <4>2. CASE n = 2
        <5>1. n - 1 = 1 /\ g(n) = g(2) /\ h(1) + t = g(2)
          BY <1>5, <1>8, <4>2
        <5> QED
          BY <4>1, <5>1
      <4>3. CASE n = 3
        <5>1. n - 1 = 2 /\ g(n) = g(3) /\ (h(2) + t = g(3) \/ h(2) = 2)
          BY <1>5, <1>8, <4>3
        <5>2. h(2) = 2 => b1 <= h(2)
          BY <3>1, <5>1
        <5>3. h(2) + t = g(3) => b1 <= h(2)
          BY <4>1, <5>1
        <5> QED
          BY <5>1, <5>2, <5>3
      <4>4. CASE n = 4
        <5>1. n - 1 = 3 /\ g(n) = g(4) /\ h(3) + t = g(4)
          BY <1>5, <4>4
        <5> QED
          BY <4>1, <5>1
      <4>5. CASE n = 5
        <5>1. n - 1 = 4 /\ g(n) = g(5) /\ h(4) + t = g(5)
          BY <1>5, <4>5
        <5> QED
          BY <4>1, <5>1
      <4>6. CASE n = 6
        <5>1. n - 1 = 5 /\ g(n) = g(6) /\ h(5) + t = g(6)
          BY <1>5, <4>6
        <5> QED
          BY <4>1, <5>1
      <4> QED
        BY <2>3, <4>2, <4>3, <4>4, <4>5, <4>6
    <3> QED
      BY <3>1, <3>2, <3>3 DEF Leave, h
  <2> QED
    BY <2>2, <2>3
<1> QED
  BY <1>7, <1>8

(* The queue of turns holds two memories.  b reads of the on-chip RAM come   *)
(* before the p reads of the SDRAM, the others after them.                   *)
Memory == {"bram", "sdram"}
OrderShape == ErShape(order, Memory)
TurnsOf(w, b, p) ==
    \A n \in 1 .. Len(w) : w[n] = IF n > b /\ n <= b + p THEN "sdram" ELSE "bram"

(* The first b leave before the answer of the first read of the SDRAM comes, *)
(* however near it is.                                                       *)
Before(b) ==
    /\ Ps(rd_valid[4]) = 1 => Leave(results, ram, b, 0)
    /\ Ps(rd_valid[3]) = 1 => Leave(results, ram, b, 1)
    /\ Ps(rd_valid[2]) = 1 => Leave(results, ram, b, 2)
    /\ Ps(rd_valid[1]) = 1 => Leave(results, ram, b, 3)
    /\ PsTodo(todo) >= 1 => Leave(results, ram, b, 4)
    /\ Ps(ReadPort(sdram_req_m, 1)) = 1 => Leave(results, ram, b, 5)
    /\ Ps(ReadPort(sdram_req, 1)) = 1 => Leave(results, ram, b, 6)

Lead(b) ==
    /\ TurnsOf(FifoWords(order), b, PsAll) /\ Before(b)
    /\ PsAll = 0 => b = bram_trans_cnt

TurnsInv ==
    /\ Len(FifoWords(order)) = PsAll + bram_trans_cnt
    /\ \E b \in 0 .. bram_trans_cnt : Lead(b)
    /\ order.res = <<>> => PsUnder = 0 /\ Given(results, ram, 5) = 0
    /\ order.bram = <<>> => (PsUnder + PsTodo(todo)) + Given(results, ram, 6) <= Len(order.res)
    /\ ResultsShape

TurnFacts(b) ==
    /\ FifoReady(order, ORDER_DEPTH)
    /\ Ps(za) = 1 => b = 0 /\ PsAll >= 1 /\ order.res = <<"sdram">>
    /\ res_of("ps") <=> Ps(za) = 1
    /\ bram_res_m_tready => b >= 1 /\ results.res # <<>>
    /\ b # 0 => (bram_res_m_tready <=> results.res # <<>>)
    /\ Num(mem_res_tvalid) = Ps(za) + Num(bram_res_m_tready)
    /\ ~held_back => bram_req_tready /\ (PsAll >= 1 => b = bram_trans_cnt)

(* What is taken from the queue of turns is there.                           *)
LEMMA TurnTaken ==
    /\ mem_res_tvalid \in BOOLEAN /\ (mem_res_tvalid => order.res # <<>>)
    /\ bram_res_m_tready \in BOOLEAN /\ (bram_res_m_tready => results.res # <<>> /\ order.res = <<"bram">>)
<1>1. <<"sdram">> # <<>> /\ <<"bram">> # <<>>
  OBVIOUS
<1> QED
  BY <1>1 DEF mem_res_tvalid, bram_res_m_tready

(* The turns give what an answer needs.                                      *)
LEMMA TurnsHold ==
    ASSUME Rooms, OrderShape, TurnsInv, ArbiterFacts, CreditsInv, NEW b \in 0 .. bram_trans_cnt, Lead(b)
    PROVE  TurnFacts(b)
<1> DEFINE w == FifoWords(order)
           lw == Len(w)
           lq == Len(order.q)
           p == PsAll
           cnt == bram_trans_cnt
           e == Num(order.res # <<>>)
           f == Num(order.bram # <<>>)
<1>1. w \in Seq(Memory) /\ lw = (e + f) + lq /\ (order.res # <<>> => w # <<>> /\ order.res = <<w[1]>>)
  BY ErWords DEF OrderShape
<1>2. lw \in Nat /\ lq \in Nat /\ e \in Nat /\ f \in Nat /\ (order.res # <<>> => e = 1)
  <2>1. lw \in Nat /\ lq \in Nat
    BY <1>1 DEF OrderShape, ErShape
  <2> QED
    BY <2>1 DEF Num
<1>3. /\ p \in 0 .. 10 /\ lw = p + cnt /\ cnt \in 0 .. CREDITS /\ PsUnder <= p /\ Ps(za) <= PsUnder
      /\ PsUnder \in 0 .. 4 /\ Ps(za) \in 0 .. 1 /\ b \in 0 .. cnt
  <2>1. p \in 0 .. 10 /\ PsUnder + PsTodo(todo) <= p /\ PsUnder \in 0 .. 4 /\ Ps(za) <= PsUnder /\ PsTodo(todo) \in 0 .. 4
        /\ Ps(za) \in 0 .. 1
    BY PsTypes
  <2> HIDE DEF p
  <2>2. PsUnder <= p
    BY <2>1
  <2> QED
    BY <2>1, <2>2 DEF TurnsInv, CreditsInv, p
<1>4. CREDITS \in Nat /\ ORDER_DEPTH \in Nat /\ ORDER_DEPTH > CREDITS + 11
  BY SocAssumption DEF Rooms
<1>5. /\ \A n \in 1 .. lw : w[n] = IF n > b /\ n <= b + p THEN "sdram" ELSE "bram"
      /\ p = 0 => b = cnt
      /\ Ps(za) = 1 => b <= 0
  BY DEF Lead, TurnsOf, Before, Leave, za
<1>6. order.res = <<>> => PsUnder = 0 /\ results.res = <<>>
  <2>1. ASSUME order.res = <<>>, results.res # <<>> PROVE FALSE
    <3>1. Given(results, ram, 5) = 0
      BY <2>1 DEF TurnsInv
    <3> DEFINE g(x) == Given(results, ram, x)
    <3>2. /\ g(1) = 1 /\ g(2) \in Nat /\ g(3) \in Nat /\ g(4) \in Nat /\ g(5) \in Nat
          /\ g(1) <= g(2) /\ g(2) <= g(3) /\ g(3) <= g(4) /\ g(4) <= g(5) /\ g(5) = 0
      BY <2>1, <3>1, GivenGrows DEF CreditsInv
    <3> HIDE DEF g
    <3> QED
      BY <3>2
  <2> QED
    BY <2>1 DEF TurnsInv
<1>7. ASSUME ~held_back PROVE bram_req_tready /\ \A x, y \in 1 .. lw : x < y => ~(w[x] = "sdram" /\ w[y] = "bram")
  <2>1. DOMAIN w = 1 .. lw
    BY <1>1
  <2> QED
    BY <1>7, <2>1 DEF held_back
<1> HIDE DEF w, lw, lq, p, cnt, e, f
<1>8. lq # ORDER_DEPTH - 1
  BY <1>1, <1>2, <1>3, <1>4
<1>9. order.res # <<>> => lw >= 1 /\ 1 \in 1 .. lw
  BY <1>1, <1>2
<1>10. ASSUME Ps(za) = 1 PROVE b = 0 /\ p >= 1 /\ order.res = <<"sdram">>
  <2>1. order.res # <<>> /\ p >= 1 /\ b = 0
    BY <1>3, <1>5, <1>6, <1>10
  <2>2. w[1] = "sdram"
    BY <1>3, <1>5, <1>9, <2>1
  <2> QED
    BY <1>1, <2>1, <2>2
<1>11. ASSUME order.res = <<"bram">> PROVE b >= 1
  <2>1. order.res # <<>>
    BY <1>11
  <2>2. w[1] = "bram" /\ lw >= 1
    <3>1. <<"bram">> = <<w[1]>>
      BY <1>1, <1>11, <2>1
    <3> QED
      BY <1>9, <2>1, <3>1
  <2>3. SUFFICES ASSUME b = 0 PROVE FALSE
    BY <1>3
  <2>4. p >= 1
    BY <1>2, <1>3, <1>5, <2>2, <2>3
  <2>5. w[1] = "sdram"
    BY <1>3, <1>5, <1>9, <2>1, <2>3, <2>4
  <2> QED
    BY <2>2, <2>5
<1>12. ASSUME b # 0, results.res # <<>> PROVE bram_res_m_tready
  <2>1. order.res # <<>>
    BY <1>6, <1>12
  <2>2. w[1] = "bram"
    BY <1>3, <1>5, <1>9, <1>12, <2>1
  <2> QED
    BY <1>1, <1>12, <2>1, <2>2 DEF bram_res_m_tready
<1>13. res_of("ps") <=> Ps(za) = 1
  <2>1. za # <<>> => route.res = za
    BY DEF ArbiterFacts
  <2>2. Ps(za) = 1 <=> za = <<"ps">>
    BY DEF Ps, Num
  <2>3. <<"ps">> # <<>>
    OBVIOUS
  <2> QED
    BY <2>1, <2>2, <2>3 DEF res_of
<1>14. mem_res_tvalid <=> Ps(za) = 1 \/ bram_res_m_tready
  BY <1>10, <1>13 DEF mem_res_tvalid
<1>15. bram_res_m_tready => b >= 1 /\ results.res # <<>>
  BY <1>11, TurnTaken
<1>16. ~(Ps(za) = 1 /\ bram_res_m_tready)
  BY <1>3, <1>10, <1>15
<1>17. Num(mem_res_tvalid) = Ps(za) + Num(bram_res_m_tready)
  BY <1>3, <1>14, <1>16 DEF Num
<1>18. ~held_back => bram_req_tready /\ (p >= 1 => b = cnt)
  <2>1. SUFFICES ASSUME ~held_back, p >= 1, b # cnt PROVE FALSE
    BY <1>7
  <2> DEFINE x == b + 1
  <2>2. x \in 1 .. lw /\ lw \in 1 .. lw /\ x < lw /\ x > b /\ x <= b + p /\ ~(lw <= b + p)
    BY <1>2, <1>3, <1>4, <2>1
  <2> HIDE DEF x
  <2>3. w[x] = "sdram" /\ w[lw] = "bram"
    BY <1>5, <2>2
  <2> QED
    BY <1>7, <2>1, <2>2, <2>3
<1>19. FifoReady(order, ORDER_DEPTH)
  BY <1>8 DEF FifoReady, lq
<1> QED
  BY <1>10, <1>12, <1>13, <1>15, <1>17, <1>18, <1>19 DEF TurnFacts, p, cnt

(* A word leaves for an answer of the SDRAM (z) or of the on-chip RAM (t),   *)
(* and one comes for a read of the SDRAM (is) or of the on-chip RAM (ib).    *)
TurnsChange(w, b, p, c, z, t, o, is, ib) ==
    /\ w \in Seq(Memory) /\ p \in Nat /\ c \in Nat /\ b \in 0 .. c /\ Len(w) = p + c /\ TurnsOf(w, b, p)
    /\ z \in 0 .. 1 /\ t \in 0 .. 1 /\ z + t <= 1 /\ (p = 0 => b = c)
    /\ z = 1 => p >= 1 /\ b = 0
    /\ t = 1 => b >= 1
    /\ AtMostOneOf(Memory, o) /\ is \in 0 .. 1 /\ ib \in 0 .. 1 /\ is + ib = Len(o)
    /\ is = 1 => o = <<"sdram">> /\ b = c
    /\ ib = 1 => o = <<"bram">>

(* The reads of the on-chip RAM that lead then.                              *)
LeadNext(b, t, p1, c1) == IF p1 = 0 THEN c1 ELSE b - t

LEMMA TurnsMove ==
    ASSUME NEW w, NEW b, NEW p, NEW c, NEW z, NEW t, NEW o, NEW is, NEW ib,
           TurnsChange(w, b, p, c, z, t, o, is, ib), NEW r, r = Cat(Popped(w, z + t), o),
           NEW p1, NEW c1, p1 = (p - z) + is, c1 = (c - t) + ib
    PROVE  /\ r \in Seq(Memory) /\ Len(r) = p1 + c1 /\ TurnsOf(r, LeadNext(b, t, p1, c1), p1)
           /\ LeadNext(b, t, p1, c1) \in 0 .. c1
<1>0. /\ w \in Seq(Memory) /\ p \in Nat /\ c \in Nat /\ b \in 0 .. c /\ Len(w) = p + c /\ TurnsOf(w, b, p)
      /\ z \in 0 .. 1 /\ t \in 0 .. 1 /\ z + t <= 1 /\ (p = 0 => b = c)
      /\ z = 1 => p >= 1 /\ b = 0
      /\ t = 1 => b >= 1
      /\ AtMostOneOf(Memory, o) /\ is \in 0 .. 1 /\ ib \in 0 .. 1 /\ is + ib = Len(o)
      /\ is = 1 => o = <<"sdram">> /\ b = c
      /\ ib = 1 => o = <<"bram">>
  BY DEF TurnsChange
<1> DEFINE k == z + t
           lw == Len(w)
           lo == Len(o)
           lr == Len(r)
           b1 == LeadNext(b, t, p1, c1)
<1>1. /\ lw \in Nat /\ lw = p + c /\ (lw # 0 => w # <<>>)
      /\ \A n \in 1 .. lw : w[n] = IF n > b /\ n <= b + p THEN "sdram" ELSE "bram"
  BY <1>0 DEF TurnsOf
<1>2. lo \in 0 .. 1 /\ is + ib = lo /\ (lo = 1 => o # <<>>)
  BY <1>0, OneIsSeq DEF Num
<1>3. k \in {0, 1} /\ (k = 1 => w # <<>>)
  <2> HIDE DEF lw
  <2> QED
    BY <1>0, <1>1
<1> HIDE DEF k
<1>4. r = Cat(Popped(w, k), o)
  BY DEF k
<1>5. MovedOn(Memory, w, k, o, r)
  BY <1>0, <1>3, <1>4, Moved
<1>6. /\ r \in Seq(Memory) /\ lr = (lw - k) + lo
      /\ \A n \in 1 .. lw - k : r[n] = w[n + k]
      /\ o # <<>> => r[(lw - k) + 1] = o[1]
  BY <1>5 DEF MovedOn
<1>7. k = z + t /\ p1 = (p - z) + is /\ c1 = (c - t) + ib /\ b1 = IF p1 = 0 THEN c1 ELSE b - t
  BY DEF k, LeadNext
<1> HIDE DEF lw, lo, lr, b1
<1>8. lr = p1 + c1 /\ b1 \in 0 .. c1 /\ p1 \in Nat /\ c1 \in Nat
  BY <1>0, <1>1, <1>2, <1>6, <1>7
<1>9. ASSUME NEW n \in 1 .. lr PROVE r[n] = IF n > b1 /\ n <= b1 + p1 THEN "sdram" ELSE "bram"
  <2>1. CASE n <= lw - k
    <3>1. n \in 1 .. lw - k /\ n + k \in 1 .. lw
      BY <1>0, <1>1, <1>3, <2>1
    <3>2. r[n] = IF n + k > b /\ n + k <= b + p THEN "sdram" ELSE "bram"
      BY <1>0, <1>1, <1>6, <3>1
    <3>3. n + k > b /\ n + k <= b + p <=> n > b1 /\ n <= b1 + p1
      <4>1. CASE p1 = 0
        BY <1>0, <1>1, <1>7, <2>1, <4>1
      <4>2. CASE p1 # 0 /\ z = 1
        BY <1>0, <1>1, <1>7, <2>1, <4>2
      <4>3. CASE p1 # 0 /\ z = 0
        BY <1>0, <1>1, <1>7, <2>1, <4>3
      <4> QED
        BY <1>0, <4>1, <4>2, <4>3
    <3> QED
      BY <3>2, <3>3
  <2>2. CASE ~(n <= lw - k)
    <3>1. lo = 1 /\ n = (lw - k) + 1
      BY <1>0, <1>1, <1>2, <1>3, <1>6, <2>2
    <3>2. r[n] = o[1]
      BY <1>2, <1>6, <3>1
    <3>3. CASE is = 1
      <4>1. o[1] = "sdram" /\ c = b /\ ib = 0
        BY <1>0, <1>2, <3>1, <3>3
      <4>2. n > b1 /\ n <= b1 + p1
        BY <1>0, <1>1, <1>7, <1>8, <3>1, <3>3, <4>1
      <4> QED
        BY <3>2, <4>1, <4>2
    <3>4. CASE ib = 1
      <4>1. o[1] = "bram" /\ is = 0
        BY <1>0, <1>2, <3>1, <3>4
      <4>2. ~(n > b1 /\ n <= b1 + p1)
        BY <1>0, <1>1, <1>7, <1>8, <3>1, <3>4, <4>1
      <4> QED
        BY <3>2, <4>1, <4>2
    <3> QED
      BY <1>0, <1>2, <3>1, <3>3, <3>4
  <2> QED
    BY <2>1, <2>2
<1>10. TurnsOf(r, b1, p1)
  BY <1>9 DEF TurnsOf, lr
<1> QED
  BY <1>6, <1>8, <1>10 DEF lr, b1

(* The queue of turns at an edge; a word that finds it full is dropped.      *)
LEMMA OrderStep ==
    ASSUME OrderShape, NEW nb, NEW ns, NEW video, MapperAs(nb, ns, video)
    PROVE  /\ OrderShape'
           /\ AtMostOneOf(Memory, Turn(nb, ns))
           /\ FifoReady(order, ORDER_DEPTH) => ErMoves(Memory, order, order', mem_res_tvalid, Turn(nb, ns))
<1> DEFINE o == Turn(nb, ns)
           t == mem_res_tvalid
           x == IF FifoReady(order, ORDER_DEPTH) THEN o ELSE <<>>
           g == FifoErStep(order, ORDER_DEPTH, o, t)
           g1 == FifoErStep(order, ORDER_DEPTH, x, t)
<1>1. AtMostOneOf(Memory, o)
  BY DEF Turn, AtMostOneOf, Memory
<1>2. t \in BOOLEAN /\ (t => order.res # <<>>) /\ order' = g /\ ErShape(order, Memory)
  BY TurnTaken DEF MapperAs, OrderShape
<1>3. g = g1
  BY DEF FifoErStep
<1>4. AtMostOneOf(Memory, x) /\ (x # <<>> => FifoReady(order, ORDER_DEPTH))
  BY <1>1 DEF AtMostOneOf
<1> DEFINE y == g1
<1>5. y = FifoErStep(order, ORDER_DEPTH, x, t) /\ order' = y
  BY <1>2, <1>3
<1>6. FifoReady(order, ORDER_DEPTH) => x = o
  OBVIOUS
<1> HIDE DEF o, t, x, g, g1, y
<1>7. ErMoves(Memory, order, y, t, x)
  BY <1>2, <1>4, <1>5, ErStep
<1>8. ErShape(order', Memory)
  BY <1>5, <1>7 DEF ErMoves
<1>9. FifoReady(order, ORDER_DEPTH) => ErMoves(Memory, order, order', t, o)
  BY <1>5, <1>6, <1>7
<1> QED
  BY <1>1, <1>8, <1>9 DEF OrderShape, o, t

(* The reads that lead are still before every read of the SDRAM.             *)
LEMMA BeforeStep ==
    ASSUME Rooms, CREDITS <= 7, CreditsInv, CreditsInv', ResultsShape, GivenMoves,
           NEW b \in 0 .. bram_trans_cnt, Lead(b), TurnFacts(b),
           NEW nb, NEW ns, NEW video, MapperAs(nb, ns, video), CreditMoves(nb), PsMoves(ns), PsPath(ns),
           IsRead(ns) => ~held_back, NEW b1, b1 = b - Num(bram_res_m_tready)
    PROVE  b1 \in Nat /\ Before(b1)'
<1> DEFINE L(n) == Leave(results, ram, b, n)
           N(n) == Leave(results', ram', b1, n)
           M == Ps(ReadPort(sdram_req_m, 1))
           Q == Ps(ReadPort(sdram_req, 1))
           T == PsTodo(todo)
           R(k) == Ps(rd_valid[k])
           M1 == Ps(ReadPort(sdram_req_m', 1))
           Q1 == Ps(ReadPort(sdram_req', 1))
           T1 == PsTodo(todo')
           R1(k) == Ps(rd_valid'[k])
<1>1. b \in Nat /\ CREDITS \in Nat /\ bram_trans_cnt \in 0 .. CREDITS
  BY SocAssumption DEF CreditsInv
<1>2. b1 = IF b = 0 THEN 0 ELSE b - Num(bram_res_m_tready)
  BY <1>1 DEF TurnFacts, Num
<1>3. ErShape(results, {"bram"}) /\ ErShape(results', {"bram"})
  BY DEF CreditsInv
<1>4. b1 \in Nat
  BY <1>1, <1>2 DEF TurnFacts, Num
<1>5. ASSUME NEW n \in 1 .. 6, L(n) PROVE N(n - 1)
  <2>1. b # 0 => (bram_res_m_tready <=> results.res # <<>>)
    BY DEF TurnFacts
  <2> QED
    BY <1>1, <1>2, <1>3, <1>5, <2>1, LeaveStep
<1>6. ASSUME NEW n \in 0 .. 6, NEW k \in 0 .. 6, n <= k, N(n) PROVE N(k)
  BY <1>3, <1>4, <1>6, LeaveLater
<1>7. ASSUME NEW n \in 0 .. 6, NEW k \in 0 .. 6, n <= k, L(n) PROVE L(k)
  BY <1>1, <1>3, <1>7, LeaveLater
<1>8. /\ R(4) = 1 => L(0)
      /\ R(3) = 1 => L(1)
      /\ R(2) = 1 => L(2)
      /\ R(1) = 1 => L(3)
      /\ T >= 1 => L(4)
      /\ M = 1 => L(5)
      /\ Q = 1 => L(6)
  BY DEF Lead, Before
<1>9. /\ R1(2) = R(1) /\ R1(3) = R(2) /\ R1(4) = R(3) /\ R1(1) <= T /\ T1 <= T + M /\ M1 <= M + Q
      /\ Q1 <= Q + Num(IsRead(ns))
  BY DEF PsPath
<1>10. /\ M \in 0 .. 1 /\ Q \in 0 .. 1 /\ M1 \in 0 .. 1 /\ Q1 \in 0 .. 1 /\ T \in 0 .. 4 /\ T1 \in 0 .. 4
       /\ R(1) \in 0 .. 1 /\ R(2) \in 0 .. 1 /\ R(3) \in 0 .. 1 /\ R(4) \in 0 .. 1 /\ R1(1) \in 0 .. 1
       /\ PsAll = (((R(1) + R(2)) + (R(3) + R(4))) + T) + (M + Q)
  BY PsTypes, PsTodoType DEF PsAll, PsUnder
<1> HIDE DEF M, Q, T, R, M1, Q1, T1, R1, L, N
<1>11. /\ R1(4) = 1 => N(0)
       /\ R1(3) = 1 => N(1)
       /\ R1(2) = 1 => N(2)
       /\ R1(1) = 1 => N(3)
  <2>1. (L(1) => N(0)) /\ (L(2) => N(1)) /\ (L(3) => N(2)) /\ (L(4) => N(3))
    <3>1. \A n \in 1 .. 6 : L(n) => N(n - 1)
      BY <1>5
    <3>2. 1 - 1 = 0 /\ 2 - 1 = 1 /\ 3 - 1 = 2 /\ 4 - 1 = 3 /\ {1, 2, 3, 4} \subseteq 1 .. 6
      OBVIOUS
    <3> QED
      BY <3>1, <3>2
  <2>2. R1(1) = 1 => T >= 1
    BY <1>9, <1>10
  <2> QED
    BY <1>8, <1>9, <2>1, <2>2
<1>12. (L(4) => N(4)) /\ (L(5) => N(4) /\ N(5)) /\ (L(6) => N(5) /\ N(6))
  <2>1. \A n \in 1 .. 6 : L(n) => N(n - 1)
    BY <1>5
  <2>2. \A n, k \in 0 .. 6 : n <= k /\ N(n) => N(k)
    BY <1>6
  <2>3. 4 - 1 = 3 /\ 5 - 1 = 4 /\ 6 - 1 = 5 /\ {4, 5, 6} \subseteq 1 .. 6 /\ {3, 4, 5, 6} \subseteq 0 .. 6
        /\ 3 <= 4 /\ 4 <= 5 /\ 5 <= 6
    OBVIOUS
  <2>4. (L(4) => N(3)) /\ (L(5) => N(4)) /\ (L(6) => N(5))
    BY <2>1, <2>3
  <2> QED
    BY <2>2, <2>3, <2>4
<1>13. T1 >= 1 => N(4)
  <2>1. T1 >= 1 => T >= 1 \/ M = 1
    BY <1>9, <1>10
  <2> QED
    BY <1>8, <1>12, <2>1
<1>14. M1 = 1 => N(5)
  <2>1. M1 = 1 => M = 1 \/ Q = 1
    BY <1>9, <1>10
  <2> QED
    BY <1>8, <1>12, <2>1
<1>15. ASSUME IsRead(ns) PROVE N(6)
  <2>1. CASE PsAll # 0
    <3>1. R(1) = 1 \/ R(2) = 1 \/ R(3) = 1 \/ R(4) = 1 \/ T >= 1 \/ M = 1 \/ Q = 1
      BY <1>10, <2>1
    <3>2. \A n, k \in 0 .. 6 : n <= k /\ L(n) => L(k)
      BY <1>7
    <3>3. {0, 1, 2, 3, 4, 5, 6} \subseteq 0 .. 6 /\ 0 <= 6 /\ 1 <= 6 /\ 2 <= 6 /\ 3 <= 6 /\ 4 <= 6 /\ 5 <= 6
      OBVIOUS
    <3>4. L(6)
      BY <1>8, <3>1, <3>2, <3>3
    <3> QED
      BY <1>12, <3>4
  <2>2. CASE PsAll = 0
    <3>1. bram_req_tready /\ b = bram_trans_cnt
      BY <1>15, <2>2 DEF TurnFacts, Lead
    <3>2. nb = <<>> /\ bram_req' = <<>>
      BY <1>15, <3>1 DEF MapperAs, IsRead, bram_request
    <3>3. ~IsRead(nb) /\ ~IsRead(bram_req')
      BY <3>2 DEF IsRead
    <3> DEFINE c == bram_trans_cnt
               c1 == bram_trans_cnt'
               t == Num(bram_res_m_tready)
               lw1 == Len(FifoWords(results'))
               x == Num(ram'[1])
               y == Num(ram'[2])
               z == Num(ram'[3])
    <3>4. c1 + t = c + 0
      BY <3>3 DEF CreditMoves, Num
    <3>5. c1 = (0 + x + (y + z)) + lw1
      BY <3>3 DEF CreditsInv, BramReads, Num
    <3>6. Given(results', ram', 6) = lw1 + ((z + y) + x)
      BY DEF Given
    <3>7. c < CREDITS /\ c \in Nat /\ c1 \in Nat /\ lw1 \in Nat /\ x \in 0 .. 1 /\ y \in 0 .. 1 /\ z \in 0 .. 1
          /\ t \in 0 .. 1
      <4>1. lw1 \in Nat
        BY <1>3, ErWords
      <4>2. c < CREDITS /\ c \in Nat /\ c1 \in Nat
        BY <1>1, <3>1 DEF CreditsInv
      <4> QED
        BY <4>1, <4>2 DEF Num
    <3>8. b1 = c - t
      BY <3>1
    <3> HIDE DEF c, c1, t, lw1, x, y, z
    <3>9. b1 <= 6 /\ b1 <= lw1 + ((z + y) + x)
      BY <1>1, <3>4, <3>5, <3>7, <3>8
    <3> QED
      BY <3>6, <3>9 DEF N, Leave
  <2> QED
    BY <2>1, <2>2
<1>16. Q1 = 1 => N(6)
  <2>1. Q1 = 1 => Q = 1 \/ IsRead(ns)
    BY <1>9, <1>10 DEF Num
  <2> QED
    BY <1>8, <1>12, <1>15, <2>1
<1>17. Before(b1)'
  BY <1>11, <1>13, <1>14, <1>16 DEF Before, N, R1, T1, M1, Q1
<1> QED
  BY <1>4, <1>17

(* The turns move with the answers of both memories and the CPU's reads.     *)
LEMMA TurnsStep ==
    ASSUME Rooms, CREDITS <= 7, OrderShape, TurnsInv, ArbiterFacts, CreditsInv, CreditsInv', ResultsMove,
           NEW nb, NEW ns, NEW video, MapperAs(nb, ns, video), CreditMoves(nb), PsMoves(ns), PsPath(ns),
           IsRead(ns) => ~held_back
    PROVE  TurnsInv'
<1> DEFINE w == FifoWords(order)
           o == Turn(nb, ns)
           w1 == FifoWords(order')
           z == Ps(za)
           t == Num(bram_res_m_tready)
           is == Num(IsRead(ns))
           ib == Num(IsRead(nb))
           p == PsAll
           p1 == PsAll'
           c == bram_trans_cnt
           c1 == bram_trans_cnt'
<1>1. PICK b \in 0 .. bram_trans_cnt : Lead(b)
  BY DEF TurnsInv
<1>2. TurnFacts(b)
  BY <1>1, TurnsHold
<1>3. ~(IsRead(nb) /\ IsRead(ns))
  BY DEF MapperAs, IsRead
<1>4. is \in 0 .. 1 /\ ib \in 0 .. 1 /\ is + ib = Len(o) /\ (is = 1 <=> IsRead(ns)) /\ (ib = 1 <=> IsRead(nb))
      /\ (is = 1 => o = <<"sdram">>) /\ (ib = 1 => o = <<"bram">>)
  <2>1. CASE IsRead(ns)
    BY <1>3, <2>1 DEF Turn, Num
  <2>2. CASE ~IsRead(ns) /\ IsRead(nb)
    BY <2>2 DEF Turn, Num
  <2>3. CASE ~IsRead(ns) /\ ~IsRead(nb)
    BY <2>3 DEF Turn, Num
  <2> QED
    BY <2>1, <2>2, <2>3
<1>5. /\ AtMostOneOf(Memory, o) /\ OrderShape' /\ ErMoves(Memory, order, order', mem_res_tvalid, o)
  BY <1>2, OrderStep DEF TurnFacts
<1>6. /\ ErShape(order', Memory) /\ w1 = Cat(Popped(w, Num(mem_res_tvalid)), o)
      /\ order'.bram = <<>> => order.q = <<>> /\ order'.q = o
      /\ order'.res = <<>> => order.bram = <<>> /\ (order.res = <<>> \/ mem_res_tvalid)
  BY <1>5 DEF ErMoves
<1>7. GivenMoves /\ ResultsShape'
  BY GivenStep DEF TurnsInv
<1>8. ResultsShape
  BY DEF TurnsInv
<1>9. PICK bn \in Nat : bn = b - t /\ Before(bn)'
  <2>1. PICK x : x = b - Num(bram_res_m_tready)
    OBVIOUS
  <2>2. x \in Nat /\ Before(x)'
    BY <1>1, <1>2, <1>7, <1>8, <2>1, BeforeStep
  <2> QED
    BY <2>1, <2>2
<1>10. /\ z \in 0 .. 1 /\ t \in 0 .. 1 /\ p \in 0 .. 10 /\ p1 \in 0 .. 10 /\ c \in Nat /\ c1 \in Nat
       /\ p1 + z = p + is /\ c1 + t = c + ib /\ b \in 0 .. c
  <2>1. c \in Nat /\ c1 \in Nat
    BY SocAssumption DEF CreditsInv
  <2>2. c1 + t = c + ib
    BY DEF CreditMoves
  <2>3. t \in 0 .. 1
    BY DEF Num
  <2> QED
    BY <1>1, <2>1, <2>2, <2>3 DEF PsMoves
<1>11. /\ z = 1 => p >= 1 /\ b = 0
       /\ t = 1 => b >= 1
       /\ is = 1 /\ p >= 1 => b = c
       /\ p = 0 => b = c
       /\ Num(mem_res_tvalid) = z + t
  BY <1>1, <1>2, <1>4 DEF TurnFacts, Lead, Num
<1>12. w \in Seq(Memory) /\ Len(w) = p + c /\ TurnsOf(w, b, p)
  BY <1>1, ErWords DEF OrderShape, TurnsInv, Lead
<1>13. z + t <= 1 /\ (mem_res_tvalid <=> z + t = 1)
  <2>1. z + t = Num(mem_res_tvalid)
    BY <1>11
  <2> HIDE DEF z, t
  <2> QED
    BY <2>1, TurnTaken DEF Num
<1> HIDE DEF w, o, w1, z, t, is, ib, p, p1, c, c1
<1>14. PICK b1 : /\ b1 = LeadNext(b, t, p1, c1)
                 /\ w1 \in Seq(Memory) /\ Len(w1) = p1 + c1 /\ TurnsOf(w1, b1, p1) /\ b1 \in 0 .. c1
  <2>1. TurnsChange(w, b, p, c, z, t, o, is, ib)
    BY <1>4, <1>5, <1>10, <1>11, <1>12, <1>13 DEF TurnsChange
  <2>2. w1 = Cat(Popped(w, z + t), o)
    BY <1>6, <1>11
  <2>3. p1 = (p - z) + is /\ c1 = (c - t) + ib
    BY <1>4, <1>10
  <2>4. PICK x : x = LeadNext(b, t, p1, c1)
    OBVIOUS
  <2> QED
    BY <2>1, <2>2, <2>3, <2>4, TurnsMove
<1>15. Lead(b1)'
  <2>1. CASE p1 = 0
    <3>1. b1 = c1
      BY <1>14, <2>1 DEF LeadNext
    <3>2. PsAll' = 0
      BY <2>1 DEF p1
    <3>3. Before(b1)'
      <4> DEFINE M1 == Ps(ReadPort(sdram_req_m', 1))
                 Q1 == Ps(ReadPort(sdram_req', 1))
                 T1 == PsTodo(todo')
                 R1(k) == Ps(rd_valid'[k])
      <4>1. PsAll' = (((R1(1) + R1(2)) + (R1(3) + R1(4))) + T1) + (M1 + Q1)
        BY DEF PsAll, PsUnder
      <4>2. /\ M1 \in 0 .. 1 /\ Q1 \in 0 .. 1 /\ T1 \in 0 .. 4 /\ R1(1) \in 0 .. 1 /\ R1(2) \in 0 .. 1
            /\ R1(3) \in 0 .. 1 /\ R1(4) \in 0 .. 1
        BY PsTypes, PsTodoType
      <4> HIDE DEF M1, Q1, T1, R1
      <4>3. /\ M1 # 1 /\ Q1 # 1 /\ ~(T1 >= 1) /\ R1(1) # 1 /\ R1(2) # 1 /\ R1(3) # 1 /\ R1(4) # 1
        BY <3>2, <4>1, <4>2
      <4> QED
        BY <4>3 DEF Before, M1, Q1, T1, R1
    <3> QED
      BY <1>14, <3>1, <3>3 DEF Lead, w1, p1, c1
  <2>2. CASE p1 # 0
    <3>1. b1 = bn
      BY <1>9, <1>14, <2>2 DEF LeadNext
    <3>2. PsAll' # 0
      BY <2>2 DEF p1
    <3>3. Before(b1)'
      BY <1>9, <3>1
    <3> QED
      BY <1>14, <3>2, <3>3 DEF Lead, w1, p1
  <2> QED
    BY <2>1, <2>2
<1> DEFINE u == PsUnder
           u1 == PsUnder'
           td == PsTodo(todo)
           td1 == PsTodo(todo')
           lr == Len(order.res)
           lr1 == Len(order'.res)
           lo == Len(o)
           g == Given(results, ram, 6)
           g1 == Given(results', ram', 6)
           h1 == Given(results', ram', 5)
<1>16. /\ u \in 0 .. 4 /\ u1 \in 0 .. 4 /\ td \in 0 .. 4 /\ td1 \in 0 .. 4 /\ z <= u /\ u1 + z <= u + td
       /\ (u1 + td1) + z <= p
  BY DEF PsMoves, z, p
<1>17. lr \in 0 .. 1 /\ (order.res = <<>> => lr = 0) /\ lr1 \in 0 .. 1 /\ lr1 = Num(order'.res # <<>>)
  <2>1. AtMostOneOf(Memory, order.res) /\ AtMostOneOf(Memory, order'.res)
    BY <1>6 DEF OrderShape, ErShape
  <2>2. lr = Num(order.res # <<>>) /\ lr1 = Num(order'.res # <<>>)
    BY <2>1, OneIsSeq
  <2> QED
    BY <2>2 DEF Num
<1>18. /\ g \in Nat /\ g1 \in Nat /\ h1 \in Nat /\ h1 + t = g
  <2>1. ErShape(results, {"bram"}) /\ ErShape(results', {"bram"})
    BY DEF CreditsInv
  <2>2. Given(results, ram, 6) \in Nat /\ Given(results', ram', 6) \in Nat /\ Given(results', ram', 5) \in Nat
    BY <2>1, GivenGrows
  <2>3. Given(results', ram', 5) + Num(bram_res_m_tready) = Given(results, ram, 6)
    BY <1>7 DEF GivenMoves
  <2> QED
    BY <2>2, <2>3 DEF t
<1>19. order.bram = <<>> => (u + td) + g <= lr
  BY DEF TurnsInv
<1>20. order'.res = <<>> => PsUnder' = 0 /\ Given(results', ram', 5) = 0
  <2>1. SUFFICES ASSUME order'.res = <<>> PROVE u1 = 0 /\ h1 = 0
    OBVIOUS
  <2>2. order.bram = <<>> /\ (order.res = <<>> \/ z + t = 1)
    BY <1>6, <1>13, <2>1
  <2>3. (u + td) + g <= lr
    BY <1>19, <2>2
  <2> HIDE DEF u, u1, td, td1, lr, lr1, lo, g, g1, h1
  <2>4. CASE order.res = <<>>
    BY <1>10, <1>16, <1>17, <1>18, <2>3, <2>4
  <2>5. CASE z + t = 1
    BY <1>10, <1>16, <1>17, <1>18, <2>3, <2>5
  <2> QED
    BY <2>2, <2>4, <2>5
<1>21. g1 + ib <= c1
  <2> DEFINE a == Num(IsRead(bram_req'))
             lw1 == Len(FifoWords(results'))
             x == Num(ram'[1])
             y == Num(ram'[2])
             v == Num(ram'[3])
  <2>1. c1 = (a + x + (y + v)) + lw1
    BY DEF CreditsInv, BramReads, c1
  <2>2. g1 = lw1 + ((v + y) + x)
    BY DEF Given
  <2>3. ib <= a
    <3>1. CASE IsRead(nb)
      <4>1. bram_req' = nb
        BY <3>1 DEF MapperAs, bram_request, IsRead
      <4> QED
        BY <3>1, <4>1 DEF ib, Num
    <3>2. CASE ~IsRead(nb)
      BY <3>2 DEF ib, Num
    <3> QED
      BY <3>1, <3>2
  <2>4. a \in 0 .. 1 /\ x \in 0 .. 1 /\ y \in 0 .. 1 /\ v \in 0 .. 1 /\ lw1 \in Nat
    <3>1. lw1 \in Nat
      BY ErWords DEF CreditsInv
    <3> QED
      BY <3>1 DEF Num
  <2> HIDE DEF a, lw1, x, y, v, g1
  <2> QED
    BY <1>4, <2>1, <2>2, <2>3, <2>4
<1>22. order'.bram = <<>> => (PsUnder' + PsTodo(todo')) + Given(results', ram', 6) <= Len(order'.res)
  <2>1. SUFFICES ASSUME order'.bram = <<>> PROVE (u1 + td1) + g1 <= lr1
    OBVIOUS
  <2>2. order'.q = o
    BY <1>6, <2>1
  <2> DEFINE lw1 == Len(w1)
  <2>3. lw1 = (lr1 + 0) + lo
    <3> DEFINE f == order'
    <3>1. ErShape(f, Memory)
      BY <1>6
    <3>2. f.q = o /\ Num(f.bram # <<>>) = 0 /\ lr1 = Num(f.res # <<>>) /\ lw1 = Len(FifoWords(f)) /\ lo = Len(o)
      BY <1>17, <2>1, <2>2 DEF Num, w1
    <3> HIDE DEF f, lr1, lw1, lo
    <3>3. Len(FifoWords(f)) = (Num(f.res # <<>>) + Num(f.bram # <<>>)) + Len(f.q)
      BY <3>1, ErWords
    <3> QED
      BY <3>2, <3>3
  <2>4. lw1 = p1 + c1 /\ lo = is + ib
    BY <1>4, <1>14
  <2> HIDE DEF u, u1, td, td1, lr, lr1, lo, lw1, g, g1, h1
  <2>5. p1 + c1 = lr1 + (is + ib)
    BY <1>4, <1>10, <1>17, <2>3, <2>4
  <2> QED
    BY <1>4, <1>10, <1>16, <1>17, <1>18, <1>21, <2>5
<1>23. Len(FifoWords(order')) = PsAll' + bram_trans_cnt'
  BY <1>14 DEF w1, p1, c1
<1>24. \E x \in 0 .. bram_trans_cnt' : Lead(x)'
  <2>1. b1 \in 0 .. bram_trans_cnt'
    BY <1>14 DEF c1
  <2> QED
    BY <1>15, <2>1
<1> QED
  BY <1>7, <1>20, <1>22, <1>23, <1>24 DEF TurnsInv

-----------------------------------------------------------------------------
(***************************************************************************)
(* The theorems.                                                            *)
(***************************************************************************)
(* What the controller needs to know of what is around it.                   *)
Around == AtMostOneOf(Request, sdram_req_m) /\ AtMostOneOf(RequestOf("ps"), sdram_req) /\ scene \in Scenes
          /\ bram_req_tready \in BOOLEAN

(* The requests of a scene.                                                  *)
LEMMA Scene ==
    ASSUME scene \in Scenes
    PROVE  /\ \A mem_req \in MemRequests : AtMostOneOf(CpuRequest, mem_req)
           /\ \A video \in Video : AtMostOneOf(RequestOf("video"), video) /\ AtMostOneOf(Request, video)
           /\ RequestOf("ps") \subseteq Request
<1>1. scene.cpu \subseteq CpuRequest /\ scene.video \subseteq RequestOf("video")
  BY SocAssumption DEF CpuRequest, BramRequest
<1>2. ASSUME NEW mem_req \in MemRequests PROVE AtMostOneOf(CpuRequest, mem_req)
  BY <1>1 DEF MemRequests, AtMostOneOf
<1>3. RequestOf("video") \subseteq Request /\ RequestOf("ps") \subseteq Request
  BY DEF RequestOf
<1>4. ASSUME NEW video \in Video
      PROVE  AtMostOneOf(RequestOf("video"), video) /\ AtMostOneOf(Request, video)
  BY <1>1, <1>3 DEF Video, AtMostOneOf
<1> QED
  BY <1>2, <1>3, <1>4

LEMMA AroundStep ==
    ASSUME CtrlType, Around, NEW mem_req \in MemRequests, NEW video \in Video, Edge(mem_req, video)
    PROVE  Around'
<1>1. AtMostOneOf(CpuRequest, mem_req) /\ AtMostOneOf(Request, video) /\ RequestOf("ps") \subseteq Request
  BY Scene DEF Around
<1>2. AtMostOneOf(Request, granted(video))
  BY <1>1 DEF granted, Around, AtMostOneOf
<1>3. AtMostOneOf(Request, sdram_req_m')
  BY <1>2 DEF Edge, Arbiter, Around, AtMostOneOf
<1>4. PICK nb, ns : MapperAs(nb, ns, video)
  <2>1. bram_req_tready \in BOOLEAN /\ Mapper(mem_req, video)
    BY DEF Around, Edge
  <2> QED
    BY <1>1, <2>1, MapperFields
<1>5. AtMostOneOf(RequestOf("ps"), sdram_req')
  BY <1>4 DEF MapperAs, Around, AtMostOneOf
<1>6. bram_req_tready' \in BOOLEAN
  <2>1. bram_req_tready' = (IF IsRead(nb) # event_bram_res /\ bram_trans_cnt = CREDITS - 1
                            THEN event_bram_res ELSE bram_req_tready)
    BY <1>4 DEF MapperAs, bram_credit
  <2>2. event_bram_res \in BOOLEAN
    BY DEF event_bram_res, bram_res_m_tready
  <2> QED
    BY <2>1, <2>2 DEF Around
<1>7. scene' \in Scenes
  BY DEF Edge, Around
<1> QED
  BY <1>3, <1>5, <1>6, <1>7 DEF Around

LEMMA CtrlEdgeStep ==
    ASSUME Times, CtrlInv, Around, NEW mem_req \in MemRequests, NEW video \in Video, Edge(mem_req, video)
    PROVE  /\ CtrlInv' /\ Around' /\ PathMoves(Accepted(sdram_req_m))
<1> DEFINE offer == sdram_req_m
<1>1. AtMostOneOf(Request, offer) /\ CtrlEdge(offer) /\ CtrlType
  BY DEF Around, Edge, Arbiter, CtrlInv
<1> HIDE DEF offer
<1>2. CtrlInv' /\ ReadLeaves /\ TodoMoves(offer) /\ AtMostOneOf(Request, Accepted(offer))
  BY <1>1, CtrlStep
<1>3. PathMoves(Accepted(offer))
  BY <1>1, <1>2, PathStep
<1>4. Around'
  BY <1>1, AroundStep
<1> QED
  BY <1>2, <1>3, <1>4 DEF offer

(* Nothing moves.                                                            *)
LEMMA CtrlStutter ==
    ASSUME UNCHANGED ctrl_vars
    PROVE  /\ CtrlInv' <=> CtrlInv
           /\ rd_valid' = rd_valid /\ todo' = todo /\ m' = m
<1>1. /\ ref' = ref /\ i' = i /\ m' = m /\ entries' = entries /\ f_pop' = f_pop /\ active' = active /\ oe' = oe
      /\ rd_valid' = rd_valid /\ chip' = chip /\ todo' = todo
  BY DEF ctrl_vars
<1>2. CtrlType' <=> CtrlType
  BY <1>1 DEF CtrlType
<1>3. Machines' <=> Machines
  <2>1. (Running' <=> Running) /\ (Initialising' <=> Initialising)
    BY <1>1 DEF Running, Initialising, Closed, RowOpen, Kind, Asked, BothNop
  <2> QED
    BY <1>1, <2>1 DEF Machines
<1>4. InTime' <=> InTime
  BY <1>1 DEF InTime, Deadline
<1>5. DataPins' <=> DataPins
  BY <1>1 DEF DataPins, Reading
<1>6. Requests' <=> Requests
  BY <1>1 DEF Requests, CommandsFollowRequests, Rest, Armed, column
<1> QED
  BY <1>1, <1>2, <1>3, <1>4, <1>5, <1>6 DEF CtrlInv

(* The controller asks the chip for what it was asked, in order and with the *)
(* right row open, each command finds the chip ready, the data pins have one *)
(* driver and no refresh comes too late: for every set of banks, rows and    *)
(* columns, and every chip whose times the waits of the controller cover.    *)
THEOREM ControllerObeys ==
    ASSUME Times
    PROVE  Spec => []SdramObeys
<1> DEFINE I == CtrlInv /\ Around
<1>1. Init => I
  <2>1. InitCtrl => CtrlInv
    BY CtrlInit
  <2>2. Init => Around
    BY DEF Init, Around, AtMostOneOf
  <2> QED
    BY <2>1, <2>2 DEF Init
<1>2. I /\ [Next]_vars => I'
  <2> SUFFICES ASSUME I, [Next]_vars PROVE I'
    OBVIOUS
  <2>1. CASE Next
    <3>1. PICK mem_req \in MemRequests, video \in Video : Edge(mem_req, video)
      BY <2>1 DEF Next
    <3> QED
      BY <3>1, CtrlEdgeStep
  <2>2. CASE UNCHANGED vars
    BY <2>2, CtrlStutter DEF vars, mmu_vars, Around
  <2> QED
    BY <2>1, <2>2
<1>3. I => SdramObeys
  BY CtrlObeys
<1> QED
  BY <1>1, <1>2, <1>3, PTL DEF Spec

(* The reads of the system, whatever the CPU asks: the queue of ports and    *)
(* the credits.  The queue of turns is in order as long as no read of the    *)
(* SDRAM has overtaken a read of the on-chip RAM that was held back.         *)
PortsInv == CtrlInv /\ Around /\ ArbiterInv /\ CreditsInv /\ OrderShape
Inv == PortsInv /\ (overtaken \/ TurnsInv)

(* An answer finds its port at the head of the arbiter's queue, which has    *)
(* room for every port, and each result of the on-chip RAM has its place.    *)
PortsAndResults ==
    /\ AnswerFindsItsPort
    /\ route_s # <<>> => FifoReady(route, ORDER_DEPTH)
    /\ ram[3] => FifoReady(results, RESULT_DEPTH)

LEMMA PortsHold ==
    ASSUME Rooms, PortsInv
    PROVE  ArbiterFacts /\ PortsAndResults
<1>1. ArbiterFacts
  BY ArbiterHolds DEF PortsInv, CtrlInv
<1>2. ram[3] => FifoReady(results, RESULT_DEPTH)
  BY ResultsReady DEF PortsInv
<1> QED
  BY <1>1, <1>2 DEF ArbiterFacts, PortsAndResults, AnswerFindsItsPort

LEMMA AnswersHold ==
    ASSUME Rooms, Inv
    PROVE  AnswersFindTheirWay
<1>1. CtrlType /\ ArbiterInv /\ OrderShape /\ CreditsInv /\ TypeOK
  BY CtrlObeys DEF Inv, PortsInv, CtrlInv
<1>2. ArbiterFacts /\ PortsAndResults
  BY PortsHold DEF Inv
<1>3. ASSUME ~overtaken PROVE (res_of("ps") => order.res = <<"sdram">>) /\ FifoReady(order, ORDER_DEPTH)
  <2>1. TurnsInv
    BY <1>3 DEF Inv
  <2>2. PICK b \in 0 .. bram_trans_cnt : Lead(b)
    BY <2>1 DEF TurnsInv
  <2>3. TurnFacts(b)
    BY <1>1, <1>2, <2>1, <2>2, TurnsHold
  <2> QED
    BY <2>3 DEF TurnFacts
<1>4. AnswerHasItsTurn
  BY <1>3 DEF AnswerHasItsTurn, NoAnswerIsDropped
<1>5. AnswerFindsItsPort
  BY <1>2 DEF PortsAndResults
<1>6. QueuesHaveRoom
  BY <1>2, <1>3 DEF QueuesHaveRoom, PortsAndResults
<1>7. MapperTypeOK
  <2>1. \A n \in DOMAIN FifoWords(order) : FifoWords(order)[n] \in {"bram", "sdram"}
    <3>1. FifoWords(order) \in Seq(Memory)
      BY <1>1, ErWords DEF OrderShape
    <3> QED
      BY <3>1 DEF Memory
  <2>2. \A n \in DOMAIN FifoWords(route) : FifoWords(route)[n] \in Port
    BY <1>2 DEF ArbiterFacts
  <2> QED
    BY <1>1, <2>1, <2>2 DEF MapperTypeOK, CreditsInv
<1> QED
  BY <1>4, <1>5, <1>6, <1>7 DEF AnswersFindTheirWay

LEMMA AnswersInit ==
    ASSUME Init
    PROVE  Inv
<1>1. CtrlInv /\ todo = <<>> /\ m.cmd = "nop" /\ rd_valid = <<<<>>, <<>>, <<>>, <<>>>>
  BY CtrlInit DEF Init, InitCtrl
<1>2. Around
  BY DEF Init, Around, AtMostOneOf
<1>3. rd_valid[1] = <<>> /\ rd_valid[2] = <<>> /\ rd_valid[3] = <<>> /\ rd_valid[4] = <<>>
  BY <1>1
<1>4. Num(FALSE) = 0 /\ Ps(<<>>) = 0
  BY DEF Num, Ps
<1>5. ReadPort(<<>>, 1) = <<>> /\ ReadPort(<<>>, 2) = <<>> /\ ReadPort(<<>>, 3) = <<>> /\ ReadPort(<<>>, 4) = <<>>
  BY DEF ReadPort
<1>6. Cat(<<>>, <<>>) = <<>>
  <2>1. <<>> \in Seq(Port)
    OBVIOUS
  <2> QED
    BY <2>1, CatFacts
<1>7. OnTheWay = <<>> /\ ReadPorts(todo) = <<>> /\ Under = 0 /\ PsUnder = 0 /\ PsTodo(todo) = 0
  BY <1>1, <1>3, <1>4, <1>5, <1>6 DEF OnTheWay, ReadPorts, Under, PsUnder, PsTodo, Num
<1>8. \A S : ErShape(EmptyFifo, S) /\ FifoWords(EmptyFifo) = <<>> /\ EmptyFifo.res = <<>> /\ EmptyFifo.bram = <<>>
  BY EmptyIsFifo DEF IsFifo, ErShape, EmptyFifo
<1>9. /\ order = EmptyFifo /\ results = EmptyFifo /\ route = EmptyFifo /\ bram_req = <<>> /\ ram = <<FALSE, FALSE, FALSE>>
      /\ bram_trans_cnt = 0 /\ bram_req_tready = TRUE /\ sdram_req = <<>> /\ sdram_req_m = <<>> /\ route_s = <<>>
  BY DEF Init
<1>10. ArbiterInv
  <2>1. Under + Num(m.cmd = "rd") = 0 /\ Len(route.res) = 0
    BY <1>1, <1>7, <1>8, <1>9 DEF Num
  <2>2. ErShape(route, Port) /\ AtMostOneOf(Port, route_s) /\ AtMostOneOf(Request, sdram_req_m)
    BY <1>8, <1>9 DEF AtMostOneOf
  <2>3. Cat(FifoWords(route), route_s) = Cat(OnTheWay, Cat(ReadPorts(todo), ReadPort(sdram_req_m, 1)))
    BY <1>5, <1>6, <1>7, <1>8, <1>9
  <2> QED
    BY <1>7, <1>9, <2>1, <2>2, <2>3 DEF ArbiterInv
<1>11. OrderShape /\ TurnsInv
  <2>1. PsAll = 0
    BY <1>4, <1>5, <1>7, <1>9 DEF PsAll
  <2>2. ErShape(order, Memory) /\ FifoWords(order) = <<>> /\ order.res = <<>> /\ results.res = <<>>
        /\ FifoWords(results) = <<>> /\ results.q = <<>>
    BY <1>8, <1>9 DEF EmptyFifo
  <2>3. Len(<<>>) = 0
    OBVIOUS
  <2>4. Len(FifoWords(order)) = PsAll + bram_trans_cnt
    BY <1>9, <2>1, <2>2, <2>3
  <2>5. ram[1] = FALSE /\ ram[2] = FALSE /\ ram[3] = FALSE
    BY <1>9
  <2>6. Given(results, ram, 5) = 0 /\ Given(results, ram, 6) = 0
    BY <2>2, <2>3, <2>5 DEF Given, Num
  <2>7. Lead(0)
    <3>1. Leave(results, ram, 0, 0)
      BY DEF Leave, Given
    <3>2. /\ Ps(rd_valid[1]) = 0 /\ Ps(rd_valid[2]) = 0 /\ Ps(rd_valid[3]) = 0 /\ Ps(rd_valid[4]) = 0
          /\ Ps(ReadPort(sdram_req_m, 1)) = 0 /\ Ps(ReadPort(sdram_req, 1)) = 0
      BY <1>3, <1>4, <1>5, <1>9
    <3>3. Before(0)
      BY <1>7, <3>2 DEF Before
    <3>4. TurnsOf(FifoWords(order), 0, PsAll)
      BY <2>2, <2>3 DEF TurnsOf
    <3> QED
      BY <1>9, <3>3, <3>4 DEF Lead
  <2>8. (PsUnder + PsTodo(todo)) + Given(results, ram, 6) <= Len(order.res)
    BY <1>7, <2>2, <2>3, <2>6
  <2>9. \E b \in 0 .. bram_trans_cnt : Lead(b)
    <3>1. 0 \in 0 .. bram_trans_cnt
      BY <1>9
    <3> QED
      BY <2>7, <3>1
  <2>10. ResultsShape
    BY <2>2, <2>3 DEF ResultsShape
  <2> QED
    BY <1>7, <2>2, <2>4, <2>6, <2>8, <2>9, <2>10 DEF TurnsInv, OrderShape
<1>12. CreditsInv
  <2>1. CREDITS \in Nat \ {0}
    BY SocAssumption
  <2>2. ErShape(results, {"bram"}) /\ FifoWords(results) = <<>> /\ AtMostOneOf(BramRequest, bram_req)
    BY <1>8, <1>9 DEF AtMostOneOf
  <2>3. ram[1] = FALSE /\ ram[2] = FALSE /\ ram[3] = FALSE /\ ram \in [1 .. 3 -> BOOLEAN]
    <3>1. \A x, y, z \in BOOLEAN : <<x, y, z>> \in [1 .. 3 -> BOOLEAN]
      OBVIOUS
    <3>2. ram \in [1 .. 3 -> BOOLEAN]
      BY <1>9, <3>1
    <3>3. ram[1] = FALSE /\ ram[2] = FALSE /\ ram[3] = FALSE
      BY <1>9
    <3> QED
      BY <3>2, <3>3
  <2>4. ~IsRead(bram_req)
    BY <1>9 DEF IsRead
  <2>5. BramReads = 0
    BY <2>3, <2>4 DEF BramReads, Num
  <2>6. Len(<<>>) = 0
    OBVIOUS
  <2> QED
    BY <1>9, <2>1, <2>2, <2>3, <2>5, <2>6 DEF CreditsInv
<1> QED
  BY <1>1, <1>2, <1>10, <1>11, <1>12 DEF Inv, PortsInv

LEMMA PortsStep ==
    ASSUME Times, Rooms, PortsInv, NEW mem_req \in MemRequests, NEW video \in Video, Edge(mem_req, video)
    PROVE  /\ PortsInv' /\ PathMoves(Accepted(sdram_req_m)) /\ RequestMoves(video)
           /\ \E nb, ns : /\ MapperAs(nb, ns, video) /\ CreditMoves(nb) /\ ResultsMove
                          /\ ~overtaken' => ~overtaken /\ (IsRead(ns) => ~held_back)
<1>1. CtrlType /\ Around /\ ArbiterInv /\ CreditsInv /\ OrderShape
  BY DEF PortsInv, CtrlInv
<1>2. CtrlInv' /\ CtrlType' /\ Around' /\ PathMoves(Accepted(sdram_req_m))
  BY CtrlEdgeStep DEF PortsInv, CtrlInv
<1>3. /\ AtMostOneOf(CpuRequest, mem_req) /\ AtMostOneOf(RequestOf("video"), video) /\ AtMostOneOf(Request, video)
      /\ RequestOf("ps") \subseteq Request
  BY <1>1, Scene DEF Around
<1>4. Arbiter(video) /\ Mapper(mem_req, video)
  BY DEF Edge
<1>5. RequestMoves(video)
  <2>1. AtMostOneOf(Request, sdram_req) /\ AtMostOneOf(Request, sdram_req_m)
    BY <1>1, <1>3 DEF Around, AtMostOneOf
  <2> QED
    BY <1>3, <1>4, <2>1, RequestStep
<1>6. ArbiterInv'
  BY <1>1, <1>2, <1>4, <1>5, ArbiterStep
<1>7. PICK nb, ns : /\ MapperAs(nb, ns, video)
                    /\ IsRead(ns) => mem_req # <<>> /\ mem_req[1][1] = "sdram" /\ ~mem_req[1][2].wr
  <2>1. bram_req_tready \in BOOLEAN
    BY <1>1 DEF Around
  <2> QED
    BY <1>3, <1>4, <2>1, MapperFields
<1>8. ~overtaken' => ~overtaken /\ (IsRead(ns) => ~held_back)
  <2>1. overtaken' = (overtaken \/ (held_back /\ reads_sdram(mem_req, video)))
    BY DEF Edge
  <2>2. IsRead(ns) => reads_sdram(mem_req, video)
    BY <1>7 DEF reads_sdram, MapperAs, IsRead
  <2> QED
    BY <2>1, <2>2
<1>9. CreditsInv' /\ CreditMoves(nb) /\ ResultsMove
  BY <1>1, <1>7, CreditsStep
<1>10. OrderShape'
  BY <1>1, <1>7, OrderStep
<1> QED
  BY <1>2, <1>5, <1>6, <1>7, <1>8, <1>9, <1>10 DEF PortsInv

LEMMA AnswersStep ==
    ASSUME Times, Rooms, CREDITS <= 7, Inv,
           NEW mem_req \in MemRequests, NEW video \in Video, Edge(mem_req, video)
    PROVE  Inv'
<1>1. CtrlType /\ Around /\ ArbiterInv /\ CreditsInv /\ OrderShape /\ PortsInv
  BY DEF Inv, PortsInv, CtrlInv
<1>2. PortsInv' /\ PathMoves(Accepted(sdram_req_m)) /\ RequestMoves(video)
  BY <1>1, PortsStep
<1>3. PICK nb, ns : MapperAs(nb, ns, video) /\ CreditMoves(nb) /\ ResultsMove
                    /\ (~overtaken' => ~overtaken /\ (IsRead(ns) => ~held_back))
  BY <1>1, PortsStep
<1>4. PsMoves(ns) /\ PsPath(ns)
  <2>1. AtMostOneOf(RequestOf("video"), video) /\ Arbiter(video)
    BY <1>1, Scene DEF Around, Edge
  <2> QED
    BY <1>1, <1>2, <1>3, <2>1, PsStep DEF Around, ArbiterInv
<1>5. ASSUME ~overtaken' PROVE TurnsInv'
  <2>1. ArbiterFacts
    BY <1>1, ArbiterHolds
  <2>2. CreditsInv' /\ TurnsInv /\ (IsRead(ns) => ~held_back)
    BY <1>2, <1>3, <1>5 DEF PortsInv, Inv
  <2> QED
    BY <1>1, <1>3, <1>4, <2>1, <2>2, TurnsStep
<1> QED
  BY <1>2, <1>5 DEF Inv

LEMMA AnswersStutter ==
    ASSUME UNCHANGED vars
    PROVE  (PortsInv => PortsInv') /\ (Inv => Inv')
<1>1. /\ order' = order /\ bram_req' = bram_req /\ ram' = ram /\ results' = results
      /\ bram_trans_cnt' = bram_trans_cnt /\ bram_req_tready' = bram_req_tready /\ sdram_req' = sdram_req
      /\ sdram_req_m' = sdram_req_m /\ route_s' = route_s /\ route' = route /\ scene' = scene
      /\ overtaken' = overtaken
      /\ UNCHANGED ctrl_vars
  BY DEF vars, mmu_vars
<1>2. (CtrlInv' <=> CtrlInv) /\ rd_valid' = rd_valid /\ todo' = todo /\ m' = m
  BY <1>1, CtrlStutter
<1>3. Around => Around'
  BY <1>1 DEF Around
<1>4. ArbiterInv => ArbiterInv'
  BY <1>1, <1>2 DEF ArbiterInv, OnTheWay, Under
<1>5. (TurnsInv => TurnsInv') /\ (OrderShape => OrderShape')
  <2>1. \A b : Lead(b) <=> Lead(b)'
    BY <1>1, <1>2 DEF Lead, Before, PsAll, PsUnder
  <2> QED
    BY <1>1, <1>2, <2>1 DEF TurnsInv, PsAll, PsUnder, ResultsShape, OrderShape
<1>6. CreditsInv => CreditsInv'
  BY <1>1 DEF CreditsInv, BramReads
<1> QED
  BY <1>1, <1>2, <1>3, <1>4, <1>5, <1>6 DEF PortsInv, Inv

(* Whatever the CPU and the video controller ask, an answer of the SDRAM     *)
(* finds the port that asked for it at the head of the arbiter's queue       *)
(* (sdram_interconnect.vhd), the queue has room for every port, and each     *)
(* word that the on-chip RAM gives has its place among the results.          *)
THEOREM AnswersFindPorts ==
    ASSUME Times, Rooms
    PROVE  Spec => []PortsAndResults
<1>1. Init => PortsInv
  BY AnswersInit DEF Inv
<1>2. PortsInv /\ [Next]_vars => PortsInv'
  <2> SUFFICES ASSUME PortsInv, [Next]_vars PROVE PortsInv'
    OBVIOUS
  <2>1. CASE Next
    <3>1. PICK mem_req \in MemRequests, video \in Video : Edge(mem_req, video)
      BY <2>1 DEF Next
    <3> QED
      BY <3>1, PortsStep
  <2>2. CASE UNCHANGED vars
    BY <2>2, AnswersStutter
  <2> QED
    BY <2>1, <2>2
<1>3. PortsInv => PortsAndResults
  BY PortsHold
<1> QED
  BY <1>1, <1>2, <1>3, PTL DEF Spec

(* Every answer of a memory finds the port and the turn of the read it       *)
(* answers: the queues of the arbiter (sdram_interconnect.vhd) and of the    *)
(* mapper (soc_mmu.vhd) are never full when a read is queued, and their      *)
(* heads are the port and the memory of the read that is answered, whatever  *)
(* is asked, until the SDRAM is read past a read of the on-chip RAM that is  *)
(* held back.  The reads of the on-chip RAM that are not leave before the    *)
(* SDRAM can answer: seven credits are few enough.                           *)
THEOREM AnswersNeverLost ==
    ASSUME Times, Rooms, CREDITS <= 7
    PROVE  Spec => []AnswersFindTheirWay
<1>1. Init => Inv
  BY AnswersInit
<1>2. Inv /\ [Next]_vars => Inv'
  <2> SUFFICES ASSUME Inv, [Next]_vars PROVE Inv'
    OBVIOUS
  <2>1. CASE Next
    <3>1. PICK mem_req \in MemRequests, video \in Video : Edge(mem_req, video)
      BY <2>1 DEF Next
    <3> QED
      BY <3>1, AnswersStep
  <2>2. CASE UNCHANGED vars
    BY <2>2, AnswersStutter
  <2> QED
    BY <2>1, <2>2
<1>3. Inv => AnswersFindTheirWay
  BY AnswersHold
<1> QED
  BY <1>1, <1>2, <1>3, PTL DEF Spec
=============================================================================
