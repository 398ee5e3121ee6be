----------------------------- MODULE SdramCtrl -----------------------------
(***************************************************************************)
(* The SDRAM controller (sdram_ctrl.v) with its two-entry input FIFO         *)
(* (sdram_input_efifo_module.v) and the memory chip behind its pins.  One    *)
(* step is one clock edge.                                                   *)
(*                                                                          *)
(* A request is [wr, bank, row, col, port]; write data and byte masks travel *)
(* with the column.  "port" stands for the word stored at the address: the   *)
(* controller does not look at it, and a read answers with it.               *)
(***************************************************************************)
EXTENDS Naturals, Sequences

CONSTANTS Bank, Row, Col, Port,
          POWER_UP,            \* clocks before the chip is initialised: 10000
          REFRESH,             \* clocks between two refreshes: 1562
          T_RP, T_RCD, T_RFC, T_MRD    \* clocks the chip needs after PRE, ACT, REF, LMR

ASSUME SdramAssumption ==
    /\ {POWER_UP, REFRESH, T_RP, T_RCD, T_RFC, T_MRD} \subseteq Nat \ {0}
    /\ Bank # {} /\ "closed" \notin Row /\ "all" \notin Row \cup Col

Request == [wr : BOOLEAN, bank : Bank, row : Row, col : Col, port : Port]

VARIABLES
    ref,           \* [counter, request, ack]: the refresh counter and its handshake
    i,             \* the initialisation machine: [state, next, count, refs, cmd, done]
    m,             \* the main machine and the pins: [state, next, count, cmd, bank, addr]
    entries,       \* the input FIFO
    f_pop, active, \* the pop under way; the request being served, <<>> when active_cs_n is up
    oe,            \* the controller drives the data pins
    rd_valid,      \* reads on their way: rd_valid(0 .. 2), then za_valid with za_data
    chip,          \* the chip: [open row of each bank, clocks before the next command]
    todo           \* history: requests accepted that the chip has not seen yet

ctrl_vars == <<ref, i, m, entries, f_pop, active, oe, rd_valid, chip, todo>>

InitCtrl ==
    /\ ref = [counter |-> POWER_UP, request |-> FALSE, ack |-> FALSE]
    /\ i = [state |-> "count", next |-> "count", count |-> 0, refs |-> 0, cmd |-> "nop", done |-> FALSE]
    /\ m = [state |-> "idle", next |-> "idle", count |-> 0, cmd |-> "nop",
            bank |-> CHOOSE b \in Bank : TRUE, addr |-> "all"]
    /\ entries = <<>> /\ f_pop = FALSE /\ active = <<>> /\ oe = FALSE
    /\ rd_valid = <<<<>>, <<>>, <<>>, <<>>>>
    /\ chip = [open |-> [b \in Bank |-> "closed"], busy |-> 0]
    /\ todo = <<>>

-----------------------------------------------------------------------------
(* mutant: the kind of access is not compared. *)
pending_any_kind ==
    /\ active # <<>> /\ entries # <<>>
    /\ LET a == active[1]  f == Head(entries) IN a.bank = f.bank /\ a.row = f.row

(* The head of the FIFO names the open row, and the kind of access the       *)
(* machine is in.                                                            *)
pending ==
    /\ active # <<>> /\ entries # <<>>
    /\ LET a == active[1]  f == Head(entries)
       IN  a.wr = f.wr /\ a.bank = f.bank /\ a.row = f.row

f_select == f_pop /\ pending
za_waitrequest == Len(entries) = 2
za == rd_valid[4]                            \* za_valid and za_data

-----------------------------------------------------------------------------
(* The refresh counter, and the request that lasts until it is acknowledged. *)
Refresh(ack) ==
    ref' = [counter |-> IF ref.counter = 0 THEN REFRESH ELSE ref.counter - 1,
            request |-> (ref.counter = 0 \/ ref.request) /\ ~ref.ack /\ i.done,
            ack |-> ack]

(* The initialisation: precharge, two refreshes, the mode register.          *)
InitFsm ==
    i' = [ CASE i.state = "count" ->
                    [i EXCEPT !.cmd = "nop", !.refs = 0,
                              !.state = IF ref.counter = 0 THEN "pre" ELSE "count"]
             [] i.state = "pre" ->
                    [i EXCEPT !.state = "wait", !.cmd = "pre", !.count = 1, !.next = "refresh"]
             [] i.state = "refresh" ->
                    [i EXCEPT !.state = "wait", !.cmd = "ref", !.count = 7, !.refs = i.refs + 1,
                              !.next = IF i.refs = 1 THEN "mode" ELSE "refresh"]
             [] i.state = "wait" ->
                    [i EXCEPT !.cmd = "nop", !.count = IF i.count > 1 THEN i.count - 1 ELSE i.count,
                              !.state = IF i.count > 1 THEN "wait" ELSE i.next]
             [] i.state = "mode" ->
                    [i EXCEPT !.state = "wait", !.cmd = "lmr", !.count = 4, !.next = "ready"]
             [] i.state = "ready" -> i
           EXCEPT !.done = i.done \/ i.state = "ready"]

-----------------------------------------------------------------------------
(* The main machine, one action per state.  latch: the head of the FIFO      *)
(* becomes the active request and is popped at the next clock.               *)
latch == f_pop' = TRUE /\ active' = <<Head(entries)>>
keep  == f_pop' = FALSE /\ UNCHANGED active

Starting ==
    /\ m.state = "idle" /\ ~i.done
    /\ m' = [m EXCEPT !.next = "idle", !.cmd = i.cmd, !.addr = "all"]
    /\ keep /\ Refresh(ref.ack)

Idle ==
    /\ m.state = "idle" /\ i.done
    /\ Refresh(FALSE)
    /\ \/ /\ ref.request
          /\ m' = [m EXCEPT !.cmd = "nop", !.state = "pre", !.next = "ref", !.count = 1]
          /\ f_pop' = FALSE /\ active' = <<>>
       \/ /\ ~ref.request /\ entries # <<>>
          /\ m' = [m EXCEPT !.cmd = "nop", !.state = "ras"]
          /\ latch
       \/ /\ ~ref.request /\ entries = <<>>
          /\ m' = [m EXCEPT !.cmd = "nop"]
          /\ keep

Ras ==
    /\ m.state = "ras"
    /\ m' = [m EXCEPT !.state = "wait", !.cmd = "act", !.bank = active[1].bank, !.addr = active[1].row,
                      !.count = 2, !.next = IF active[1].wr THEN "wr" ELSE "rd"]
    /\ keep /\ Refresh(ref.ack)

Wait ==
    /\ m.state = "wait"
    /\ m' = IF m.count > 1 THEN [m EXCEPT !.cmd = "nop", !.count = m.count - 1]
                           ELSE [m EXCEPT !.cmd = "nop", !.state = m.next]
    /\ keep /\ Refresh(ref.ack)

(* mutant: the head is taken although the machine leaves for a refresh. *)
Column_pops_at_refresh ==
    /\ m.state \in {"rd", "wr"}
    /\ LET item == IF f_select THEN Head(entries) ELSE active[1]
           pins == [m EXCEPT !.bank = item.bank, !.addr = item.col, !.cmd = m.state]
       IN  \/ /\ pending /\ ref.request
              /\ m' = [pins EXCEPT !.state = "wait", !.next = "idle", !.count = 2]
              /\ latch
           \/ /\ pending /\ ~ref.request
              /\ m' = pins
              /\ latch
           \/ /\ ~pending
              /\ m' = [pins EXCEPT !.state = "spin", !.cmd = IF f_pop THEN "nop" ELSE m.state]
              /\ keep
    /\ Refresh(ref.ack)

(* mutant: a refresh waits for the end of the burst. *)
Column_keeps_burst ==
    /\ m.state \in {"rd", "wr"}
    /\ LET item == IF f_select THEN Head(entries) ELSE active[1]
           pins == [m EXCEPT !.bank = item.bank, !.addr = item.col, !.cmd = m.state]
       IN  \/ /\ pending
              /\ m' = pins
              /\ latch
           \/ /\ ~pending
              /\ m' = [pins EXCEPT !.state = "spin", !.cmd = IF f_pop THEN "nop" ELSE m.state]
              /\ keep
    /\ Refresh(ref.ack)

(* A read or a write of a column.  As long as the head of the FIFO is of the *)
(* same kind and row, one is done per clock.                                 *)
Column ==
    /\ m.state \in {"rd", "wr"}
    /\ LET item == IF f_select THEN Head(entries) ELSE active[1]
           pins == [m EXCEPT !.bank = item.bank, !.addr = item.col, !.cmd = m.state]
       IN  \/ /\ pending /\ ref.request
              /\ m' = [pins EXCEPT !.state = "wait", !.next = "idle", !.count = 2]
              /\ keep
           \/ /\ pending /\ ~ref.request
              /\ m' = pins
              /\ latch
           \/ /\ ~pending
              /\ m' = [pins EXCEPT !.state = "spin", !.cmd = IF f_pop THEN "nop" ELSE m.state]
              /\ keep
    /\ Refresh(ref.ack)

(* mutant: the next row is opened without closing the last one. *)
Rec_no_precharge ==
    /\ m.state = "rec"
    /\ m' = IF m.count > 1 THEN [m EXCEPT !.cmd = "nop", !.count = m.count - 1]
                           ELSE [m EXCEPT !.cmd = "nop", !.state = "idle"]
    /\ keep /\ Refresh(ref.ack)

Rec ==
    /\ m.state = "rec"
    /\ m' = IF m.count > 1 THEN [m EXCEPT !.cmd = "nop", !.count = m.count - 1]
                           ELSE [m EXCEPT !.cmd = "nop", !.state = "pre", !.count = 1]
    /\ keep /\ Refresh(ref.ack)

(* cs_n is low when a request is active; a refresh selects the chip itself.  *)
Pre ==
    /\ m.state = "pre"
    /\ m' = [m EXCEPT !.state = "wait", !.addr = "all",
                      !.cmd = IF ref.request \/ active # <<>> THEN "pre" ELSE "nop"]
    /\ keep /\ Refresh(ref.ack)

Ref ==
    /\ m.state = "ref"
    /\ m' = [m EXCEPT !.state = "wait", !.cmd = "ref", !.count = 7, !.next = "idle"]
    /\ keep /\ Refresh(TRUE)

(* The row stays open until a refresh is due or another row is asked for.    *)
Spin ==
    /\ m.state = "spin" /\ Refresh(ref.ack)
    /\ LET stay == [m EXCEPT !.cmd = "nop"]
       IN  \/ /\ ref.request
              /\ m' = [stay EXCEPT !.state = "wait", !.next = "idle", !.count = 1]
              /\ keep
           \/ /\ ~ref.request /\ pending
              /\ m' = [stay EXCEPT !.state = IF Head(entries).wr THEN "wr" ELSE "rd"]
              /\ latch
           \/ /\ ~ref.request /\ entries # <<>> /\ ~pending
              /\ m' = [stay EXCEPT !.state = "rec", !.next = "idle", !.count = 1]
              /\ keep
           \/ /\ ~ref.request /\ entries = <<>>
              /\ m' = stay
              /\ keep

Main == Starting \/ Idle \/ Ras \/ Wait \/ Column \/ Rec \/ Pre \/ Ref \/ Spin

-----------------------------------------------------------------------------
(* The chip takes the command on the pins.                                   *)
Chip ==
    chip' = [open |-> CASE m.cmd = "act" -> [chip.open EXCEPT ![m.bank] = m.addr]
                        [] m.cmd = "pre" -> [b \in Bank |-> "closed"]
                        [] OTHER -> chip.open,
             busy |-> CASE m.cmd = "act" -> T_RCD - 1
                        [] m.cmd = "pre" -> T_RP - 1
                        [] m.cmd = "ref" -> T_RFC - 1
                        [] m.cmd = "lmr" -> T_MRD - 1
                        [] OTHER -> IF chip.busy > 0 THEN chip.busy - 1 ELSE 0]

column == m.cmd \in {"rd", "wr"}

(* One clock of the controller, with what its port is offered.               *)
CtrlEdge(offer) ==
    LET accepted == IF za_waitrequest THEN <<>> ELSE offer
    IN  /\ InitFsm /\ Main /\ Chip
        /\ entries' = (IF f_select THEN Tail(entries) ELSE entries) \o accepted
        /\ oe' = (m.state = "wr" /\ ~(f_pop /\ ~pending))
        /\ rd_valid' = <<IF m.cmd = "rd" THEN <<Head(todo).port>> ELSE <<>>,
                         rd_valid[1], rd_valid[2], rd_valid[3]>>
        /\ todo' = (IF column THEN Tail(todo) ELSE todo) \o accepted

-----------------------------------------------------------------------------
TypeOK ==
    /\ ref.counter \in 0 .. (IF POWER_UP > REFRESH THEN POWER_UP ELSE REFRESH)
    /\ m.state \in {"idle", "ras", "wait", "rd", "wr", "rec", "pre", "ref", "spin"}
    /\ m.cmd \in {"nop", "act", "rd", "wr", "pre", "ref", "lmr"} /\ m.bank \in Bank
    /\ m.addr \in Row \cup Col \cup {"all"} /\ m.count \in 0 .. 7 /\ i.count \in 0 .. 7
    /\ Len(entries) <= 2 /\ \A n \in DOMAIN entries : entries[n] \in Request
    /\ chip.open \in [Bank -> Row \cup {"closed"}]

(* Commands follow requests: the controller pops its FIFO a clock after it   *)
(* looks at it, keeps the row of a burst open and breaks bursts off for      *)
(* refreshes; even so the chip sees every request once, in order, with the   *)
(* right row open.                                                           *)
CommandsFollowRequests ==
    column => /\ todo # <<>>
              /\ LET r == Head(todo)
                 IN  /\ (m.cmd = "wr") = r.wr /\ m.bank = r.bank /\ m.addr = r.col
                     /\ chip.open[r.bank] = r.row

(* Each command finds the chip ready for it: it never comes while the chip   *)
(* is busy, a row is opened in closed banks only, and all banks are closed   *)
(* for a refresh and for the mode register.                                  *)
ChipReady ==
    /\ m.cmd # "nop" => chip.busy = 0
    /\ m.cmd \in {"act", "ref", "lmr"} => \A b \in Bank : chip.open[b] = "closed"

(* The data pins have one driver: the controller during each write command,  *)
(* the chip three clocks after each read command, never both.                *)
DataPinsHaveOneDriver == (oe = (m.cmd = "wr")) /\ ~(oe /\ rd_valid[3] # <<>>)

(* A refresh is asked for only after the last one was done: za_cannotrefresh *)
(* of sdram_ctrl.v:189 never comes up.                                       *)
RefreshesKeepUp == ~(ref.counter = 0 /\ ref.request)

(* The three rules of the chip together.                                     *)
ChipRulesKept == ChipReady /\ DataPinsHaveOneDriver /\ RefreshesKeepUp

(* What is asked of the chip is what was asked of the controller, and it is  *)
(* asked when the chip can do it.                                            *)
SdramObeys == CommandsFollowRequests /\ ChipRulesKept
=============================================================================
