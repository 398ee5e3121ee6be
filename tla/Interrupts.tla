----------------------------- MODULE Interrupts -----------------------------
(***************************************************************************)
(* How an external interrupt gets into the pipeline: the interrupt          *)
(* controller, the register reader that stops the instruction queue and     *)
(* puts an interrupt in the place of the next instruction, the issue unit   *)
(* (ifeu) that acknowledges it and breaks it into micro-operations, the     *)
(* micro-operations that change the flags, and the flags register with its  *)
(* lock (cpu86_exec_reg).  One step is one clock edge.                      *)
(*                                                                          *)
(* Instructions are reduced to what they do to this path:                   *)
(*   mov    no flags            alu    locks and rewrites the flags, keeps IF*)
(*   cli, sti                   popf   loads IF from memory                  *)
(*   hlt    stops the queue     int, iret  clears / loads IF, jumps          *)
(*   branch may be mispredicted prefix joined to the instruction after it    *)
(*   cmps   CMPS or SCAS: locks the flags, writes them when the string ends  *)
(*   rep    REPZ or REPNZ: when CX is 0 the instruction after it is skipped  *)
(* The single-step trap (TF) is left out: it uses a path of its own.        *)
(***************************************************************************)
EXTENDS PicLite, Sequences

CONSTANT Programs            \* what may run: its instructions (kinds), the values it
                             \* writes to imr (masks) and the lines that are raised (lines)

AllKinds == {"mov", "alu", "cli", "sti", "popf", "hlt", "int", "iret", "branch", "prefix",
             "cmps", "rep"}
repeated == {"cmps", "mov", "prefix"}    \* what a program has after a REP: a string
                                         \* instruction ("mov": one that leaves the flags
                                         \* alone) or one more prefix
ASSUME ProgramsAssumption ==
    /\ Programs \subseteq [kinds : SUBSET AllKinds, masks : SUBSET SUBSET Lines, lines : SUBSET Lines]
    /\ \A p \in Programs : "rep" \in p.kinds => p.kinds \cap repeated # {}

VARIABLES
    head,                                  \* instruction at the head of the queue
    rr_tdata, rr_vector,                   \* register reader: output,
    flags_m_lock_tvalid,                   \* lock pulse
    instr_tready_mask, instr_wait_fl_valid, combined_instr, skip_next, ext_intr_mode,
    micro, ext_intr_s_tready,              \* ifeu: micro-operations left, acknowledgement
    jmp_lock_tvalid, jmp_lock_wr,          \* exec: jump lock, its release
    wait, alu_req, alu_res, flags_wr,      \* mexec: what it waits for, ALU pipeline, flags write
    exec_jump,                             \* event_jump of cpu86_exec
    fl_if, fl_tvalid, hs_cnt,              \* flags register: IF, valid, writes awaited
    owed,                                  \* history: line entered and not yet acknowledged
    unpaid,                                \* history: a skipped instruction left its lock of
                                           \* the flags, which no write will release
    program                                \* the program, the same all along

reader_vars == <<head, rr_tdata, rr_vector, flags_m_lock_tvalid, instr_tready_mask,
                 instr_wait_fl_valid, combined_instr, skip_next, ext_intr_mode>>
exec_vars == <<micro, ext_intr_s_tready, jmp_lock_tvalid, jmp_lock_wr, wait, alu_req, alu_res,
               flags_wr, exec_jump>>
flag_vars == <<fl_if, fl_tvalid, hs_cnt>>
intr_vars == <<pic_vars, reader_vars, exec_vars, flag_vars, owed, unpaid, program>>

none == "none"

-----------------------------------------------------------------------------
(* What the instructions need and become.                                    *)
waits_fl(k) == k \in {"cli", "sti", "popf", "int", "iret", "cmps"}
locks_fl(k) == waits_fl(k) \/ k = "alu"
locks_jmp(k) == k \in {"branch", "int", "iret", "intr"}
joins_next(k) == k \in {"prefix", "rep"}

micro_ops(k) ==
    CASE k = "alu"    -> <<"alu">>
      [] k = "cli"    -> <<"clr_if">>
      [] k = "sti"    -> <<"set_if">>
      [] k = "popf"   -> <<"mem", "mrd_fl">>
      [] k = "branch" -> <<"jmp">>
      [] k = "cmps"   -> <<"str">>
      [] k = "iret"   -> <<"mem", "mrd", "mrd", "mrd_fl", "jmp_always">>
      [] k \in {"int", "intr"} ->
             <<"mem", "keep_if", "clr_if", "mem", "mrd", "jmp_always">>
      [] OTHER        -> <<"mem">>

-----------------------------------------------------------------------------
(* Wires.  "ready": no request blocks mexec; "regs": the other registers an  *)
(* instruction needs are valid.                                              *)
ext_intr_tvalid == interrupt_valid /\ fl_if
interrupt_ack == ext_intr_tvalid /\ ext_intr_s_tready

micro_tready(ready) == ready /\ wait = none
micro_hs(ready) == micro # <<>> /\ micro_tready(ready)
rr_tready(ready) == jmp_lock_tvalid /\ (micro = <<>> \/ (Len(micro) = 1 /\ micro_tready(ready)))
rr_hs(ready) == rr_tdata # none /\ rr_tready(ready)

fl_free == fl_tvalid /\ ~flags_m_lock_tvalid
instr_tready(ready, regs) ==
    /\ head # none /\ ~instr_tready_mask /\ ~instr_wait_fl_valid
    /\ regs /\ (waits_fl(head) => fl_free)
    /\ rr_tdata = none \/ rr_tready(ready)

taking == ext_intr_tvalid /\ ext_intr_mode = "ST_ACK"

may_enter_busy(regs) == head # none /\ ~combined_instr /\ regs /\ fl_tvalid  \* mutant: reader full
may_enter(regs) ==
    head # none /\ rr_tdata = none /\ ~combined_instr /\ regs /\ fl_tvalid

-----------------------------------------------------------------------------
ReaderReset ==
    /\ head' = none /\ rr_tdata' = none /\ flags_m_lock_tvalid' = FALSE
    /\ instr_tready_mask' = FALSE /\ instr_wait_fl_valid' = FALSE
    /\ combined_instr' = FALSE /\ skip_next' = FALSE /\ ext_intr_mode' = "ST_IDLE"
    /\ UNCHANGED rr_vector

(* The queue shows its next instruction at once or later.                    *)
Queue(accepted, next_head) ==
    head' = IF accepted \/ head = none THEN next_head ELSE head

MaskNext_any(accepted) ==              \* mutant: also behind a prefix
    instr_tready_mask' =
        \/ instr_tready_mask
        \/ accepted /\ head = "hlt"
        \/ ext_intr_tvalid /\ ext_intr_mode = "ST_IDLE"
MaskNext(accepted) ==
    instr_tready_mask' =
        \/ instr_tready_mask
        \/ accepted /\ head = "hlt"
        \/ /\ ~joins_next(head) /\ head \notin {"hlt", "int", "iret"}
           /\ ext_intr_tvalid /\ ext_intr_mode = "ST_IDLE" /\ ~combined_instr

ModeNext(regs) ==
    ext_intr_mode' =
        IF ext_intr_tvalid /\ instr_tready_mask /\ ext_intr_mode = "ST_IDLE"
        THEN IF may_enter(regs) THEN "ST_ACK" ELSE "ST_IDLE"
        ELSE IF taking THEN "ST_DONE"
        ELSE ext_intr_mode

WaitFlNext(accepted) ==
    instr_wait_fl_valid' =
        IF accepted THEN instr_wait_fl_valid \/ head \in {"popf", "iret"}
        ELSE instr_wait_fl_valid /\ ~fl_free

(* A prefix goes into the instruction after it; REP with CX = 0 goes nowhere *)
(* and takes the instruction after it along.                                 *)
skips(accepted, cx_zero) == IF accepted THEN head = "rep" /\ cx_zero ELSE skip_next
handed_on(cx_zero) ==
    IF head = "prefix" \/ (head = "rep" /\ cx_zero) \/ skip_next THEN none ELSE head

RegisterReader(ready, regs, cx_zero, next_head) ==
    LET accepted == instr_tready(ready, regs) IN
    /\ Queue(accepted, next_head)
    /\ skip_next' = skips(accepted, cx_zero)
    /\ rr_tdata' = IF accepted THEN handed_on(cx_zero)
                   ELSE IF taking THEN "intr"
                   ELSE IF rr_tready(ready) THEN none ELSE rr_tdata
    /\ rr_vector' = IF accepted THEN 0 ELSE IF taking THEN irr_idx ELSE rr_vector
    /\ flags_m_lock_tvalid' = IF accepted THEN locks_fl(head) ELSE taking
    /\ MaskNext(accepted)
    /\ WaitFlNext(accepted)
    /\ combined_instr' = IF accepted THEN joins_next(head) ELSE combined_instr
    /\ ModeNext(regs)

-----------------------------------------------------------------------------
(* The issue unit: micro-operations and the acknowledgement.                 *)
ack_ready(ready) ==
    IF rr_hs(ready) THEN ext_intr_tvalid /\ rr_tdata = "intr" ELSE ext_intr_s_tready

Issue(ready) ==
    /\ micro' = IF rr_hs(ready) THEN micro_ops(rr_tdata)
                ELSE IF micro_hs(ready) THEN Tail(micro) ELSE micro
    /\ ext_intr_s_tready' = ack_ready(ready)
    /\ jmp_lock_tvalid' = IF rr_hs(ready) /\ locks_jmp(rr_tdata) THEN FALSE
                          ELSE jmp_lock_tvalid \/ jmp_lock_wr

(* Micro-execution.  "done": the memory answers, the string is at its end or *)
(* the jump is resolved; "taken": a branch was mispredicted.                 *)
jump_waits == {"jmp", "jmp_always"}
fl_waits == {"mrd_fl", "str"}              \* those that end in a write of the flags
finishes(done) == wait # none /\ done
jump_comes(done, taken) == finishes(done) /\ (wait = "jmp_always" \/ (wait = "jmp" /\ taken))

Execute(ready, done, taken, popped) ==
    LET op == IF micro_hs(ready) THEN Head(micro) ELSE none IN
    /\ wait' = IF op \in {"mrd"} \cup fl_waits \cup jump_waits THEN op
               ELSE IF finishes(done) THEN none ELSE wait
    /\ jmp_lock_wr' = (finishes(done) /\ wait \in jump_waits)
    /\ exec_jump' = jump_comes(done, taken)
    /\ alu_req' = (op = "alu")
    /\ alu_res' = alu_req
    /\ flags_wr' = IF wait = "mrd_fl" /\ done THEN popped
                   ELSE IF wait = "str" /\ done THEN "keep_if"
                   ELSE IF op \in {"clr_if", "set_if", "keep_if"} THEN op
                   ELSE IF alu_res THEN "keep_if" ELSE none

ExecReset ==
    /\ micro' = <<>> /\ ext_intr_s_tready' = FALSE /\ jmp_lock_tvalid' = TRUE
    /\ jmp_lock_wr' = FALSE /\ wait' = none /\ alu_req' = FALSE /\ alu_res' = FALSE
    /\ flags_wr' = none /\ exec_jump' = FALSE

(* cpu86_exec_reg of the flags.  A jump releases it.                         *)
written == flags_wr # none
less_one_unguarded(n) == n - 1             \* mutant: more writes than locks
less_one(n) == IF n > 0 THEN n - 1 ELSE 0
count_next == IF exec_jump THEN 0
              ELSE IF written /\ ~flags_m_lock_tvalid THEN less_one(hs_cnt)
              ELSE IF flags_m_lock_tvalid /\ ~written THEN hs_cnt + 1
              ELSE hs_cnt

valid_next_first ==                        \* mutant: the first write makes it valid
    IF exec_jump \/ written THEN TRUE ELSE fl_tvalid /\ ~flags_m_lock_tvalid
valid_next_none_left ==                    \* mutant: the last write still counts as missing
    IF exec_jump THEN TRUE
    ELSE IF written THEN fl_tvalid \/ (~flags_m_lock_tvalid /\ hs_cnt = 0)
    ELSE fl_tvalid /\ ~flags_m_lock_tvalid
valid_next ==
    IF exec_jump THEN TRUE
    ELSE IF written THEN fl_tvalid \/ (~flags_m_lock_tvalid /\ hs_cnt \in {0, 1})
    ELSE fl_tvalid /\ ~flags_m_lock_tvalid

Flags ==
    /\ hs_cnt' = count_next
    /\ fl_tvalid' = valid_next
    /\ fl_if' = CASE flags_wr = "set_if" -> TRUE
                  [] flags_wr = "clr_if" -> FALSE
                  [] OTHER -> fl_if

-----------------------------------------------------------------------------
IntrInit ==
    /\ PicInit
    /\ head = none /\ rr_tdata = none /\ rr_vector = 0 /\ flags_m_lock_tvalid = FALSE
    /\ instr_tready_mask = FALSE /\ instr_wait_fl_valid = FALSE
    /\ combined_instr = FALSE /\ skip_next = FALSE /\ ext_intr_mode = "ST_IDLE"
    /\ micro = <<>> /\ ext_intr_s_tready = FALSE /\ jmp_lock_tvalid = TRUE /\ jmp_lock_wr = FALSE
    /\ wait = none /\ alu_req = FALSE /\ alu_res = FALSE /\ flags_wr = none /\ exec_jump = FALSE
    /\ fl_if = TRUE /\ fl_tvalid = TRUE /\ hs_cnt = 0       \* x"0202": IF is set
    /\ owed = <<>> /\ unpaid = FALSE /\ program \in Programs

(* History: the line whose interrupt was issued and not acknowledged yet.    *)
Owed(ready) ==
    owed' = IF rr_hs(ready) /\ rr_tdata = "intr" /\ ~exec_jump THEN <<rr_vector>>
            ELSE IF interrupt_ack THEN <<>> ELSE owed

(* History: a skipped instruction locked the flags, and no jump has released *)
(* them since.                                                               *)
Unpaid(ready, regs) ==
    unpaid' = (~exec_jump /\ (unpaid \/ (instr_tready(ready, regs) /\ skip_next /\ locks_fl(head))))

Pipeline(ready, regs, cx_zero, done, taken, popped, next_head) ==
    /\ Flags
    /\ Owed(ready) /\ Unpaid(ready, regs)
    /\ IF exec_jump THEN ReaderReset /\ ExecReset
       ELSE /\ RegisterReader(ready, regs, cx_zero, next_head)
            /\ Issue(ready) /\ Execute(ready, done, taken, popped)

(* The inputs of an edge; those that nothing looks at are not enumerated.    *)
Popped == IF wait = "mrd_fl" THEN {"set_if", "clr_if"} ELSE {none}
Done == IF wait = none THEN {FALSE} ELSE BOOLEAN
Taken == IF wait = "jmp" THEN BOOLEAN ELSE {FALSE}
Ready == IF micro = <<>> \/ wait # none THEN {TRUE} ELSE BOOLEAN
Regs == IF head = none THEN {TRUE} ELSE BOOLEAN
CxZero == IF head = "rep" THEN BOOLEAN ELSE {FALSE}
NextKinds(ready, regs, cx_zero) ==
    IF skips(instr_tready(ready, regs), cx_zero) THEN program.kinds \cap repeated
    ELSE program.kinds
NextHead(ready, regs, cx_zero) ==
    IF head = none \/ instr_tready(ready, regs)
    THEN NextKinds(ready, regs, cx_zero) \cup {none} ELSE {none}

IntrEdge(interrupt_input, imr_write) ==
    /\ UNCHANGED program
    /\ PicClock(interrupt_input, interrupt_ack, imr_write)
    /\ \E ready \in Ready, regs \in Regs, cx_zero \in CxZero,
          done \in Done, taken \in Taken, popped \in Popped :
          \E next_head \in NextHead(ready, regs, cx_zero) :
              Pipeline(ready, regs, cx_zero, done, taken, popped, next_head)

IntrNext == \E interrupt_input \in SUBSET program.lines, imr_write \in program.masks \cup {imr} :
                IntrEdge(interrupt_input, imr_write)

IntrSpec == IntrInit /\ [][IntrNext]_intr_vars

(* A clock edge on which nothing outside holds the pipeline back.            *)
IntrFreeEdge ==
    \E interrupt_input \in SUBSET program.lines, imr_write \in program.masks \cup {imr} :
        /\ PicClock(interrupt_input, interrupt_ack, imr_write) /\ UNCHANGED program
        /\ \E cx_zero \in CxZero, taken \in Taken, popped \in Popped :
              \E next_head \in NextKinds(TRUE, TRUE, cx_zero) :
                  Pipeline(TRUE, TRUE, cx_zero, wait # none, taken, popped, next_head)
IntrFairSpec == IntrSpec /\ WF_intr_vars(IntrNext) /\ WF_intr_vars(IntrFreeEdge)

-----------------------------------------------------------------------------
IntrTypeOK ==
    /\ PicTypeOK
    /\ head \in program.kinds \cup {none}
    /\ rr_tdata \in program.kinds \cup {none, "intr"} /\ rr_vector \in Lines
    /\ ext_intr_mode \in {"ST_IDLE", "ST_ACK", "ST_DONE"}
    /\ {flags_m_lock_tvalid, instr_tready_mask, instr_wait_fl_valid, combined_instr,
        skip_next, unpaid} \subseteq BOOLEAN
    /\ {ext_intr_s_tready, jmp_lock_tvalid, jmp_lock_wr, exec_jump, alu_req, alu_res} \subseteq BOOLEAN
    /\ Len(micro) <= 6
    /\ wait \in {none, "mrd"} \cup fl_waits \cup jump_waits
    /\ flags_wr \in {none, "set_if", "clr_if", "keep_if"}
    /\ fl_if \in BOOLEAN /\ fl_tvalid \in BOOLEAN /\ hs_cnt \in 0 .. 7
    /\ owed \in {<<>>} \cup {<<i>> : i \in Lines}

(* Flags writes that are on their way.                                       *)
fl_writers == {"alu", "cli", "sti", "popf", "int", "iret", "intr", "cmps"}
fl_ops == {"alu", "clr_if", "set_if", "keep_if", "mrd_fl", "str"}
Pending == {micro[i] : i \in 1 .. Len(micro)} \cup {wait}
WriteComing ==
    rr_tdata \in fl_writers \/ Pending \cap fl_ops # {} \/ alu_req \/ alu_res \/ written

(* The instruction in execution will jump for certain: nothing that the      *)
(* reader holds will be executed.  (An interrupt writes the flags twice      *)
(* under one lock, so the flags read as valid before the second write.)      *)
Leaving == exec_jump \/ "jmp_always" \in Pending

(* The scoreboard is honest: its count stays in range, and while the flags   *)
(* read as valid, no instruction that will write them is under way.          *)
ScoreboardHonest == IntrTypeOK /\ (fl_free /\ ~Leaving => ~WriteComing)

(* An interrupt takes the place of an instruction only between instructions: *)
(* the queue is stopped, the reader's output is free, no prefix waits for    *)
(* its instruction, and no write of the flags is on its way that could still *)
(* clear IF.                                                                 *)
EntersBetweenInstructions ==
    taking => instr_tready_mask /\ rr_tdata = none /\ ~combined_instr /\ (Leaving \/ ~WriteComing)

(* An interrupt that is issued is acknowledged on the next edge, at the      *)
(* controller's line that it was issued for: it is not taken twice, and the  *)
(* line is not another one by then.  (The converse does not hold:            *)
(* ext_intr_s_tready stays up until IF is cleared, and a second request that *)
(* is pending by then is acknowledged with the first and lost.)              *)
OwedIsAcked == owed # <<>> => interrupt_ack /\ owed = <<irr_idx>>

(* Together: an interrupt enters between two instructions, and once.         *)
EntersOnce == EntersBetweenInstructions /\ OwedIsAcked

(* What is under way may clear IF: a CLI or POPF that was accepted before    *)
(* the queue stopped.                                                        *)
clears_if == {"cli", "popf"}
IfMayGo ==
    /\ rr_tdata \in clears_if \/ Pending \cap {"clr_if", "mrd_fl"} # {} \/ flags_wr = "clr_if"
    /\ ~Leaving

(* Once the queue is stopped for a request, the request gets in, or a jump   *)
(* of an older instruction starts the queue again                            *)
(* (cpu86_exec_register_reader.vhd, lines 438 to 442): whatever the program, *)
(* the masks and the lines, unless IF is about to be cleared or a lock of    *)
(* the flags is left over, the two cases in which the code stops for ever    *)
(* (StopsAreServed and LocksAreReleased, which do not hold).              *)
stopped_for_request == instr_tready_mask /\ ext_intr_tvalid /\ ext_intr_mode = "ST_IDLE"
starts_again == ext_intr_mode = "ST_ACK" \/ ~instr_tready_mask
StoppedIsServed == (stopped_for_request /\ ~IfMayGo /\ ~unpaid) ~> starts_again

(* An instruction that waits for the flags gets them, unless a skipped one   *)
(* has left its lock behind: though writes that meet on one edge make one    *)
(* (mexec, lines 1280 to 1291) and a write may meet a lock, no other lock is *)
(* left without its write.                                                   *)
WaiterGetsFlags == (waits_fl(head) /\ ~fl_tvalid /\ ~unpaid) ~> fl_tvalid

(* Together: neither a request nor an instruction waits for ever.            *)
NobodyWaitsForEver == StoppedIsServed /\ WaiterGetsFlags

(* The same without the two exceptions.  Neither holds: a CLI or POPF on its *)
(* way takes the request away and leaves the queue stopped for ever          *)
(* (register reader, lines 398 to 408); and of REP with CX = 0 before CMPS   *)
(* or SCAS the lock of the flags stays (lines 628 to 640), so that the next  *)
(* instruction that waits for them waits for ever.                           *)
StopsAreServed == stopped_for_request ~> starts_again
LocksAreReleased == (waits_fl(head) /\ ~fl_tvalid) ~> fl_tvalid
=============================================================================
