------------------------------ MODULE Execute -------------------------------
(***************************************************************************)
(* The execution pipeline: the register reader with the lock counts of the  *)
(* registers (cpu86_exec_register_reader.vhd, cpu86_exec_reg.vhd), the       *)
(* expansion of an instruction into micro-operations (cpu86_exec_ifeu.vhd)   *)
(* and the units that execute them (cpu86_exec_mexec.vhd).  One step is one   *)
(* clock edge.                                                              *)
(*                                                                          *)
(* A value is the name of the result it is: <<i, u, s>> is what unit u makes *)
(* of micro-operation s of the i-th instruction.  History variables hold the *)
(* values that a processor without a pipeline would have in its registers.   *)
(***************************************************************************)
EXTENDS ExecuteKinds

CONSTANTS Families,      \* sets of kinds; a behaviour takes its program from one of them
          MaxInstr,      \* bound of the runs: instructions of one behaviour
          MaxShift       \* bound of the runs: places that a shift shifts (31 in the code)

ASSUME ExecuteAssumption ==
    /\ Families \subseteq SUBSET AllKinds
    /\ MaxInstr \in Nat \ {0} /\ MaxShift \in Nat \ {0}

VARIABLES
    family,                     \* the kinds of this behaviour
    instr,                      \* head of the instruction queue
    rr,                         \* output register of the register reader
    lock,                       \* registers whose m_lock_tvalid is up
    reg,                        \* registers: reg_tvalid, hs_cnt, reg_tdata
    jmp_lock,                   \* cpu86_exec_reg instance that holds back what follows a jump
    micro,                      \* the micro-operation register and its counters
    mexec_busy, mexec_wait,     \* unit results that mexec waits for
    unlk,                       \* mexec_unlk_fl and jmp_lock_m_wr_tvalid
    op_cnt,                     \* results under way
    alu_wait, alu_req, alu_res, \* ALU: waits for a word, request, result
    slow, slow_res,             \* shifter and multiplier
    mem_wait, lsu_req,          \* store that waits for its data; request to the load-store unit
    mem_reads, lsu_rd,          \* reads in the load-store unit; its results
    mem_dst,                    \* where the awaited word goes; history: which word it is to be
    wr, flags_src,              \* register writes that arrive on the next edge; source of the flags
    jmp, event_jump,            \* jump under way; the pipeline is being emptied
    done, last                  \* history: instructions begun, value of each register by then

front == <<family, instr, rr, lock, reg, jmp_lock, micro>>
unit_vars == <<alu_wait, alu_req, alu_res, slow, slow_res, op_cnt>>
vars == <<front, mexec_busy, mexec_wait, unlk, unit_vars, mem_wait, lsu_req, mem_reads, lsu_rd,
          mem_dst, wr, flags_src, jmp, event_jump, done, last>>

None == <<>>
NoInstr == [v |-> FALSE, k |-> "nop", pred |-> FALSE]
NoRequest == [v |-> FALSE, cmd |-> "read", data |-> None, want |-> None]
NoMicro == [v |-> FALSE, k |-> "nop", n |-> 1, pred |-> FALSE, cnt |-> 0, busy |-> FALSE]
Stale == <<0, "stale", 0>>                    \* whatever a data register held before
NoJump == [busy |-> FALSE, mem |-> FALSE, alu |-> FALSE, cond |-> "no",
           take |-> FALSE, v |-> FALSE, pred |-> FALSE]
NoSlow == [st |-> "idle", unit |-> "no", cnt |-> 0, tag |-> None, wb |-> {}]
NoWrites == [r \in Regs |-> None]
of(i, w) == <<i, w[1], w[2]>>                 \* the result w of the i-th instruction

-----------------------------------------------------------------------------
(* Wires.                                                                   *)
op == Ops(micro.k)[micro.n]                   \* the micro-operation in the register
rd_valid == lsu_rd # <<>>                     \* lsu_rd_s_tvalid
rd_hs == rd_valid /\ "fifo" \in mexec_wait    \* lsu_rd_s_tready
res_valid == alu_res # None

micro_tready_no_store(ready) ==               \* mutant: a store may still wait for the ALU
    ~mexec_busy /\ mem_wait # "slow" /\ (lsu_req.v => ready)
micro_tready(ready) ==
    ~mexec_busy /\ mem_wait \notin {"alu", "slow"} /\ (lsu_req.v => ready)
micro_hs(ready) == micro.v /\ micro_tready(ready)
rr_tready(ready) == jmp_lock.v /\ (micro.v => micro_tready(ready) /\ ~micro.busy)
rr_hs(ready) == rr.v /\ rr_tready(ready)

hazards_resolved_slow(k) ==                   \* mutant: the lock pulse of the edge before is not seen
    \A r \in Waits(k) : reg[r].v
hazards_resolved(k) == \A r \in Waits(k) : reg[r].v /\ r \notin lock
instr_hs(ready) == instr.v /\ hazards_resolved(instr.k) /\ (rr.v => rr_tready(ready))

(* A busy mexec is done when each result it waits for is there, and no other. *)
finishes ==
    /\ mexec_busy
    /\ ("fifo" \in mexec_wait => rd_valid)
    /\ ("slow" \in mexec_wait) = (slow_res # None)
    /\ ("jmp" \in mexec_wait) = jmp.v

op_inc_alu_only == alu_req # None             \* mutant: slow units leave the count but never enter it
op_inc == alu_req # None \/ slow.st = "req"
op_dec == res_valid \/ slow_res # None
-----------------------------------------------------------------------------
(* A register: writes, locks and the unlocking of all of them by a jump.     *)
reg_next_any(r, wrv, lk) ==                   \* mutant: a write and a lock on one edge leave it valid
    [v   |-> (wrv # None /\ r.hs < 2) \/ (wrv = None /\ ~lk /\ r.v),
     hs  |-> IF (wrv # None) = lk THEN r.hs ELSE IF lk THEN r.hs + 1 ELSE IF r.hs > 0 THEN r.hs - 1 ELSE 0,
     val |-> IF wrv # None THEN wrv ELSE r.val]
reg_next_off_by_one(r, wrv, lk) ==            \* mutant: the write of the only lock leaves it locked
    [v   |-> \/ wrv # None /\ ~lk /\ r.hs < 1
             \/ r.v /\ (wrv # None \/ ~lk),
     hs  |-> IF (wrv # None) = lk THEN r.hs ELSE IF lk THEN r.hs + 1 ELSE IF r.hs > 0 THEN r.hs - 1 ELSE 0,
     val |-> IF wrv # None THEN wrv ELSE r.val]
reg_next(r, wrv, lk) ==
    [v   |-> \/ wrv # None /\ ~lk /\ r.hs < 2
             \/ r.v /\ (wrv # None \/ ~lk),
     hs  |-> IF (wrv # None) = lk THEN r.hs ELSE IF lk THEN r.hs + 1 ELSE IF r.hs > 0 THEN r.hs - 1 ELSE 0,
     val |-> IF wrv # None THEN wrv ELSE r.val]

(* Fast instructions are written by ifeu as they leave the register reader;   *)
(* the data of mexec goes first when both write.                             *)
fast_writes(ready) == IF rr_hs(ready) /\ Fast(rr.k) THEN Locks(rr.k) ELSE {}
reg_write(r, ready) ==
    IF wr[r] # None THEN wr[r]
    ELSE IF r \in fast_writes(ready) THEN <<done + 1, "fast", 1>> ELSE None

Registers(ready) ==
    reg' = [r \in Regs |-> reg_next(reg[r], reg_write(r, ready), r \in lock)]
JumpLock(ready) ==
    jmp_lock' = LET n == reg_next([jmp_lock EXCEPT !.val = None], IF unlk.pulse THEN <<0>> ELSE None,
                                  rr_hs(ready) /\ LocksJump(rr.k))
                IN [n EXCEPT !.val = None]

(* The queue offers another instruction when it has lost one.                 *)
Feed(taken, offers) ==
    IF instr.v /\ ~taken THEN UNCHANGED instr
    ELSE IF offers /\ done' + (IF rr'.v THEN 1 ELSE 0) < MaxInstr
    THEN \E k \in family : \E p \in (IF Predicted(k) THEN BOOLEAN ELSE {FALSE}) :
            instr' = [v |-> TRUE, k |-> k, pred |-> p]
    ELSE instr' = NoInstr

Reader(ready) ==
    /\ rr' = IF instr_hs(ready) THEN instr
             ELSE IF rr_tready(ready) THEN NoInstr ELSE rr
    /\ lock' = IF instr_hs(ready) THEN Locks(instr.k) ELSE {}

(* Expansion of an instruction into its micro-operations.                     *)
Expand(ready) ==
    /\ micro' = IF rr_hs(ready)
                THEN [v |-> TRUE, k |-> rr.k, n |-> 1, pred |-> rr.pred,
                      cnt |-> IF Fast(rr.k) THEN 0 ELSE Len(Ops(rr.k)) - 1,
                      busy |-> CntNext(rr.k) # 0]
                ELSE IF ~micro_hs(ready) THEN micro
                ELSE IF micro.cnt = 0 THEN [micro EXCEPT !.v = FALSE, !.busy = TRUE]
                ELSE [micro EXCEPT !.n = @ + 1, !.cnt = @ - 1, !.busy = micro.cnt # 1]
    /\ IF rr_hs(ready)
       THEN /\ done' = done + 1
            /\ last' = [r \in Regs |-> IF r \in Locks(rr.k) THEN of(done + 1, Results[rr.k][r]) ELSE last[r]]
       ELSE UNCHANGED <<done, last>>
-----------------------------------------------------------------------------
(* The units.                                                               *)
own(u) == <<done, u, micro.n>>                \* the instruction in ifeu is the last one begun

AluStep(hs) ==
    LET go == hs /\ op.alu
        d == [tag |-> own("alu"), wb |-> op.wb, fl |-> op.fl]
    IN /\ alu_wait' = IF hs THEN (IF go /\ op.mrd THEN <<d>> ELSE None)
                      ELSE IF rd_valid THEN None ELSE alu_wait
       /\ alu_req' = IF go /\ ~op.mrd THEN <<d>> ELSE IF rd_valid /\ ~go THEN alu_wait ELSE None
       /\ alu_res' = alu_req

(* A shift takes an edge for each place; the multiplier and the BCD unit are  *)
(* pipelines of fixed length.                                                *)
latency(u) == CASE u = "mul" -> {3} [] u = "shf" -> 0 .. MaxShift [] OTHER -> {2}
SlowStep(hs) ==
    LET go == hs /\ op.slow # "no"
        d == [st |-> IF op.mrd THEN "fifo" ELSE "req", unit |-> op.slow, cnt |-> 0,
              tag |-> own("slow"), wb |-> op.slow_wb]
        starts == slow.st = "req"
        out == \/ slow.st = "run" /\ slow.cnt = 1
               \/ starts /\ slow'.st = "idle"
    IN /\ IF go THEN slow' = d
          ELSE IF slow.st = "fifo" THEN slow' = [slow EXCEPT !.st = IF hs THEN "idle"
                                                             ELSE IF rd_valid THEN "req" ELSE "fifo"]
          ELSE IF starts THEN
               \E n \in latency(slow.unit) :
                  slow' = IF n = 0 THEN NoSlow ELSE [slow EXCEPT !.st = "run", !.cnt = n]
          ELSE IF slow.st = "run" THEN
               slow' = IF slow.cnt = 1 THEN NoSlow ELSE [slow EXCEPT !.cnt = @ - 1]
          ELSE UNCHANGED slow
       /\ slow_res' = IF out THEN <<[tag |-> slow.tag, wb |-> slow.wb]>> ELSE None

Count ==
    op_cnt' = IF op_inc = op_dec THEN op_cnt ELSE IF op_inc THEN op_cnt + 1 ELSE op_cnt - 1

(* What mexec waits for.                                                     *)
under_way_cnt_only == op_cnt # 0              \* mutant: not the request of this edge
under_way == op_cnt # 0 \/ op_inc
slow_jump(o) ==                               \* the jump is not decided on this edge
    \/ o.jmp = "always" /\ o.jump_mem
    \/ o.jmp = "cx"
    \/ under_way
waits_for(o) ==
    (IF o.mrd THEN {"fifo"} ELSE {}) \cup (IF o.slow # "no" THEN {"slow"} ELSE {})
takes_time(o) == waits_for(o) # {} \/ o.jmp # "no"

Busy(hs) ==
    /\ mexec_busy' = IF hs /\ takes_time(op) THEN TRUE ELSE mexec_busy /\ ~finishes
    /\ mexec_wait' =
          (IF hs THEN waits_for(op) \cup (IF op.jmp # "no" /\ slow_jump(op) THEN {"jmp"} ELSE {}) ELSE {})
          \cup {u \in mexec_wait : \/ u = "fifo" /\ ~(mexec_busy /\ rd_valid)
                                   \/ u = "slow" /\ slow_res = None
                                   \/ u = "jmp" /\ ~jmp.v /\ ~(hs /\ op.jmp # "no")}
    /\ unlk' = [fl |-> IF hs THEN op.unlk ELSE unlk.fl,
                pulse |-> IF hs THEN op.unlk /\ ~takes_time(op)
                          ELSE IF finishes THEN unlk.fl
                          ELSE mexec_busy /\ unlk.pulse]
-----------------------------------------------------------------------------
(* Memory.                                                                  *)
Request(hs, ready) ==
    LET mem == hs /\ op.mem # "no"
        later == mem /\ op.mem \in {"alu", "slow", "fifo"}
        there == \/ mem_wait = "alu" /\ res_valid /\ slow_res = None /\ ~rd_valid
                 \/ mem_wait = "slow" /\ slow_res # None /\ ~res_valid /\ ~rd_valid
                 \/ mem_wait = "fifo" /\ rd_valid /\ ~res_valid /\ slow_res = None
    IN /\ mem_wait' = IF mem THEN (IF later THEN op.mem ELSE "no")
                      ELSE IF \/ mem_wait = "alu" /\ res_valid
                              \/ mem_wait = "slow" /\ slow_res # None
                              \/ mem_wait = "fifo" /\ rd_valid THEN "no" ELSE mem_wait
       /\ lsu_req' =
            [v    |-> IF mem THEN ~later ELSE there \/ (lsu_req.v /\ ~ready),
             cmd  |-> IF hs THEN (IF op.mem = "read" THEN "read" ELSE "write") ELSE lsu_req.cmd,
             data |-> IF hs THEN own(IF op.mem = "read" THEN "mem" ELSE "imm")
                      ELSE IF mem_wait = "alu" /\ res_valid THEN alu_res[1].tag
                      ELSE IF mem_wait = "slow" /\ slow_res # None THEN slow_res[1].tag
                      ELSE IF mem_wait = "fifo" /\ rd_valid THEN Head(lsu_rd)
                      ELSE lsu_req.data,
             want |-> IF mem THEN of(done, StoreData(micro.k, micro.n)) ELSE lsu_req.want]

(* The load-store unit and the memory behind it: answers come in order and    *)
(* take two edges at least.                                                  *)
Memory(ready, answers) ==
    LET accepted == IF lsu_req.v /\ ready /\ lsu_req.cmd = "read"
                    THEN <<[tag |-> lsu_req.data, old |-> FALSE]>> ELSE <<>>
        aged == [i \in 1 .. Len(mem_reads) |-> [mem_reads[i] EXCEPT !.old = TRUE]]
        rest == IF rd_hs THEN Tail(lsu_rd) ELSE lsu_rd
    IN IF answers /\ mem_reads # <<>> /\ mem_reads[1].old
       THEN mem_reads' = Tail(aged) \o accepted /\ lsu_rd' = Append(rest, mem_reads[1].tag)
       ELSE mem_reads' = aged \o accepted /\ lsu_rd' = rest

(* Writes to the registers: AX and CX have data registers of their own; the   *)
(* others share one, which takes the only result there is or else the ALU's.  *)
results ==
    (IF res_valid THEN {"alu"} ELSE {}) \cup (IF slow_res # None THEN {"slow"} ELSE {})
    \cup (IF rd_hs THEN {"lsu"} ELSE {})
value(u) == CASE u = "alu" -> alu_res[1].tag
              [] u = "slow" -> slow_res[1].tag
              [] u = "lsu" -> Head(lsu_rd)
              [] OTHER -> Stale
shared_result ==
    IF Cardinality(results) = 1 THEN value(CHOOSE u \in results : TRUE)
    ELSE IF res_valid THEN value("alu") ELSE Stale
writers(r) == {u \in results : \/ u = "alu" /\ alu_res[1].wb = r
                               \/ u = "slow" /\ r \in slow_res[1].wb
                               \/ u = "lsu" /\ mem_dst.reg = r}
write_of(r) ==
    IF writers(r) = {} THEN None
    ELSE IF r \notin {"AX", "CX"} THEN shared_result
    ELSE value(IF "lsu" \in writers(r) THEN "lsu" ELSE IF "alu" \in writers(r) THEN "alu" ELSE "slow")

flags_users == {u \in results : \/ u = "alu" /\ alu_res[1].fl
                                \/ u = "slow"}
flags_pulse(hs) == \/ "lsu" \in writers("FL")
                   \/ hs /\ op.flg
                   \/ flags_users # {}
flags_value(hs) ==
    CASE flags_src' = "cmd" -> IF hs /\ op.flg THEN own("cmd") ELSE Stale
      [] flags_src' = "mem" -> IF rd_hs THEN Head(lsu_rd) ELSE Stale
      [] OTHER              -> IF results = {"lsu"} THEN Stale ELSE shared_result

WriteBack(hs) ==
    /\ flags_src' = IF hs /\ op.flg THEN "cmd"
                    ELSE IF hs /\ op.dest = "FL" THEN "mem"
                    ELSE IF flags_users # {} THEN "user" ELSE flags_src
    /\ wr' = [r \in Regs |-> IF r # "FL" THEN write_of(r)
                             ELSE IF flags_pulse(hs) THEN flags_value(hs) ELSE None]
    /\ mem_dst' = IF hs THEN [reg |-> op.dest,
                              want |-> IF op.mrd THEN <<done, "mem", word_of(micro.k, micro.n)>> ELSE None]
                  ELSE mem_dst

(* Jumps.                                                                   *)
resolved ==
    /\ jmp.busy /\ op_cnt = 0
    /\ jmp.mem = rd_valid
    /\ jmp.alu = res_valid
taken(go) ==
    IF go THEN CASE op.jmp = "always" -> {TRUE} [] op.jmp = "cc" -> BOOLEAN [] OTHER -> {FALSE}
    ELSE IF jmp.busy /\ jmp.mem /\ rd_valid THEN {jmp.cond = "always"}
    ELSE IF jmp.busy /\ jmp.alu /\ res_valid THEN (IF jmp.cond = "cx" THEN BOOLEAN ELSE {jmp.cond = "always"})
    ELSE {jmp.take}

JumpStep(hs) ==
    LET go == hs /\ op.jmp # "no"
    IN /\ \E t \in taken(go) :
            jmp' = [busy |-> IF go /\ slow_jump(op) THEN TRUE ELSE jmp.busy /\ ~resolved,
                    mem  |-> IF go /\ op.jump_mem THEN TRUE ELSE jmp.mem /\ ~rd_valid,
                    alu  |-> IF go THEN op.jmp = "cx" ELSE jmp.alu /\ ~res_valid,
                    cond |-> IF go THEN op.jmp ELSE jmp.cond,
                    take |-> t,
                    v    |-> IF go /\ ~under_way
                             THEN op.jmp = "cc" \/ (op.jmp = "always" /\ ~op.jump_mem)
                             ELSE resolved,
                    pred |-> IF go THEN micro.pred ELSE jmp.pred]
       /\ event_jump' \in IF ~jmp.v THEN {event_jump}
                          ELSE IF jmp.pred # jmp.take THEN {TRUE}
                          ELSE IF jmp.take THEN BOOLEAN ELSE {FALSE}   \* the target may differ
-----------------------------------------------------------------------------
Init ==
    /\ family \in Families
    /\ instr = NoInstr /\ rr = NoInstr /\ lock = {}
    /\ reg = [r \in Regs |-> [v |-> TRUE, hs |-> 0, val |-> <<0, "init", 0>>]]
    /\ jmp_lock = [v |-> TRUE, hs |-> 0, val |-> None]
    /\ micro = NoMicro
    /\ mexec_busy = FALSE /\ mexec_wait = {} /\ unlk = [fl |-> FALSE, pulse |-> FALSE]
    /\ op_cnt = 0 /\ alu_wait = None /\ alu_req = None /\ alu_res = None
    /\ slow = NoSlow /\ slow_res = None
    /\ mem_wait = "no" /\ lsu_req = NoRequest /\ mem_reads = <<>> /\ lsu_rd = <<>>
    /\ mem_dst = [reg |-> "no", want |-> None]
    /\ wr = NoWrites /\ flags_src = "user"
    /\ jmp = NoJump /\ event_jump = FALSE
    /\ done = 0 /\ last = [r \in Regs |-> <<0, "init", 0>>]

(* An ordinary edge: lsu_req_tready, an answer of memory and an instruction   *)
(* from the decoder come as they please.                                     *)
Clock(ready, answers, offers) ==
    LET hs == micro_hs(ready)
    IN /\ ~event_jump
       /\ Registers(ready) /\ JumpLock(ready)
       /\ Reader(ready) /\ Expand(ready)
       /\ AluStep(hs) /\ SlowStep(hs) /\ Count /\ Busy(hs)
       /\ Request(hs, ready) /\ Memory(ready, answers) /\ WriteBack(hs) /\ JumpStep(hs)
       /\ Feed(instr_hs(ready), offers)
       /\ UNCHANGED family

(* The edge after a jump that was not foreseen: exec_resetn is low and the    *)
(* registers are unlocked; writes to them are suppressed.                    *)
Flush ==
    /\ event_jump /\ event_jump' = FALSE
    /\ reg' = [r \in Regs |-> [v |-> TRUE, hs |-> 0, val |-> reg[r].val]]
    /\ jmp_lock' = [v |-> TRUE, hs |-> 0, val |-> None]
    /\ instr' = NoInstr /\ rr' = NoInstr /\ lock' = {} /\ micro' = NoMicro
    /\ mexec_busy' = FALSE /\ mexec_wait' = {} /\ unlk' = [fl |-> FALSE, pulse |-> FALSE]
    /\ op_cnt' = 0 /\ alu_wait' = None /\ alu_req' = None /\ alu_res' = None
    /\ slow' = NoSlow /\ slow_res' = None
    /\ mem_wait' = "no" /\ lsu_req' = NoRequest
    /\ wr' = NoWrites /\ jmp' = NoJump
    /\ \E answers \in BOOLEAN : Memory(TRUE, answers)
    /\ UNCHANGED <<family, mem_dst, flags_src, done, last>>

Next == (\E ready, answers, offers \in BOOLEAN : Clock(ready, answers, offers)) \/ Flush
Spec == Init /\ [][Next]_vars

(* The load-store unit takes, memory answers and the decoder offers.          *)
GoodEdge == Clock(TRUE, TRUE, TRUE) \/ Flush
FairSpec == Spec /\ WF_vars(GoodEdge)
-----------------------------------------------------------------------------
Tag == {None} \cup ((0 .. MaxInstr) \X {"init", "stale", "fast", "alu", "slow", "cmd", "mem", "imm"} \X (0 .. 5))

(* Types; no register has more than the seven writes under way that hs_cnt    *)
(* can count, nor mexec more results than two.                               *)
TypeOK ==
    /\ family \in Families /\ instr.k \in AllKinds /\ rr.k \in AllKinds /\ lock \subseteq Regs
    /\ reg \in [Regs -> [v : BOOLEAN, hs : 0 .. 7, val : Tag]]
    /\ jmp_lock \in [v : BOOLEAN, hs : 0 .. 1, val : {None}]
    /\ micro.n \in 1 .. Len(Ops(micro.k)) /\ micro.cnt \in 0 .. 4
    /\ mexec_wait \subseteq {"fifo", "slow", "jmp"} /\ op_cnt \in 0 .. 2
    /\ mem_wait \in {"no", "alu", "slow", "fifo"} /\ lsu_req.data \in Tag
    /\ Len(mem_reads) + Len(lsu_rd) <= 2
    /\ wr \in [Regs -> Tag] /\ last \in [Regs -> Tag]
    /\ done \in 0 .. MaxInstr /\ event_jump \in BOOLEAN

(* An instruction leaves the queue with the values that the instructions      *)
(* before it left in its registers; the word it gets from memory is the one   *)
(* it asked for; a conditional jump looks at the flags of the last writer.    *)
Expected(r) == IF rr.v /\ r \in Locks(rr.k) THEN of(done + 1, Results[rr.k][r]) ELSE last[r]
OperandsAreCurrent ==
    /\ TypeOK
    /\ instr.v /\ hazards_resolved(instr.k) => \A r \in Waits(instr.k) : reg[r].val = Expected(r)
    /\ rd_hs => Head(lsu_rd) = mem_dst.want
    /\ micro_hs(TRUE) /\ micro.k = "jcc" => reg["FL"].val = last["FL"]

(* What goes to memory is the value that the storing step computes.           *)
StoreCarriesItsValue == lsu_req.v => lsu_req.data = lsu_req.want

(* No two units write the flags on one edge; and when the pipeline has        *)
(* nothing left to do every register is valid, unlocked and holds its last    *)
(* writer's value, and no word of memory is left over.                       *)
flags_writers == flags_users \cup (IF micro_hs(TRUE) /\ (op.flg \/ op.dest = "FL") THEN {"op"} ELSE {})
Quiet ==
    /\ ~rr.v /\ lock = {} /\ ~micro.v /\ ~mexec_busy /\ ~unlk.pulse /\ ~event_jump
    /\ alu_req = None /\ alu_res = None /\ slow = NoSlow /\ slow_res = None
    /\ mem_wait = "no" /\ ~lsu_req.v /\ wr = NoWrites
AllWritesArrive ==
    /\ Cardinality(flags_writers) <= 1
    /\ Quiet => /\ \A r \in Regs : reg[r] = [v |-> TRUE, hs |-> 0, val |-> last[r]]
                /\ jmp_lock.v /\ op_cnt = 0 /\ mem_reads = <<>> /\ lsu_rd = <<>>

(* A jump empties the pipeline only when all that came before it has reached  *)
(* the registers and memory.                                                *)
JumpLosesNothing ==
    event_jump => /\ \A r \in Regs : reg[r].val = last[r]
                  /\ wr = NoWrites /\ ~micro.v /\ op_cnt = 0 /\ alu_req = None /\ slow = NoSlow
                  /\ mem_wait = "no" /\ ~lsu_req.v /\ mem_reads = <<>> /\ lsu_rd = <<>>

(* Together: neither a step nor a jump loses a write.                         *)
NothingIsLost == AllWritesArrive /\ JumpLosesNothing

(* Every instruction that the decoder gives is carried out.                   *)
InstructionsFinish == <>[](done = MaxInstr /\ Quiet)
=============================================================================
