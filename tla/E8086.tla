-------------------------------- MODULE E8086 --------------------------------
(***************************************************************************)
(* The reference processor at work (tbs/cpu86/golden_ref): e86_execute,    *)
(* which does one instruction or one element of a repeated one and then    *)
(* looks at the trap flag and the interrupt request, and the test bench    *)
(* around it (e8086_cpu.c, golden_ref.c), which loads one program after    *)
(* another, executes it instruction by instruction and reports each to the *)
(* simulation of the RTL.                                                  *)
(*                                                                         *)
(* A behaviour is either of the processor alone (driver "direct"), whose   *)
(* request line a device may raise at any time, or of the bench, which     *)
(* raises none.                                                            *)
(***************************************************************************)
EXTENDS E8086Control, Sequences

CONSTANTS
  Machines,     \* the machines a direct behaviour may start in
  Disturbed,    \* those of them whose request line is raised
  Programs,     \* the files of the bench: functions from addresses to bytes
  INTA,         \* what the function inta answers; NoInta: it is NULL
  NoInta,
  MaxIrqs       \* bound: how often the request line is raised at most

VARIABLES
  cpu,          \* struct e8086_t
  start,        \* history: cpu when its program started
  irqs,         \* how often the request line may still be raised
  driver,       \* "direct" or "bench"
  tests,        \* the tests the bench has still to set
  val,          \* the globals ax_val .. fl_val
  cpu_halted,   \* the global of the bench
  report        \* history: what c_tb_cpu_exec last returned

vars == <<cpu, start, irqs, driver, tests, val, cpu_halted, report>>

-----------------------------------------------------------------------------
(***************************************************************************)
(* e86_execute.                                                            *)
(***************************************************************************)
irq_ack(c) ==
  LET d == [c EXCEPT !.irq = FALSE, !.state = RUN]
  IN  IF INTA = NoInta THEN d ELSE trap(d, INTA)

\* Processor c goes on by cnt bytes.
Advanced(c, cnt) == IF cnt > 0 THEN pq_adjust(SetIp(c, c.ip + cnt), cnt) ELSE c

After(r) == Advanced(r.cpu, r.cnt)

\* One instruction with its prefixes: the loop over NEW.
RECURSIVE Instruction(_), WhileNew(_)
Instruction(c) == WhileNew(After(op([pq_fill(c) EXCEPT !.prefix = @ \ {"NEW"}])))
WhileNew(c) == IF "NEW" \in c.prefix THEN Instruction(c) ELSE c

\* mutant: the first address is taken again at every element.
Fresh_movesOn(c) ==
  [c EXCEPT !.prefix = IF "KEEP" \in @ THEN @ ELSE {}, !.cur_ip = c.ip,
            !.save_flags = c.flg]

\* The processor before the loop: a repetition under way keeps its prefixes
\* and the address of the first of them.
Fresh(c) ==
  LET d == IF "KEEP" \in c.prefix THEN c ELSE [c EXCEPT !.prefix = {}, !.cur_ip = c.ip]
  IN  [d EXCEPT !.save_flags = d.flg]

\* The flags of before the instruction decide about the trap, those and the
\* ones after it about the interrupt, of which there was a request before.
Interrupted(d, request) ==
  IF Has(d.save_flags, FT) THEN trap([d EXCEPT !.state = RUN], 1)
  ELSE IF request /\ d.irq /\ Has(d.save_flags, FI) /\ Flag(d, FI) THEN irq_ack(d)
  ELSE d

\* e86_execute of a processor that is not halted.
Executed(c) == Interrupted(Instruction(Fresh(c)), c.irq)

\* mutant: a halted processor does not look at the request.
execute_haltsForGood(c) == IF c.state = RUN THEN Executed(c) ELSE c

execute(c) ==
  IF c.state = RUN THEN Executed(c)
  ELSE IF c.irq /\ Flag(c, FI) THEN irq_ack(c) ELSE c

\* mutant: the reset keeps the prefetch queue of the last test.
cpu_reset_keepsQueue(c) ==
  [SetSreg([reset(c) EXCEPT !.pq_cnt = c.pq_cnt], CS, 0) EXCEPT !.ip = 1024, !.flg = 61954]

-----------------------------------------------------------------------------
(***************************************************************************)
(* The bench.                                                              *)
(***************************************************************************)
\* e8086_cpu_reset: reset, and then the start of the programs.
cpu_reset(c) == [SetSreg(reset(c), CS, 0) EXCEPT !.ip = 1024, !.flg = 61954]

\* A machine as it is after e8086_mem_clear, e8086_io_clear and a load.
Blank ==
  [dreg |-> [x \in 0 .. 7 |-> 0], sreg |-> [s \in 0 .. 3 |-> 0], ip |-> 1024,
   cur_ip |-> 0, flg |-> 61954, save_flags |-> 0, ram |-> <<>>, io |-> <<>>,
   pq |-> [i \in 0 .. PqSize - 1 |-> 0], pq_cnt |-> 0, prefix |-> {},
   seg_override |-> 0, irq |-> FALSE, state |-> RUN]

Loaded(c, program) == [c EXCEPT !.ram = program, !.io = <<>>]

Zeros == [dreg |-> [x \in 0 .. 7 |-> 0], flg |-> 0]

NoReport == [at |-> <<>>, val |-> Zeros, next |-> <<>>, count |-> 0]

Regs(c) == [dreg |-> c.dreg, flg |-> c.flg]

\* mutant: one element of a repeated instruction counts as the instruction.
Whole_oneElement(c) == execute(c)

\* e8086_cpu_exec executes a repeated instruction to its end.
RECURSIVE Whole(_), WhileKeep(_)
Whole(c) == WhileKeep(execute(c))
WhileKeep(c) == IF "KEEP" \in c.prefix THEN Whole(c) ELSE c

\* c_tb_set_test: memory, ports and processor are set up; the globals keep
\* what the last test left in them.
SetTest ==
  /\ driver = "bench"
  /\ tests # <<>>
  /\ report.count = 0 \/ cpu_halted
  /\ cpu' = cpu_reset(Loaded(cpu, Head(tests)))
  /\ start' = cpu'
  /\ tests' = Tail(tests)
  /\ cpu_halted' = FALSE
  /\ report' = [NoReport EXCEPT !.count = 1]
  /\ UNCHANGED <<irqs, driver, val>>

\* mutant: the values are reported after the instruction, not before it.
ReportedVal_after(before, after) == after

ReportedVal(before, after) == before

\* c_tb_cpu_exec: the globals are returned before the instruction is
\* executed and refreshed by it.
CpuExec ==
  /\ driver = "bench"
  /\ report.count > 0
  /\ ~cpu_halted
  /\ cpu' = Whole(cpu)
  /\ val' = Regs(cpu')
  /\ cpu_halted' = (cpu'.state = HALT)
  /\ report' = [at |-> <<cpu.sreg[CS], cpu.ip>>, val |-> ReportedVal(val, val'),
                next |-> <<cpu'.sreg[CS], cpu'.ip>>, count |-> report.count + 1]
  /\ UNCHANGED <<start, irqs, driver, tests>>

\* The same call for a processor that has halted: it is left alone.
CpuExecHalted ==
  /\ driver = "bench"
  /\ cpu_halted
  /\ report' = [report EXCEPT !.val = val]
  /\ UNCHANGED <<cpu, start, irqs, driver, tests, val, cpu_halted>>

-----------------------------------------------------------------------------
(***************************************************************************)
(* The processor alone.                                                    *)
(***************************************************************************)
Execute ==
  /\ driver = "direct"
  /\ cpu' = execute(cpu)
  /\ UNCHANGED <<start, irqs, driver, tests, val, cpu_halted, report>>

RaiseIrq ==
  /\ driver = "direct"
  /\ irqs > 0
  /\ ~cpu.irq
  /\ cpu' = irq(cpu, TRUE)
  /\ irqs' = irqs - 1
  /\ UNCHANGED <<start, driver, tests, val, cpu_halted, report>>

Init ==
  /\ \/ /\ driver = "direct"
        /\ cpu \in Machines
        /\ irqs \in IF cpu \in Disturbed THEN 0 .. MaxIrqs ELSE {0}
        /\ tests = <<>>
     \/ /\ driver = "bench"
        /\ cpu = Blank
        /\ irqs = 0
        /\ \E p, q \in Programs : tests = <<p, q>>
  /\ start = cpu
  /\ val = Zeros
  /\ cpu_halted = FALSE
  /\ report = NoReport

Next == Execute \/ RaiseIrq \/ SetTest \/ CpuExec \/ CpuExecHalted

Spec == Init /\ [][Next]_vars

\* ENABLED <<Execute>>_vars, in a form that TLC evaluates quickly.
Runs == driver = "direct" /\ execute(cpu) # cpu

\* The clock of the emulator goes on calling e86_execute: WF_vars(Execute).
FairSpec == Spec /\ ([]<>~Runs \/ []<><<Execute>>_vars)
===============================================================================
