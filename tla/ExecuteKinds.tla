---------------------------- MODULE ExecuteKinds ----------------------------
(***************************************************************************)
(* Instructions as the execution pipeline sees them: the registers an        *)
(* instruction waits for and locks (cpu86_decoder.vhd) and the               *)
(* micro-operations that it becomes (cpu86_exec_ifeu.vhd).  One kind stands  *)
(* for the instructions that take the same way through the pipeline.  The    *)
(* six registers stand for the twelve; FL is the flags.                   *)
(***************************************************************************)
EXTENDS Naturals, Sequences, FiniteSets, TLC

Regs == {"AX", "BX", "CX", "SP", "ES", "FL"}

-----------------------------------------------------------------------------
(* A micro-operation: what it asks of memory (a read, or a store of a value   *)
(* that it brings or that the ALU, the shifter or memory is to make), the     *)
(* ALU's work with the register and the flags it writes, the wait for a word  *)
(* and its destination, the slow unit, a flag command, a jump, the unlock.    *)
(* Each procedure of the code sets some fields of a micro-operation o.        *)
NOP == [mem |-> "no", alu |-> FALSE, wb |-> "no", fl |-> FALSE, mrd |-> FALSE, dest |-> "no",
        slow |-> "no", slow_wb |-> {}, flg |-> FALSE, jmp |-> "no", jump_mem |-> FALSE, unlk |-> FALSE]

mem_read(o) == [o EXCEPT !.mem = "read"]
mem_write(src, o) == [o EXCEPT !.mem = src]
alu(r, o) == [o EXCEPT !.alu = TRUE, !.wb = r]
alu_fl(r, o) == [o EXCEPT !.alu = TRUE, !.wb = r, !.fl = TRUE]
update_sp(o) == alu("SP", o)
MRD(o) == [o EXCEPT !.mrd = TRUE]
MRD_to(r, o) == [o EXCEPT !.mrd = TRUE, !.dest = r]
unit(u, r, o) == [o EXCEPT !.slow = u, !.slow_wb = {r} \ {"no"}]
jump(c, o) == [o EXCEPT !.jmp = c]
jump_mem(c, o) == [o EXCEPT !.jmp = c, !.jump_mem = TRUE, !.mrd = TRUE]
UNLK(o) == [o EXCEPT !.unlk = TRUE]
set_flg(o) == [o EXCEPT !.flg = TRUE]

fast_ops == [nop |-> <<NOP>>, movi |-> <<NOP>>, xchg |-> <<NOP>>]   \* ifeu writes the registers itself
movu_ops == [load |-> <<mem_read(NOP), MRD_to("AX", NOP)>>, store |-> <<mem_write("imm", NOP)>>]
alu_ops == [add  |-> <<alu_fl("AX", NOP)>>,
            addr |-> <<mem_read(NOP), alu_fl("AX", MRD(NOP))>>,
            addm |-> <<mem_read(NOP), alu_fl("no", MRD(mem_write("alu", NOP)))>>]
shf_ops == [shl  |-> <<unit("shf", "AX", NOP)>>,
            shlm |-> <<mem_read(NOP), unit("shf", "no", MRD(mem_write("slow", NOP)))>>]
mul_ops == [mul  |-> <<unit("mul", "AX", NOP)>>, mulm |-> <<mem_read(NOP), unit("mul", "AX", MRD(NOP))>>]
bcd_ops == [daa |-> <<unit("bcd", "AX", NOP)>>]
flg_ops == [clc |-> <<set_flg(NOP)>>]
xchg_ops == [xchgm |-> <<alu("no", mem_read(NOP)), alu("AX", MRD(mem_write("alu", NOP)))>>]
lfp_ops == [les |-> <<mem_read(NOP), alu("AX", MRD(mem_read(NOP))), alu("ES", MRD(NOP))>>]
pop_ops == [popr |-> <<update_sp(mem_read(NOP)), MRD_to("CX", NOP)>>,
            popf |-> <<update_sp(mem_read(NOP)), MRD_to("FL", NOP)>>,
            popm |-> <<update_sp(mem_read(NOP)), MRD(mem_write("fifo", NOP))>>]
push_ops == [pushr |-> <<update_sp(mem_write("imm", NOP))>>,
             pushm |-> <<mem_read(NOP), update_sp(MRD(mem_write("fifo", NOP)))>>]
leave_ops == [leave |-> <<alu("SP", mem_read(NOP)), MRD_to("BX", NOP)>>]
loop_ops == [loop |-> <<alu("CX", NOP), jump("cx", UNLK(NOP))>>,
             jcxz |-> <<alu("no", NOP), jump("cc", UNLK(NOP))>>]
bra_ops == [jcc |-> <<jump("cc", UNLK(NOP))>>]
jmp_ops == [jmpr |-> <<jump("always", UNLK(NOP))>>,
            jmpm |-> <<mem_read(NOP), jump_mem("always", UNLK(NOP))>>]
call_ops == [callp |-> <<update_sp(mem_write("imm", NOP)), mem_write("imm", NOP)>>,
             callm |-> <<update_sp(mem_write("imm", NOP)), mem_read(NOP), jump_mem("always", UNLK(NOP))>>,
             callf |-> <<mem_write("imm", NOP), update_sp(mem_write("imm", NOP)), mem_read(NOP),
                         jump_mem("never", mem_read(NOP)), jump_mem("always", UNLK(NOP))>>]
ret_ops == [ret  |-> <<update_sp(mem_read(NOP)), jump_mem("always", UNLK(NOP))>>,
            retn |-> <<NOP, update_sp(mem_read(NOP)), jump_mem("always", UNLK(NOP))>>]
iret_ops == [iret |-> <<mem_read(NOP), jump_mem("never", mem_read(NOP)),
                        update_sp(jump_mem("never", mem_read(NOP))),
                        MRD_to("FL", NOP), jump("always", UNLK(NOP))>>]

AllKinds == {"nop", "movi", "xchg", "load", "store", "add", "addr", "addm", "shl", "shlm", "mul", "mulm",
             "daa", "clc", "xchgm", "les", "popr", "popf", "popm", "pushr", "pushm", "leave", "loop", "jcxz",
             "jcc", "jmpr", "jmpm", "callp", "callm", "callf", "ret", "retn", "iret"}
OpsTable == [k \in AllKinds |->
    CASE k \in {"nop", "movi", "xchg"} -> fast_ops[k]
      [] k \in {"load", "store"} -> movu_ops[k]
      [] k \in {"add", "addr", "addm"} -> alu_ops[k]
      [] k \in {"shl", "shlm"} -> shf_ops[k]
      [] k \in {"mul", "mulm"} -> mul_ops[k]
      [] k = "daa" -> bcd_ops[k]
      [] k = "clc" -> flg_ops[k]
      [] k = "xchgm" -> xchg_ops[k]
      [] k = "les" -> lfp_ops[k]
      [] k \in {"popr", "popf", "popm"} -> pop_ops[k]
      [] k \in {"pushr", "pushm"} -> push_ops[k]
      [] k = "leave" -> leave_ops[k]
      [] k \in {"loop", "jcxz"} -> loop_ops[k]
      [] k = "jcc" -> bra_ops[k]
      [] k \in {"jmpr", "jmpm"} -> jmp_ops[k]
      [] k \in {"callp", "callm", "callf"} -> call_ops[k]
      [] k \in {"ret", "retn"} -> ret_ops[k]
      [] k = "iret" -> iret_ops[k]]
Ops(k) == OpsTable[k]

-----------------------------------------------------------------------------
(* Registers that an instruction waits for, and registers that it locks: its  *)
(* addressing byte makes it wait for the base register and for the other      *)
(* operand; the rest comes from the opcode.  Memory operands are at [BX].     *)
mod_reg_rm(k) == CASE k \in {"add", "xchg"} -> {"AX", "CX"}
                   [] k \in {"load", "store", "addr", "addm", "xchgm"} -> {"AX", "BX"}
                   [] OTHER -> {}
mod_aux_rm(k) == CASE k = "shl" -> {"AX"} [] k = "mul" -> {"CX"}
                   [] k \in {"shlm", "mulm", "popm", "pushm", "les", "jmpr", "jmpm", "callm", "callf"} -> {"BX"}
                   [] OTHER -> {}
opcode_waits(k) == CASE k \in {"movi", "loop", "jcxz"} -> {"CX"}
                     [] k \in {"mul", "mulm"} -> {"AX"}
                     [] k = "daa" -> {"AX", "FL"}
                     [] k \in {"clc", "jcc"} -> {"FL"}
                     [] k = "pushr" -> {"SP", "AX"}
                     [] k = "popr" -> {"SP", "CX"}
                     [] k \in {"popf", "iret"} -> {"SP", "FL"}
                     [] k = "leave" -> {"SP", "BX"}
                     [] k = "les" -> {"ES"}
                     [] k \in {"popm", "pushm", "callp", "callm", "callf", "ret", "retn"} -> {"SP"}
                     [] OTHER -> {}
waits(k) == mod_reg_rm(k) \cup mod_aux_rm(k) \cup opcode_waits(k)
locks(k) == CASE k \in {"movi", "loop"} -> {"CX"}
              [] k = "xchg" -> {"AX", "CX"}
              [] k \in {"load", "xchgm"} -> {"AX"}
              [] k \in {"add", "addr", "shl", "mul", "mulm", "daa"} -> {"AX", "FL"}
              [] k \in {"addm", "shlm", "clc"} -> {"FL"}
              [] k = "les" -> {"AX", "ES"}
              [] k = "popr" -> {"SP", "CX"}
              [] k \in {"popf", "iret"} -> {"SP", "FL"}
              [] k = "leave" -> {"SP", "BX"}
              [] k \in {"popm", "pushr", "pushm", "callp", "callm", "callf", "ret", "retn"} -> {"SP"}
              [] OTHER -> {}
WaitsTable == [k \in AllKinds |-> waits(k)]
LocksTable == [k \in AllKinds |-> locks(k)]
Waits(k) == WaitsTable[k]
Locks(k) == LocksTable[k]

Fast(k) == k \in {"movi", "xchg"}
Predicted(k) == k \in {"jcc", "ret", "retn"}        \* the branch predictor may take it
CntNext(k) == IF k = "xchg" THEN 1 ELSE Len(Ops(k)) - 1
LocksJump(k) == k \in {"loop", "jcxz", "jcc", "jmpr", "jmpm", "callm", "callf", "ret", "retn", "iret"}

-----------------------------------------------------------------------------
(* What an instruction is to do, read off its micro-operations: the result a  *)
(* register is to get and the data a store is to carry, as <<unit, step>>.    *)
reads_by(k, s) == {t \in 1 .. s : Ops(k)[t].mem = "read"}
words_by(k, s) == {t \in 1 .. s : Ops(k)[t].mrd}
word_of(k, s) == CHOOSE t \in reads_by(k, Len(Ops(k))) :
                     Cardinality(reads_by(k, t)) = Cardinality(words_by(k, s))

writes(o, u, r) ==
    \/ u = "alu" /\ o.alu /\ (o.wb = r \/ (r = "FL" /\ o.fl))
    \/ u = "slow" /\ o.slow # "no" /\ r \in o.slow_wb \cup {"FL"}
    \/ u = "cmd" /\ o.flg /\ r = "FL"
    \/ u = "mem" /\ o.mrd /\ o.dest = r
writer(k, r) == CHOOSE w \in {"alu", "slow", "cmd", "mem"} \X (1 .. Len(Ops(k))) :
                    writes(Ops(k)[w[2]], w[1], r)
result(k, r) ==
    IF Fast(k) THEN <<"fast", 1>>
    ELSE IF writer(k, r)[1] = "mem" THEN <<"mem", word_of(k, writer(k, r)[2])>> ELSE writer(k, r)
Results == [k \in AllKinds |-> [r \in Locks(k) |-> result(k, r)]]

StoreData(k, s) ==
    LET src == Ops(k)[s].mem
    IN IF src = "fifo" THEN <<"mem", word_of(k, s)>>
       ELSE IF src = "read" THEN <<"mem", s>>
       ELSE <<src, IF k = "xchgm" THEN 1 ELSE s>>    \* XCHG stores what its first step put in the ALU
=============================================================================
