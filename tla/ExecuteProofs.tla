---------------------------- MODULE ExecuteProofs ----------------------------
(***************************************************************************)
(* The execution pipeline, for every program of the modelled kinds, any    *)
(* number of instructions, any length of a shift and any delay of memory:  *)
(* operands are current, stores carry their own data and no write is lost. *)
(* The invariant, PipeInv, is in the second part; the first shows of each  *)
(* expansion into micro-operations what the invariant needs.               *)
(***************************************************************************)
EXTENDS Execute, FiniteSetTheorems, SequenceTheorems, TLAPS

-----------------------------------------------------------------------------
(***************************************************************************)
(* The expansions of the instructions.  Everything the pipeline relies on  *)
(* is in OpOK: what a micro-operation may ask for, given the one before it *)
(* (p) and the number that follow (rest).                                  *)
(***************************************************************************)
(* The registers that a micro-operation writes.                            *)
Writes(o) == {r \in Regs : \/ o.alu /\ (o.wb = r \/ (r = "FL" /\ o.fl))
                           \/ o.slow # "no" /\ r \in o.slow_wb \cup {"FL"}
                           \/ o.flg /\ r = "FL"
                           \/ o.mrd /\ o.dest = r}

(* What is so of every micro-operation of an instruction.                  *)
OpOK(k, o, p, rest) ==
    /\ o.mem \in {"no", "read", "imm", "alu", "slow", "fifo"}
    /\ o.wb \in {"no", "AX", "CX", "SP", "BX", "ES"} /\ o.dest \in Regs \cup {"no"}
    /\ o.slow \in {"no", "shf", "mul", "bcd"} /\ o.slow_wb \subseteq {"AX"}
    /\ o.alu \in BOOLEAN /\ o.fl \in BOOLEAN /\ o.mrd \in BOOLEAN /\ o.flg \in BOOLEAN
    /\ o.jump_mem \in BOOLEAN /\ o.unlk \in BOOLEAN /\ o.jmp \in {"no", "always", "cc", "cx", "never"}
    /\ o.alu => o.slow = "no" /\ o.dest = "no" /\ ~o.flg
    /\ o.slow # "no" => o.dest = "no" /\ ~o.flg /\ o.jmp = "no"
    /\ o.flg => o.dest = "no" /\ ~o.mrd /\ "FL" \in Waits(k)
    /\ o.fl => o.alu
    /\ o.dest # "no" => o.mrd /\ o.dest \in Waits(k) /\ o.jmp = "no" /\ o.mem = "no"
    /\ o.mrd <=> p.mem = "read"
    /\ rest = 0 => o.mem # "read"
    /\ o.dest \notin {"no", "FL"} \/ o.mem = "fifo" => o.mrd /\ ~p.mrd
    /\ o.mem = "alu" => o.mrd /\ o.alu /\ (k # "xchgm" => ~p.alu)
    /\ o.mem = "slow" => o.mrd /\ o.slow # "no"
    /\ o.mem = "fifo" => o.mrd /\ o.slow = "no"
    /\ o.jump_mem => o.jmp \in {"always", "never"} /\ o.mrd
    /\ o.jmp # "no" => /\ o.mrd => o.jump_mem
                       /\ o.mem \in {"no", "read"} /\ ~o.flg /\ ~o.fl
                       /\ o.alu => o.mrd
    /\ o.jmp \in {"always", "cc", "cx"} => rest = 0 /\ o.unlk /\ ~o.alu /\ o.mem = "no"
    /\ o.unlk => o.jmp \in {"always", "cc", "cx"} /\ LocksJump(k)
    /\ o.jmp = "never" => ~Predicted(k)

(* Each micro-operation of a kind is as it should be, a jump's last one    *)
(* unlocks the pipeline; each register is written once, and exactly the    *)
(* registers the kind locks are written.                                   *)
KindOK(k) ==
    LET O == Ops(k) IN
    /\ Len(O) \in 1 .. 5
    /\ OpOK(k, O[1], NOP, Len(O) - 1)
    /\ Len(O) > 1 => OpOK(k, O[2], O[1], Len(O) - 2)
    /\ Len(O) > 2 => OpOK(k, O[3], O[2], Len(O) - 3)
    /\ Len(O) > 3 => OpOK(k, O[4], O[3], Len(O) - 4)
    /\ Len(O) > 4 => OpOK(k, O[5], O[4], Len(O) - 5)
    /\ LocksJump(k) => O[Len(O)].unlk
LocksOK(k) ==
    LET O == Ops(k) IN
    /\ \A r \in Regs : \A s, t \in 1 .. Len(O) : r \in Writes(O[s]) /\ r \in Writes(O[t]) => s = t
    /\ ~Fast(k) => \A r \in Regs : r \in Locks(k) <=> \E s \in 1 .. Len(O) : r \in Writes(O[s])

(* Some of the registers waited for.                                       *)
LEMMA WaitsAre ==
    /\ "AX" \in Waits("load") /\ "CX" \in Waits("popr") /\ "FL" \in Waits("popf") /\ "BX" \in Waits("leave")
    /\ "FL" \in Waits("iret") /\ "FL" \in Waits("clc") /\ "FL" \in Waits("jcc")
  BY DEF Waits, WaitsTable, waits, mod_reg_rm, mod_aux_rm, opcode_waits, AllKinds

(* Every expansion, written out.                                           *)
LEMMA KindsAre == \A k \in AllKinds : KindOK(k) /\ LocksOK(k)
<1> SUFFICES ASSUME NEW k \in AllKinds PROVE KindOK(k) /\ LocksOK(k)
  OBVIOUS
<1>1. CASE k = "nop"
  <2>1. Ops(k) = <<NOP>>
    BY <1>1 DEF Ops, OpsTable, AllKinds, fast_ops
  <2>2. /\ OpOK(k, NOP, NOP, 0)
        /\ LocksJump(k) => NOP.unlk
    BY <1>1, WaitsAre DEF OpOK, Regs, LocksJump, Predicted, NOP
  <2>3. KindOK(k)
    BY <2>1, <2>2 DEF KindOK
  <2>4. /\ Writes(NOP) = {}
    BY DEF Writes, Regs, NOP
  <2>5. LocksOK(k)
    BY <1>1, <2>1, <2>4 DEF LocksOK, Fast, Locks, LocksTable, locks, Regs, AllKinds
  <2> QED
    BY <2>3, <2>5
<1>2. CASE k = "movi"
  <2>1. Ops(k) = <<NOP>>
    BY <1>2 DEF Ops, OpsTable, AllKinds, fast_ops
  <2>2. /\ OpOK(k, NOP, NOP, 0)
        /\ LocksJump(k) => NOP.unlk
    BY <1>2, WaitsAre DEF OpOK, Regs, LocksJump, Predicted, NOP
  <2>3. KindOK(k)
    BY <2>1, <2>2 DEF KindOK
  <2>4. /\ Writes(NOP) = {}
    BY DEF Writes, Regs, NOP
  <2>5. LocksOK(k)
    BY <1>2, <2>1, <2>4 DEF LocksOK, Fast, Locks, LocksTable, locks, Regs, AllKinds
  <2> QED
    BY <2>3, <2>5
<1>3. CASE k = "xchg"
  <2>1. Ops(k) = <<NOP>>
    BY <1>3 DEF Ops, OpsTable, AllKinds, fast_ops
  <2>2. /\ OpOK(k, NOP, NOP, 0)
        /\ LocksJump(k) => NOP.unlk
    BY <1>3, WaitsAre DEF OpOK, Regs, LocksJump, Predicted, NOP
  <2>3. KindOK(k)
    BY <2>1, <2>2 DEF KindOK
  <2>4. /\ Writes(NOP) = {}
    BY DEF Writes, Regs, NOP
  <2>5. LocksOK(k)
    BY <1>3, <2>1, <2>4 DEF LocksOK, Fast, Locks, LocksTable, locks, Regs, AllKinds
  <2> QED
    BY <2>3, <2>5
<1>4. CASE k = "load"
  <2>1. Ops(k) = <<mem_read(NOP), MRD_to("AX", NOP)>>
    BY <1>4 DEF Ops, OpsTable, AllKinds, movu_ops
  <2>2. /\ OpOK(k, mem_read(NOP), NOP, 1)
        /\ OpOK(k, MRD_to("AX", NOP), mem_read(NOP), 0)
        /\ LocksJump(k) => MRD_to("AX", NOP).unlk
    BY <1>4, WaitsAre DEF OpOK, Regs, LocksJump, Predicted, NOP, MRD_to, mem_read
  <2>3. KindOK(k)
    BY <2>1, <2>2 DEF KindOK
  <2>4. /\ Writes(mem_read(NOP)) = {}
        /\ Writes(MRD_to("AX", NOP)) = {"AX"}
    BY DEF Writes, Regs, NOP, MRD_to, mem_read
  <2>5. LocksOK(k)
    BY <1>4, <2>1, <2>4 DEF LocksOK, Fast, Locks, LocksTable, locks, Regs, AllKinds
  <2> QED
    BY <2>3, <2>5
<1>5. CASE k = "store"
  <2>1. Ops(k) = <<mem_write("imm", NOP)>>
    BY <1>5 DEF Ops, OpsTable, AllKinds, movu_ops
  <2>2. /\ OpOK(k, mem_write("imm", NOP), NOP, 0)
        /\ LocksJump(k) => mem_write("imm", NOP).unlk
    BY <1>5, WaitsAre DEF OpOK, Regs, LocksJump, Predicted, NOP, mem_write
  <2>3. KindOK(k)
    BY <2>1, <2>2 DEF KindOK
  <2>4. /\ Writes(mem_write("imm", NOP)) = {}
    BY DEF Writes, Regs, NOP, mem_write
  <2>5. LocksOK(k)
    BY <1>5, <2>1, <2>4 DEF LocksOK, Fast, Locks, LocksTable, locks, Regs, AllKinds
  <2> QED
    BY <2>3, <2>5
<1>6. CASE k = "add"
  <2>1. Ops(k) = <<alu_fl("AX", NOP)>>
    BY <1>6 DEF Ops, OpsTable, AllKinds, alu_ops
  <2>2. /\ OpOK(k, alu_fl("AX", NOP), NOP, 0)
        /\ LocksJump(k) => alu_fl("AX", NOP).unlk
    BY <1>6, WaitsAre DEF OpOK, Regs, LocksJump, Predicted, NOP, alu_fl
  <2>3. KindOK(k)
    BY <2>1, <2>2 DEF KindOK
  <2>4. /\ Writes(alu_fl("AX", NOP)) = {"AX", "FL"}
    BY DEF Writes, Regs, NOP, alu_fl
  <2>5. LocksOK(k)
    BY <1>6, <2>1, <2>4 DEF LocksOK, Fast, Locks, LocksTable, locks, Regs, AllKinds
  <2> QED
    BY <2>3, <2>5
<1>7. CASE k = "addr"
  <2>1. Ops(k) = <<mem_read(NOP), alu_fl("AX", MRD(NOP))>>
    BY <1>7 DEF Ops, OpsTable, AllKinds, alu_ops
  <2>2. /\ OpOK(k, mem_read(NOP), NOP, 1)
        /\ OpOK(k, alu_fl("AX", MRD(NOP)), mem_read(NOP), 0)
        /\ LocksJump(k) => alu_fl("AX", MRD(NOP)).unlk
    BY <1>7, WaitsAre DEF OpOK, Regs, LocksJump, Predicted, NOP, MRD, alu_fl, mem_read
  <2>3. KindOK(k)
    BY <2>1, <2>2 DEF KindOK
  <2>4. /\ Writes(mem_read(NOP)) = {}
        /\ Writes(alu_fl("AX", MRD(NOP))) = {"AX", "FL"}
    BY DEF Writes, Regs, NOP, MRD, alu_fl, mem_read
  <2>5. LocksOK(k)
    BY <1>7, <2>1, <2>4 DEF LocksOK, Fast, Locks, LocksTable, locks, Regs, AllKinds
  <2> QED
    BY <2>3, <2>5
<1>8. CASE k = "addm"
  <2>1. Ops(k) = <<mem_read(NOP), alu_fl("no", MRD(mem_write("alu", NOP)))>>
    BY <1>8 DEF Ops, OpsTable, AllKinds, alu_ops
  <2>2. /\ OpOK(k, mem_read(NOP), NOP, 1)
        /\ OpOK(k, alu_fl("no", MRD(mem_write("alu", NOP))), mem_read(NOP), 0)
        /\ LocksJump(k) => alu_fl("no", MRD(mem_write("alu", NOP))).unlk
    BY <1>8, WaitsAre DEF OpOK, Regs, LocksJump, Predicted, NOP, MRD, alu_fl, mem_read, mem_write
  <2>3. KindOK(k)
    BY <2>1, <2>2 DEF KindOK
  <2>4. /\ Writes(mem_read(NOP)) = {}
        /\ Writes(alu_fl("no", MRD(mem_write("alu", NOP)))) = {"FL"}
    BY DEF Writes, Regs, NOP, MRD, alu_fl, mem_read, mem_write
  <2>5. LocksOK(k)
    BY <1>8, <2>1, <2>4 DEF LocksOK, Fast, Locks, LocksTable, locks, Regs, AllKinds
  <2> QED
    BY <2>3, <2>5
<1>9. CASE k = "shl"
  <2>1. Ops(k) = <<unit("shf", "AX", NOP)>>
    BY <1>9 DEF Ops, OpsTable, AllKinds, shf_ops
  <2>2. /\ OpOK(k, unit("shf", "AX", NOP), NOP, 0)
        /\ LocksJump(k) => unit("shf", "AX", NOP).unlk
    BY <1>9, WaitsAre DEF OpOK, Regs, LocksJump, Predicted, NOP, unit
  <2>3. KindOK(k)
    BY <2>1, <2>2 DEF KindOK
  <2>4. /\ Writes(unit("shf", "AX", NOP)) = {"AX", "FL"}
    BY DEF Writes, Regs, NOP, unit
  <2>5. LocksOK(k)
    BY <1>9, <2>1, <2>4 DEF LocksOK, Fast, Locks, LocksTable, locks, Regs, AllKinds
  <2> QED
    BY <2>3, <2>5
<1>10. CASE k = "shlm"
  <2>1. Ops(k) = <<mem_read(NOP), unit("shf", "no", MRD(mem_write("slow", NOP)))>>
    BY <1>10 DEF Ops, OpsTable, AllKinds, shf_ops
  <2>2. /\ OpOK(k, mem_read(NOP), NOP, 1)
        /\ OpOK(k, unit("shf", "no", MRD(mem_write("slow", NOP))), mem_read(NOP), 0)
        /\ LocksJump(k) => unit("shf", "no", MRD(mem_write("slow", NOP))).unlk
    BY <1>10, WaitsAre DEF OpOK, Regs, LocksJump, Predicted, NOP, MRD, mem_read, mem_write, unit
  <2>3. KindOK(k)
    BY <2>1, <2>2 DEF KindOK
  <2>4. /\ Writes(mem_read(NOP)) = {}
        /\ Writes(unit("shf", "no", MRD(mem_write("slow", NOP)))) = {"FL"}
    BY DEF Writes, Regs, NOP, MRD, mem_read, mem_write, unit
  <2>5. LocksOK(k)
    BY <1>10, <2>1, <2>4 DEF LocksOK, Fast, Locks, LocksTable, locks, Regs, AllKinds
  <2> QED
    BY <2>3, <2>5
<1>11. CASE k = "mul"
  <2>1. Ops(k) = <<unit("mul", "AX", NOP)>>
    BY <1>11 DEF Ops, OpsTable, AllKinds, mul_ops
  <2>2. /\ OpOK(k, unit("mul", "AX", NOP), NOP, 0)
        /\ LocksJump(k) => unit("mul", "AX", NOP).unlk
    BY <1>11, WaitsAre DEF OpOK, Regs, LocksJump, Predicted, NOP, unit
  <2>3. KindOK(k)
    BY <2>1, <2>2 DEF KindOK
  <2>4. /\ Writes(unit("mul", "AX", NOP)) = {"AX", "FL"}
    BY DEF Writes, Regs, NOP, unit
  <2>5. LocksOK(k)
    BY <1>11, <2>1, <2>4 DEF LocksOK, Fast, Locks, LocksTable, locks, Regs, AllKinds
  <2> QED
    BY <2>3, <2>5
<1>12. CASE k = "mulm"
  <2>1. Ops(k) = <<mem_read(NOP), unit("mul", "AX", MRD(NOP))>>
    BY <1>12 DEF Ops, OpsTable, AllKinds, mul_ops
  <2>2. /\ OpOK(k, mem_read(NOP), NOP, 1)
        /\ OpOK(k, unit("mul", "AX", MRD(NOP)), mem_read(NOP), 0)
        /\ LocksJump(k) => unit("mul", "AX", MRD(NOP)).unlk
    BY <1>12, WaitsAre DEF OpOK, Regs, LocksJump, Predicted, NOP, MRD, mem_read, unit
  <2>3. KindOK(k)
    BY <2>1, <2>2 DEF KindOK
  <2>4. /\ Writes(mem_read(NOP)) = {}
        /\ Writes(unit("mul", "AX", MRD(NOP))) = {"AX", "FL"}
    BY DEF Writes, Regs, NOP, MRD, mem_read, unit
  <2>5. LocksOK(k)
    BY <1>12, <2>1, <2>4 DEF LocksOK, Fast, Locks, LocksTable, locks, Regs, AllKinds
  <2> QED
    BY <2>3, <2>5
<1>13. CASE k = "daa"
  <2>1. Ops(k) = <<unit("bcd", "AX", NOP)>>
    BY <1>13 DEF Ops, OpsTable, AllKinds, bcd_ops
  <2>2. /\ OpOK(k, unit("bcd", "AX", NOP), NOP, 0)
        /\ LocksJump(k) => unit("bcd", "AX", NOP).unlk
    BY <1>13, WaitsAre DEF OpOK, Regs, LocksJump, Predicted, NOP, unit
  <2>3. KindOK(k)
    BY <2>1, <2>2 DEF KindOK
  <2>4. /\ Writes(unit("bcd", "AX", NOP)) = {"AX", "FL"}
    BY DEF Writes, Regs, NOP, unit
  <2>5. LocksOK(k)
    BY <1>13, <2>1, <2>4 DEF LocksOK, Fast, Locks, LocksTable, locks, Regs, AllKinds
  <2> QED
    BY <2>3, <2>5
<1>14. CASE k = "clc"
  <2>1. Ops(k) = <<set_flg(NOP)>>
    BY <1>14 DEF Ops, OpsTable, AllKinds, flg_ops
  <2>2. /\ OpOK(k, set_flg(NOP), NOP, 0)
        /\ LocksJump(k) => set_flg(NOP).unlk
    BY <1>14, WaitsAre DEF OpOK, Regs, LocksJump, Predicted, NOP, set_flg
  <2>3. KindOK(k)
    BY <2>1, <2>2 DEF KindOK
  <2>4. /\ Writes(set_flg(NOP)) = {"FL"}
    BY DEF Writes, Regs, NOP, set_flg
  <2>5. LocksOK(k)
    BY <1>14, <2>1, <2>4 DEF LocksOK, Fast, Locks, LocksTable, locks, Regs, AllKinds
  <2> QED
    BY <2>3, <2>5
<1>15. CASE k = "xchgm"
  <2>1. Ops(k) = <<alu("no", mem_read(NOP)), alu("AX", MRD(mem_write("alu", NOP)))>>
    BY <1>15 DEF Ops, OpsTable, AllKinds, xchg_ops
  <2>2. /\ OpOK(k, alu("no", mem_read(NOP)), NOP, 1)
        /\ OpOK(k, alu("AX", MRD(mem_write("alu", NOP))), alu("no", mem_read(NOP)), 0)
        /\ LocksJump(k) => alu("AX", MRD(mem_write("alu", NOP))).unlk
    BY <1>15, WaitsAre DEF OpOK, Regs, LocksJump, Predicted, NOP, MRD, alu, mem_read, mem_write
  <2>3. KindOK(k)
    BY <2>1, <2>2 DEF KindOK
  <2>4. /\ Writes(alu("no", mem_read(NOP))) = {}
        /\ Writes(alu("AX", MRD(mem_write("alu", NOP)))) = {"AX"}
    BY DEF Writes, Regs, NOP, MRD, alu, mem_read, mem_write
  <2>5. LocksOK(k)
    BY <1>15, <2>1, <2>4 DEF LocksOK, Fast, Locks, LocksTable, locks, Regs, AllKinds
  <2> QED
    BY <2>3, <2>5
<1>16. CASE k = "les"
  <2>1. Ops(k) = <<mem_read(NOP), alu("AX", MRD(mem_read(NOP))), alu("ES", MRD(NOP))>>
    BY <1>16 DEF Ops, OpsTable, AllKinds, lfp_ops
  <2>2. /\ OpOK(k, mem_read(NOP), NOP, 2)
        /\ OpOK(k, alu("AX", MRD(mem_read(NOP))), mem_read(NOP), 1)
        /\ OpOK(k, alu("ES", MRD(NOP)), alu("AX", MRD(mem_read(NOP))), 0)
        /\ LocksJump(k) => alu("ES", MRD(NOP)).unlk
    BY <1>16, WaitsAre DEF OpOK, Regs, LocksJump, Predicted, NOP, MRD, alu, mem_read
  <2>3. KindOK(k)
    BY <2>1, <2>2 DEF KindOK
  <2>4. /\ Writes(mem_read(NOP)) = {}
        /\ Writes(alu("AX", MRD(mem_read(NOP)))) = {"AX"}
        /\ Writes(alu("ES", MRD(NOP))) = {"ES"}
    BY DEF Writes, Regs, NOP, MRD, alu, mem_read
  <2>5. LocksOK(k)
    BY <1>16, <2>1, <2>4 DEF LocksOK, Fast, Locks, LocksTable, locks, Regs, AllKinds
  <2> QED
    BY <2>3, <2>5
<1>17. CASE k = "popr"
  <2>1. Ops(k) = <<update_sp(mem_read(NOP)), MRD_to("CX", NOP)>>
    BY <1>17 DEF Ops, OpsTable, AllKinds, pop_ops
  <2>2. /\ OpOK(k, update_sp(mem_read(NOP)), NOP, 1)
        /\ OpOK(k, MRD_to("CX", NOP), update_sp(mem_read(NOP)), 0)
        /\ LocksJump(k) => MRD_to("CX", NOP).unlk
    BY <1>17, WaitsAre DEF OpOK, Regs, LocksJump, Predicted, NOP, MRD_to, alu, mem_read, update_sp
  <2>3. KindOK(k)
    BY <2>1, <2>2 DEF KindOK
  <2>4. /\ Writes(update_sp(mem_read(NOP))) = {"SP"}
        /\ Writes(MRD_to("CX", NOP)) = {"CX"}
    BY DEF Writes, Regs, NOP, MRD_to, alu, mem_read, update_sp
  <2>5. LocksOK(k)
    BY <1>17, <2>1, <2>4 DEF LocksOK, Fast, Locks, LocksTable, locks, Regs, AllKinds
  <2> QED
    BY <2>3, <2>5
<1>18. CASE k = "popf"
  <2>1. Ops(k) = <<update_sp(mem_read(NOP)), MRD_to("FL", NOP)>>
    BY <1>18 DEF Ops, OpsTable, AllKinds, pop_ops
  <2>2. /\ OpOK(k, update_sp(mem_read(NOP)), NOP, 1)
        /\ OpOK(k, MRD_to("FL", NOP), update_sp(mem_read(NOP)), 0)
        /\ LocksJump(k) => MRD_to("FL", NOP).unlk
    BY <1>18, WaitsAre DEF OpOK, Regs, LocksJump, Predicted, NOP, MRD_to, alu, mem_read, update_sp
  <2>3. KindOK(k)
    BY <2>1, <2>2 DEF KindOK
  <2>4. /\ Writes(update_sp(mem_read(NOP))) = {"SP"}
        /\ Writes(MRD_to("FL", NOP)) = {"FL"}
    BY DEF Writes, Regs, NOP, MRD_to, alu, mem_read, update_sp
  <2>5. LocksOK(k)
    BY <1>18, <2>1, <2>4 DEF LocksOK, Fast, Locks, LocksTable, locks, Regs, AllKinds
  <2> QED
    BY <2>3, <2>5
<1>19. CASE k = "popm"
  <2>1. Ops(k) = <<update_sp(mem_read(NOP)), MRD(mem_write("fifo", NOP))>>
    BY <1>19 DEF Ops, OpsTable, AllKinds, pop_ops
  <2>2. /\ OpOK(k, update_sp(mem_read(NOP)), NOP, 1)
        /\ OpOK(k, MRD(mem_write("fifo", NOP)), update_sp(mem_read(NOP)), 0)
        /\ LocksJump(k) => MRD(mem_write("fifo", NOP)).unlk
    BY <1>19, WaitsAre DEF OpOK, Regs, LocksJump, Predicted, NOP, MRD, alu, mem_read, mem_write, update_sp
  <2>3. KindOK(k)
    BY <2>1, <2>2 DEF KindOK
  <2>4. /\ Writes(update_sp(mem_read(NOP))) = {"SP"}
        /\ Writes(MRD(mem_write("fifo", NOP))) = {}
    BY DEF Writes, Regs, NOP, MRD, alu, mem_read, mem_write, update_sp
  <2>5. LocksOK(k)
    BY <1>19, <2>1, <2>4 DEF LocksOK, Fast, Locks, LocksTable, locks, Regs, AllKinds
  <2> QED
    BY <2>3, <2>5
<1>20. CASE k = "pushr"
  <2>1. Ops(k) = <<update_sp(mem_write("imm", NOP))>>
    BY <1>20 DEF Ops, OpsTable, AllKinds, push_ops
  <2>2. /\ OpOK(k, update_sp(mem_write("imm", NOP)), NOP, 0)
        /\ LocksJump(k) => update_sp(mem_write("imm", NOP)).unlk
    BY <1>20, WaitsAre DEF OpOK, Regs, LocksJump, Predicted, NOP, alu, mem_write, update_sp
  <2>3. KindOK(k)
    BY <2>1, <2>2 DEF KindOK
  <2>4. /\ Writes(update_sp(mem_write("imm", NOP))) = {"SP"}
    BY DEF Writes, Regs, NOP, alu, mem_write, update_sp
  <2>5. LocksOK(k)
    BY <1>20, <2>1, <2>4 DEF LocksOK, Fast, Locks, LocksTable, locks, Regs, AllKinds
  <2> QED
    BY <2>3, <2>5
<1>21. CASE k = "pushm"
  <2>1. Ops(k) = <<mem_read(NOP), update_sp(MRD(mem_write("fifo", NOP)))>>
    BY <1>21 DEF Ops, OpsTable, AllKinds, push_ops
  <2>2. /\ OpOK(k, mem_read(NOP), NOP, 1)
        /\ OpOK(k, update_sp(MRD(mem_write("fifo", NOP))), mem_read(NOP), 0)
        /\ LocksJump(k) => update_sp(MRD(mem_write("fifo", NOP))).unlk
    BY <1>21, WaitsAre DEF OpOK, Regs, LocksJump, Predicted, NOP, MRD, alu, mem_read, mem_write, update_sp
  <2>3. KindOK(k)
    BY <2>1, <2>2 DEF KindOK
  <2>4. /\ Writes(mem_read(NOP)) = {}
        /\ Writes(update_sp(MRD(mem_write("fifo", NOP)))) = {"SP"}
    BY DEF Writes, Regs, NOP, MRD, alu, mem_read, mem_write, update_sp
  <2>5. LocksOK(k)
    BY <1>21, <2>1, <2>4 DEF LocksOK, Fast, Locks, LocksTable, locks, Regs, AllKinds
  <2> QED
    BY <2>3, <2>5
<1>22. CASE k = "leave"
  <2>1. Ops(k) = <<alu("SP", mem_read(NOP)), MRD_to("BX", NOP)>>
    BY <1>22 DEF Ops, OpsTable, AllKinds, leave_ops
  <2>2. /\ OpOK(k, alu("SP", mem_read(NOP)), NOP, 1)
        /\ OpOK(k, MRD_to("BX", NOP), alu("SP", mem_read(NOP)), 0)
        /\ LocksJump(k) => MRD_to("BX", NOP).unlk
    BY <1>22, WaitsAre DEF OpOK, Regs, LocksJump, Predicted, NOP, MRD_to, alu, mem_read
  <2>3. KindOK(k)
    BY <2>1, <2>2 DEF KindOK
  <2>4. /\ Writes(alu("SP", mem_read(NOP))) = {"SP"}
        /\ Writes(MRD_to("BX", NOP)) = {"BX"}
    BY DEF Writes, Regs, NOP, MRD_to, alu, mem_read
  <2>5. LocksOK(k)
    BY <1>22, <2>1, <2>4 DEF LocksOK, Fast, Locks, LocksTable, locks, Regs, AllKinds
  <2> QED
    BY <2>3, <2>5
<1>23. CASE k = "loop"
  <2>1. Ops(k) = <<alu("CX", NOP), jump("cx", UNLK(NOP))>>
    BY <1>23 DEF Ops, OpsTable, AllKinds, loop_ops
  <2>2. /\ OpOK(k, alu("CX", NOP), NOP, 1)
        /\ OpOK(k, jump("cx", UNLK(NOP)), alu("CX", NOP), 0)
        /\ LocksJump(k) => jump("cx", UNLK(NOP)).unlk
    BY <1>23, WaitsAre DEF OpOK, Regs, LocksJump, Predicted, NOP, UNLK, alu, jump
  <2>3. KindOK(k)
    BY <2>1, <2>2 DEF KindOK
  <2>4. /\ Writes(alu("CX", NOP)) = {"CX"}
        /\ Writes(jump("cx", UNLK(NOP))) = {}
    BY DEF Writes, Regs, NOP, UNLK, alu, jump
  <2>5. LocksOK(k)
    BY <1>23, <2>1, <2>4 DEF LocksOK, Fast, Locks, LocksTable, locks, Regs, AllKinds
  <2> QED
    BY <2>3, <2>5
<1>24. CASE k = "jcxz"
  <2>1. Ops(k) = <<alu("no", NOP), jump("cc", UNLK(NOP))>>
    BY <1>24 DEF Ops, OpsTable, AllKinds, loop_ops
  <2>2. /\ OpOK(k, alu("no", NOP), NOP, 1)
        /\ OpOK(k, jump("cc", UNLK(NOP)), alu("no", NOP), 0)
        /\ LocksJump(k) => jump("cc", UNLK(NOP)).unlk
    BY <1>24, WaitsAre DEF OpOK, Regs, LocksJump, Predicted, NOP, UNLK, alu, jump
  <2>3. KindOK(k)
    BY <2>1, <2>2 DEF KindOK
  <2>4. /\ Writes(alu("no", NOP)) = {}
        /\ Writes(jump("cc", UNLK(NOP))) = {}
    BY DEF Writes, Regs, NOP, UNLK, alu, jump
  <2>5. LocksOK(k)
    BY <1>24, <2>1, <2>4 DEF LocksOK, Fast, Locks, LocksTable, locks, Regs, AllKinds
  <2> QED
    BY <2>3, <2>5
<1>25. CASE k = "jcc"
  <2>1. Ops(k) = <<jump("cc", UNLK(NOP))>>
    BY <1>25 DEF Ops, OpsTable, AllKinds, bra_ops
  <2>2. /\ OpOK(k, jump("cc", UNLK(NOP)), NOP, 0)
        /\ LocksJump(k) => jump("cc", UNLK(NOP)).unlk
    BY <1>25, WaitsAre DEF OpOK, Regs, LocksJump, Predicted, NOP, UNLK, jump
  <2>3. KindOK(k)
    BY <2>1, <2>2 DEF KindOK
  <2>4. /\ Writes(jump("cc", UNLK(NOP))) = {}
    BY DEF Writes, Regs, NOP, UNLK, jump
  <2>5. LocksOK(k)
    BY <1>25, <2>1, <2>4 DEF LocksOK, Fast, Locks, LocksTable, locks, Regs, AllKinds
  <2> QED
    BY <2>3, <2>5
<1>26. CASE k = "jmpr"
  <2>1. Ops(k) = <<jump("always", UNLK(NOP))>>
    BY <1>26 DEF Ops, OpsTable, AllKinds, jmp_ops
  <2>2. /\ OpOK(k, jump("always", UNLK(NOP)), NOP, 0)
        /\ LocksJump(k) => jump("always", UNLK(NOP)).unlk
    BY <1>26, WaitsAre DEF OpOK, Regs, LocksJump, Predicted, NOP, UNLK, jump
  <2>3. KindOK(k)
    BY <2>1, <2>2 DEF KindOK
  <2>4. /\ Writes(jump("always", UNLK(NOP))) = {}
    BY DEF Writes, Regs, NOP, UNLK, jump
  <2>5. LocksOK(k)
    BY <1>26, <2>1, <2>4 DEF LocksOK, Fast, Locks, LocksTable, locks, Regs, AllKinds
  <2> QED
    BY <2>3, <2>5
<1>27. CASE k = "jmpm"
  <2>1. Ops(k) = <<mem_read(NOP), jump_mem("always", UNLK(NOP))>>
    BY <1>27 DEF Ops, OpsTable, AllKinds, jmp_ops
  <2>2. /\ OpOK(k, mem_read(NOP), NOP, 1)
        /\ OpOK(k, jump_mem("always", UNLK(NOP)), mem_read(NOP), 0)
        /\ LocksJump(k) => jump_mem("always", UNLK(NOP)).unlk
    BY <1>27, WaitsAre DEF OpOK, Regs, LocksJump, Predicted, NOP, UNLK, jump_mem, mem_read
  <2>3. KindOK(k)
    BY <2>1, <2>2 DEF KindOK
  <2>4. /\ Writes(mem_read(NOP)) = {}
        /\ Writes(jump_mem("always", UNLK(NOP))) = {}
    BY DEF Writes, Regs, NOP, UNLK, jump_mem, mem_read
  <2>5. LocksOK(k)
    BY <1>27, <2>1, <2>4 DEF LocksOK, Fast, Locks, LocksTable, locks, Regs, AllKinds
  <2> QED
    BY <2>3, <2>5
<1>28. CASE k = "callp"
  <2>1. Ops(k) = <<update_sp(mem_write("imm", NOP)), mem_write("imm", NOP)>>
    BY <1>28 DEF Ops, OpsTable, AllKinds, call_ops
  <2>2. /\ OpOK(k, update_sp(mem_write("imm", NOP)), NOP, 1)
        /\ OpOK(k, mem_write("imm", NOP), update_sp(mem_write("imm", NOP)), 0)
        /\ LocksJump(k) => mem_write("imm", NOP).unlk
    BY <1>28, WaitsAre DEF OpOK, Regs, LocksJump, Predicted, NOP, alu, mem_write, update_sp
  <2>3. KindOK(k)
    BY <2>1, <2>2 DEF KindOK
  <2>4. /\ Writes(update_sp(mem_write("imm", NOP))) = {"SP"}
        /\ Writes(mem_write("imm", NOP)) = {}
    BY DEF Writes, Regs, NOP, alu, mem_write, update_sp
  <2>5. LocksOK(k)
    BY <1>28, <2>1, <2>4 DEF LocksOK, Fast, Locks, LocksTable, locks, Regs, AllKinds
  <2> QED
    BY <2>3, <2>5
<1>29. CASE k = "callm"
  <2>1. Ops(k) = <<update_sp(mem_write("imm", NOP)), mem_read(NOP), jump_mem("always", UNLK(NOP))>>
    BY <1>29 DEF Ops, OpsTable, AllKinds, call_ops
  <2>2. /\ OpOK(k, update_sp(mem_write("imm", NOP)), NOP, 2)
        /\ OpOK(k, mem_read(NOP), update_sp(mem_write("imm", NOP)), 1)
        /\ OpOK(k, jump_mem("always", UNLK(NOP)), mem_read(NOP), 0)
        /\ LocksJump(k) => jump_mem("always", UNLK(NOP)).unlk
    BY <1>29, WaitsAre DEF OpOK, Regs, LocksJump, Predicted, NOP, UNLK, alu, jump_mem, mem_read,
       mem_write, update_sp
  <2>3. KindOK(k)
    BY <2>1, <2>2 DEF KindOK
  <2>4. /\ Writes(update_sp(mem_write("imm", NOP))) = {"SP"}
        /\ Writes(mem_read(NOP)) = {}
        /\ Writes(jump_mem("always", UNLK(NOP))) = {}
    BY DEF Writes, Regs, NOP, UNLK, alu, jump_mem, mem_read, mem_write, update_sp
  <2>5. LocksOK(k)
    BY <1>29, <2>1, <2>4 DEF LocksOK, Fast, Locks, LocksTable, locks, Regs, AllKinds
  <2> QED
    BY <2>3, <2>5
<1>30. CASE k = "callf"
  <2>1. Ops(k) = <<mem_write("imm", NOP), update_sp(mem_write("imm", NOP)), mem_read(NOP), jump_mem("never", mem_read(NOP)), jump_mem("always", UNLK(NOP))>>
    BY <1>30 DEF Ops, OpsTable, AllKinds, call_ops
  <2>2. /\ OpOK(k, mem_write("imm", NOP), NOP, 4)
        /\ OpOK(k, update_sp(mem_write("imm", NOP)), mem_write("imm", NOP), 3)
        /\ OpOK(k, mem_read(NOP), update_sp(mem_write("imm", NOP)), 2)
        /\ OpOK(k, jump_mem("never", mem_read(NOP)), mem_read(NOP), 1)
        /\ OpOK(k, jump_mem("always", UNLK(NOP)), jump_mem("never", mem_read(NOP)), 0)
        /\ LocksJump(k) => jump_mem("always", UNLK(NOP)).unlk
    BY <1>30, WaitsAre DEF OpOK, Regs, LocksJump, Predicted, NOP, UNLK, alu, jump_mem, mem_read,
       mem_write, update_sp
  <2>3. KindOK(k)
    BY <2>1, <2>2 DEF KindOK
  <2>4. /\ Writes(mem_write("imm", NOP)) = {}
        /\ Writes(update_sp(mem_write("imm", NOP))) = {"SP"}
        /\ Writes(mem_read(NOP)) = {}
        /\ Writes(jump_mem("never", mem_read(NOP))) = {}
        /\ Writes(jump_mem("always", UNLK(NOP))) = {}
    BY DEF Writes, Regs, NOP, UNLK, alu, jump_mem, mem_read, mem_write, update_sp
  <2>5. LocksOK(k)
    BY <1>30, <2>1, <2>4 DEF LocksOK, Fast, Locks, LocksTable, locks, Regs, AllKinds
  <2> QED
    BY <2>3, <2>5
<1>31. CASE k = "ret"
  <2>1. Ops(k) = <<update_sp(mem_read(NOP)), jump_mem("always", UNLK(NOP))>>
    BY <1>31 DEF Ops, OpsTable, AllKinds, ret_ops
  <2>2. /\ OpOK(k, update_sp(mem_read(NOP)), NOP, 1)
        /\ OpOK(k, jump_mem("always", UNLK(NOP)), update_sp(mem_read(NOP)), 0)
        /\ LocksJump(k) => jump_mem("always", UNLK(NOP)).unlk
    BY <1>31, WaitsAre DEF OpOK, Regs, LocksJump, Predicted, NOP, UNLK, alu, jump_mem, mem_read, update_sp
  <2>3. KindOK(k)
    BY <2>1, <2>2 DEF KindOK
  <2>4. /\ Writes(update_sp(mem_read(NOP))) = {"SP"}
        /\ Writes(jump_mem("always", UNLK(NOP))) = {}
    BY DEF Writes, Regs, NOP, UNLK, alu, jump_mem, mem_read, update_sp
  <2>5. LocksOK(k)
    BY <1>31, <2>1, <2>4 DEF LocksOK, Fast, Locks, LocksTable, locks, Regs, AllKinds
  <2> QED
    BY <2>3, <2>5
<1>32. CASE k = "retn"
  <2>1. Ops(k) = <<NOP, update_sp(mem_read(NOP)), jump_mem("always", UNLK(NOP))>>
    BY <1>32 DEF Ops, OpsTable, AllKinds, ret_ops
  <2>2. /\ OpOK(k, NOP, NOP, 2)
        /\ OpOK(k, update_sp(mem_read(NOP)), NOP, 1)
        /\ OpOK(k, jump_mem("always", UNLK(NOP)), update_sp(mem_read(NOP)), 0)
        /\ LocksJump(k) => jump_mem("always", UNLK(NOP)).unlk
    BY <1>32, WaitsAre DEF OpOK, Regs, LocksJump, Predicted, NOP, UNLK, alu, jump_mem, mem_read, update_sp
  <2>3. KindOK(k)
    BY <2>1, <2>2 DEF KindOK
  <2>4. /\ Writes(NOP) = {}
        /\ Writes(update_sp(mem_read(NOP))) = {"SP"}
        /\ Writes(jump_mem("always", UNLK(NOP))) = {}
    BY DEF Writes, Regs, NOP, UNLK, alu, jump_mem, mem_read, update_sp
  <2>5. LocksOK(k)
    BY <1>32, <2>1, <2>4 DEF LocksOK, Fast, Locks, LocksTable, locks, Regs, AllKinds
  <2> QED
    BY <2>3, <2>5
<1>33. CASE k = "iret"
  <2>1. Ops(k) = <<mem_read(NOP), jump_mem("never", mem_read(NOP)), update_sp(jump_mem("never", mem_read(NOP))), MRD_to("FL", NOP), jump("always", UNLK(NOP))>>
    BY <1>33 DEF Ops, OpsTable, AllKinds, iret_ops
  <2>2. /\ OpOK(k, mem_read(NOP), NOP, 4)
        /\ OpOK(k, jump_mem("never", mem_read(NOP)), mem_read(NOP), 3)
        /\ OpOK(k, update_sp(jump_mem("never", mem_read(NOP))), jump_mem("never", mem_read(NOP)), 2)
        /\ OpOK(k, MRD_to("FL", NOP), update_sp(jump_mem("never", mem_read(NOP))), 1)
        /\ OpOK(k, jump("always", UNLK(NOP)), MRD_to("FL", NOP), 0)
        /\ LocksJump(k) => jump("always", UNLK(NOP)).unlk
    BY <1>33, WaitsAre DEF OpOK, Regs, LocksJump, Predicted, NOP, MRD_to, UNLK, alu, jump,
       jump_mem, mem_read, update_sp
  <2>3. KindOK(k)
    BY <2>1, <2>2 DEF KindOK
  <2>4. /\ Writes(mem_read(NOP)) = {}
        /\ Writes(jump_mem("never", mem_read(NOP))) = {}
        /\ Writes(update_sp(jump_mem("never", mem_read(NOP)))) = {"SP"}
        /\ Writes(MRD_to("FL", NOP)) = {"FL"}
        /\ Writes(jump("always", UNLK(NOP))) = {}
    BY DEF Writes, Regs, NOP, MRD_to, UNLK, alu, jump, jump_mem, mem_read, update_sp
  <2>5. LocksOK(k)
    BY <1>33, <2>1, <2>4, SMTT(30) DEF LocksOK, Fast, Locks, LocksTable, locks, Regs, AllKinds
  <2> QED
    BY <2>3, <2>5
<1> QED
  BY <1>1, <1>2, <1>3, <1>4, <1>5, <1>6, <1>7, <1>8, <1>9, <1>10, <1>11, <1>12, <1>13, <1>14,
     <1>15, <1>16, <1>17, <1>18, <1>19, <1>20, <1>21, <1>22, <1>23, <1>24, <1>25, <1>26, <1>27,
     <1>28, <1>29, <1>30, <1>31, <1>32, <1>33 DEF AllKinds

(* The micro-operation before the n-th.                                    *)
prev_of(k, n) == IF n = 1 THEN NOP ELSE Ops(k)[n - 1]

(* The same for a micro-operation by its number.                           *)
LEMMA OpsShape ==
    ASSUME NEW k \in AllKinds
    PROVE  /\ Len(Ops(k)) \in 1 .. 5
           /\ \A n \in 1 .. Len(Ops(k)) : OpOK(k, Ops(k)[n], prev_of(k, n), Len(Ops(k)) - n)
           /\ LocksJump(k) => Ops(k)[Len(Ops(k))].unlk
<1> DEFINE N == Len(Ops(k))
<1>1. KindOK(k)
  BY KindsAre
<1>2. N \in 1 .. 5 /\ (LocksJump(k) => Ops(k)[N].unlk)
  BY <1>1 DEF KindOK
<1>3. ASSUME NEW n \in 1 .. N PROVE OpOK(k, Ops(k)[n], prev_of(k, n), N - n)
  <2>0. ASSUME NEW m \in 1 .. 5, NEW i \in 1 .. m PROVE i = 1 \/ i = 2 \/ i = 3 \/ i = 4 \/ i = 5
    OBVIOUS
  <2>1. n = 1 \/ n = 2 \/ n = 3 \/ n = 4 \/ n = 5
    BY <1>2, <2>0
  <2>2. CASE n = 1
    BY <1>1, <2>2 DEF KindOK, prev_of
  <2>3. CASE n = 2
    BY <1>1, <1>2, <2>3 DEF KindOK, prev_of
  <2>4. CASE n = 3
    BY <1>1, <1>2, <2>4 DEF KindOK, prev_of
  <2>5. CASE n = 4
    BY <1>1, <1>2, <2>5 DEF KindOK, prev_of
  <2>6. CASE n = 5
    BY <1>1, <1>2, <2>6 DEF KindOK, prev_of
  <2> QED
    BY <2>1, <2>2, <2>3, <2>4, <2>5, <2>6
<1> QED
  BY <1>2, <1>3

(* Reads and awaited words are counted one micro-operation at a time.      *)
LEMMA ReadsAndWaits ==
    ASSUME NEW k \in AllKinds, NEW s \in 0 .. Len(Ops(k))
    PROVE  /\ IsFiniteSet(reads_by(k, s)) /\ IsFiniteSet(words_by(k, s))
           /\ Cardinality(reads_by(k, s)) \in Nat
           /\ s = 0 => Cardinality(reads_by(k, s)) = 0 /\ Cardinality(words_by(k, s)) = 0
           /\ s > 0 => Cardinality(reads_by(k, s)) =
                          Cardinality(reads_by(k, s - 1)) + (IF Ops(k)[s].mem = "read" THEN 1 ELSE 0)
           /\ s > 0 => Cardinality(words_by(k, s)) =
                          Cardinality(words_by(k, s - 1)) + (IF Ops(k)[s].mrd THEN 1 ELSE 0)
<1> DEFINE R(t) == reads_by(k, t)
           W(t) == words_by(k, t)
           N == Len(Ops(k))
<1>0. N \in 1 .. 5 /\ s \in 0 .. N
  BY OpsShape
<1> HIDE DEF N
<1>1. \A t \in 0 .. 5 : R(t) \subseteq 1 .. t /\ W(t) \subseteq 1 .. t
  BY DEF reads_by, words_by
<1>2. \A t \in 0 .. 5 : IsFiniteSet(R(t)) /\ IsFiniteSet(W(t))
  <2> SUFFICES ASSUME NEW t \in 0 .. 5 PROVE IsFiniteSet(R(t)) /\ IsFiniteSet(W(t))
    OBVIOUS
  <2>1. IsFiniteSet(1 .. t)
    BY FS_Interval
  <2> QED
    BY <1>1, <2>1, FS_Subset
<1>3. CASE s = 0
  <2>1. R(0) = {} /\ W(0) = {}
    BY DEF reads_by, words_by
  <2> QED
    BY <1>0, <1>2, <1>3, <2>1, FS_EmptySet
<1>4. CASE s > 0
  <2>1. s - 1 \in 0 .. 5 /\ s \in 1 .. 5
    BY <1>0, <1>4
  <2>2. R(s) = IF Ops(k)[s].mem = "read" THEN R(s - 1) \cup {s} ELSE R(s - 1)
    BY <2>1 DEF reads_by
  <2>3. W(s) = IF Ops(k)[s].mrd THEN W(s - 1) \cup {s} ELSE W(s - 1)
    BY <2>1 DEF words_by
  <2>4. s \notin R(s - 1) /\ s \notin W(s - 1)
    BY <2>1, <1>1
  <2>5. IsFiniteSet(R(s - 1)) /\ IsFiniteSet(W(s - 1)) /\ IsFiniteSet(R(s)) /\ IsFiniteSet(W(s))
    BY <1>2, <2>1
  <2>6. Cardinality(R(s - 1)) \in Nat /\ Cardinality(W(s - 1)) \in Nat /\ Cardinality(R(s)) \in Nat
    BY <2>5, FS_CardinalityType
  <2>7. Cardinality(R(s - 1) \cup {s}) = Cardinality(R(s - 1)) + 1
    BY <2>4, <2>5, FS_AddElement
  <2>8. Cardinality(W(s - 1) \cup {s}) = Cardinality(W(s - 1)) + 1
    BY <2>4, <2>5, FS_AddElement
  <2> HIDE DEF R, W
  <2>9. Cardinality(R(s)) = Cardinality(R(s - 1)) + (IF Ops(k)[s].mem = "read" THEN 1 ELSE 0)
    BY <2>2, <2>6, <2>7
  <2>10. Cardinality(W(s)) = Cardinality(W(s - 1)) + (IF Ops(k)[s].mrd THEN 1 ELSE 0)
    BY <2>3, <2>6, <2>8
  <2> QED
    BY <1>4, <2>5, <2>6, <2>9, <2>10 DEF R, W
<1> QED
  BY <1>3, <1>4

(* The word that a micro-operation waits for is the one that the micro-    *)
(* operation before it asked for.                                          *)
LEMMA WordIsTheLastRead ==
    ASSUME NEW k \in AllKinds, NEW n \in 1 .. Len(Ops(k)), Ops(k)[n].mrd
    PROVE  n > 1 /\ Ops(k)[n - 1].mem = "read" /\ word_of(k, n) = n - 1
<1> DEFINE N == Len(Ops(k))
           C(t) == Cardinality(reads_by(k, t))
           D(t) == Cardinality(words_by(k, t))
           rd(t) == IF Ops(k)[t].mem = "read" THEN 1 ELSE 0
           wd(t) == IF Ops(k)[t].mrd THEN 1 ELSE 0
<1>0. N \in 1 .. 5
  BY OpsShape
<1>1. \A t \in 1 .. N : Ops(k)[t].mrd <=> t > 1 /\ Ops(k)[t - 1].mem = "read"
  <2> SUFFICES ASSUME NEW t \in 1 .. N PROVE Ops(k)[t].mrd <=> t > 1 /\ Ops(k)[t - 1].mem = "read"
    OBVIOUS
  <2>1. OpOK(k, Ops(k)[t], prev_of(k, t), N - t)
    BY OpsShape
  <2>2. NOP.mem = "no"
    BY DEF NOP
  <2>3. Ops(k)[t].mrd <=> prev_of(k, t).mem = "read"
    BY <2>1 DEF OpOK
  <2>4. CASE t = 1
    BY <2>2, <2>3, <2>4 DEF prev_of
  <2>5. CASE t # 1
    <3>1. t > 1
      BY <1>0, <2>5
    <3> QED
      BY <2>3, <2>5, <3>1 DEF prev_of
  <2> QED
    BY <2>4, <2>5
<1>2. n > 1 /\ Ops(k)[n - 1].mem = "read"
  BY <1>1
<1>3. C(0) = 0 /\ D(0) = 0 /\ \A t \in 0 .. N : C(t) \in Nat
  <2>1. 0 \in 0 .. N
    BY <1>0
  <2>2. C(0) = 0 /\ D(0) = 0
    BY <2>1, ReadsAndWaits
  <2>3. \A t \in 0 .. N : C(t) \in Nat
    BY ReadsAndWaits
  <2> QED
    BY <2>2, <2>3
<1>4. \A t \in 1 .. N : C(t) = C(t - 1) + rd(t) /\ D(t) = D(t - 1) + wd(t)
  BY ReadsAndWaits, <1>0
<1>4a. n \in 1 .. N
  OBVIOUS
<1> HIDE DEF C, D, N
<1>5. \A t \in 1 .. N : D(t) = C(t - 1)
  <2>1. \A t \in 1 .. N : t > 1 => wd(t) = rd(t - 1)
    BY <1>1, <1>0
  <2>2. wd(1) = 0 /\ 0 \in 0 .. N /\ 1 \in 1 .. N
    BY <1>1, <1>0
  <2>3. D(1) = C(0)
    BY <1>3, <1>4, <2>2
  <2>4. ASSUME NEW t \in 1 .. N, t > 1, D(t - 1) = C(t - 2) PROVE D(t) = C(t - 1)
    <3>1. t - 1 \in 1 .. N /\ t - 2 \in 0 .. N
      BY <1>0, <2>4
    <3>2. D(t) = D(t - 1) + rd(t - 1) /\ C(t - 1) = C(t - 2) + rd(t - 1)
      BY <1>4, <2>1, <2>4, <3>1
    <3> QED
      BY <2>4, <3>2
  <2> HIDE DEF rd, wd
  <2>5. \A t \in 1 .. N : t = 1 \/ t = 2 \/ t = 3 \/ t = 4 \/ t = 5
    BY <1>0
  <2>6. 2 \in 1 .. N => D(2) = C(1)
    BY <1>0, <2>3, <2>4
  <2>7. 3 \in 1 .. N => D(3) = C(2)
    BY <1>0, <2>6, <2>4
  <2>8. 4 \in 1 .. N => D(4) = C(3)
    BY <1>0, <2>7, <2>4
  <2>9. 5 \in 1 .. N => D(5) = C(4)
    BY <1>0, <2>8, <2>4
  <2> QED
    BY <2>3, <2>5, <2>6, <2>7, <2>8, <2>9
<1>6. ASSUME NEW t \in 1 .. N, Ops(k)[t].mem = "read", C(t) = C(n - 1) PROVE t = n - 1
  <2>1. \A a \in 0 .. N : \A b \in 0 .. N : a <= b => C(a) <= C(b)
    <3>1. \A a \in 0 .. 5 : a < N => C(a) \in Nat /\ C(a + 1) \in Nat /\ C(a) <= C(a + 1)
      <4> SUFFICES ASSUME NEW a \in 0 .. 5, a < N PROVE C(a) \in Nat /\ C(a + 1) \in Nat /\ C(a) <= C(a + 1)
        OBVIOUS
      <4>1. a \in 0 .. N /\ a + 1 \in 1 .. N /\ a + 1 \in 0 .. N
        BY <1>0
      <4>2. C(a + 1) = C(a) + rd(a + 1)
        BY <1>4, <4>1
      <4> QED
        BY <1>3, <4>1, <4>2
    <3>2. ASSUME NEW a \in 0 .. N, NEW b \in 0 .. N, a <= b PROVE C(a) <= C(b)
      <4>1. \A i \in 0 .. 5 : i = 0 \/ i = 1 \/ i = 2 \/ i = 3 \/ i = 4 \/ i = 5
        OBVIOUS
      <4>2. a \in 0 .. 5 /\ b \in 0 .. 5 /\ C(b) \in Nat
        BY <1>0, <1>3
      <4>3. b >= 1 => C(0) <= C(1)
        BY <1>0, <3>1
      <4>4. b >= 2 => C(1) <= C(2)
        BY <1>0, <3>1
      <4>5. b >= 3 => C(2) <= C(3)
        BY <1>0, <3>1
      <4>6. b >= 4 => C(3) <= C(4)
        BY <1>0, <3>1
      <4>7. b >= 5 => C(4) <= C(5)
        BY <1>0, <3>1
      <4>8. \A i \in 0 .. 5 : i <= b => C(i) \in Nat
        BY <1>0, <1>3
      <4> QED
        BY <3>2, <4>1, <4>2, <4>3, <4>4, <4>5, <4>6, <4>7, <4>8
    <3> QED
      BY <3>2
  <2>2. CASE t < n - 1
    <3>1. C(t) # C(n - 1)
      <4>1. t <= n - 2 /\ n - 2 \in 0 .. N /\ n - 1 \in 1 .. N /\ (n - 1) - 1 = n - 2
        BY <1>0, <1>2, <1>4a, <2>2
      <4>2. C(n - 1) = C(n - 2) + 1
        BY <1>2, <1>4, <4>1
      <4> QED
        BY <1>0, <1>3, <2>1, <4>1, <4>2
    <3> QED
      BY <1>6, <3>1
  <2>3. CASE t > n - 1
    <3>1. C(t) = C(t - 1) + 1 /\ n - 1 <= t - 1 /\ t - 1 \in 0 .. N /\ n - 1 \in 0 .. N
      BY <1>0, <1>4, <1>4a, <1>6, <2>3
    <3> QED
      BY <1>3, <1>6, <2>1, <3>1, <1>0
  <2> QED
    BY <1>0, <1>4a, <2>2, <2>3
<1>7. n - 1 \in 1 .. N /\ C(n - 1) = D(n)
  BY <1>0, <1>2, <1>4a, <1>5
<1>8. word_of(k, n) = CHOOSE t \in reads_by(k, N) : C(t) = D(n)
  BY DEF word_of, C, D, N
<1>9. reads_by(k, N) = {t \in 1 .. N : Ops(k)[t].mem = "read"}
  BY DEF reads_by
<1>10. \A t \in reads_by(k, N) : C(t) = D(n) <=> t = n - 1
  BY <1>2, <1>6, <1>7, <1>9
<1>11. n - 1 \in reads_by(k, N)
  BY <1>2, <1>7, <1>9
<1> QED
  BY <1>2, <1>8, <1>10, <1>11

(* Registers that the n-th micro-operation or a later one writes, those    *)
(* that an earlier one wrote, and the result that a micro-operation        *)
(* writes.                                                                 *)
Ahead(k, n) == {r \in Regs : \E s \in 1 .. Len(Ops(k)) : s >= n /\ r \in Writes(Ops(k)[s])}
Behind(k, n) == {r \in Regs : \E s \in 1 .. Len(Ops(k)) : s < n /\ r \in Writes(Ops(k)[s])}
result_of(o, n, r) ==
    IF o.alu THEN <<"alu", n>> ELSE IF o.slow # "no" THEN <<"slow", n>> ELSE IF o.flg THEN <<"cmd", n>> ELSE <<"mem", n - 1>>

(* How these change from one micro-operation to the next.                  *)
LEMMA AheadAndBehind ==
    ASSUME NEW k \in AllKinds, NEW n \in 1 .. Len(Ops(k))
    PROVE  /\ \A r \in Regs : r \in Ahead(k, n) <=> r \in Writes(Ops(k)[n]) \/ r \in Ahead(k, n + 1)
           /\ \A r \in Regs : r \in Behind(k, n + 1) <=> r \in Writes(Ops(k)[n]) \/ r \in Behind(k, n)
           /\ \A r \in Writes(Ops(k)[n]) : r \notin Ahead(k, n + 1) /\ r \notin Behind(k, n)
           /\ n = Len(Ops(k)) => Ahead(k, n + 1) = {}
           /\ Behind(k, 1) = {}
<1>1. Len(Ops(k)) \in 1 .. 5
  BY OpsShape
<1>2. \A r \in Regs : \A s, t \in 1 .. Len(Ops(k)) : r \in Writes(Ops(k)[s]) /\ r \in Writes(Ops(k)[t]) => s = t
  BY KindsAre DEF LocksOK
<1>3. \A s \in 1 .. Len(Ops(k)) : Writes(Ops(k)[s]) \subseteq Regs
  BY DEF Writes
<1> QED
  BY <1>1, <1>2, <1>3 DEF Ahead, Behind

(* An instruction locks what its micro-operations are going to write,      *)
(* unless it is written as it leaves the register reader.                  *)
LEMMA LocksAreAhead ==
    ASSUME NEW k \in AllKinds
    PROVE  /\ Locks(k) \subseteq Regs
           /\ ~Fast(k) => Locks(k) = Ahead(k, 1)
           /\ Fast(k) => /\ Locks(k) \subseteq Waits(k) /\ Ops(k) = <<NOP>>
                         /\ \A n : Ahead(k, n) = {}
           /\ k = "jcc" => "FL" \in Waits(k) /\ Locks(k) = {}
           /\ CntNext(k) = (IF k = "xchg" THEN 1 ELSE IF Fast(k) THEN 0 ELSE Len(Ops(k)) - 1)
<1>1. Len(Ops(k)) \in 1 .. 5
  BY OpsShape
<1>2. Locks(k) \subseteq Regs
  BY DEF Locks, LocksTable, locks, Regs
<1>3. ASSUME ~Fast(k) PROVE Locks(k) = Ahead(k, 1)
  BY <1>1, <1>2, <1>3, KindsAre DEF LocksOK, Ahead
<1>4. ASSUME Fast(k) PROVE Locks(k) \subseteq Waits(k) /\ Ops(k) = <<NOP>>
  <2>1. Ops(k) = <<NOP>>
    BY <1>4 DEF Fast, Ops, OpsTable, AllKinds, fast_ops
  <2>2. Locks(k) \subseteq Waits(k)
    BY <1>4 DEF Fast, Locks, LocksTable, locks, Waits, WaitsTable, waits, mod_reg_rm, mod_aux_rm, opcode_waits
  <2> QED
    BY <2>1, <2>2
<1>5. ASSUME Fast(k), NEW n PROVE Ahead(k, n) = {}
  <2>1. Ops(k) = <<NOP>> /\ Len(Ops(k)) = 1
    BY <1>4, <1>5
  <2>2. Writes(NOP) = {}
    BY DEF Writes, NOP
  <2> QED
    BY <2>1, <2>2 DEF Ahead
<1>6. ASSUME k = "jcc" PROVE "FL" \in Waits(k) /\ Locks(k) = {}
  BY <1>6, WaitsAre DEF Locks, LocksTable, locks
<1>7. CntNext(k) = (IF k = "xchg" THEN 1 ELSE IF Fast(k) THEN 0 ELSE Len(Ops(k)) - 1)
  <2>1. k = "movi" => Len(Ops(k)) - 1 = 0
    BY <1>4 DEF Fast
  <2> QED
    BY <2>1 DEF CntNext, Fast
<1> QED
  BY <1>2, <1>3, <1>4, <1>5, <1>6, <1>7

(* The result a register is to get is that of the only micro-operation     *)
(* that writes it.                                                         *)
LEMMA ResultsAre ==
    ASSUME NEW k \in AllKinds, ~Fast(k), NEW n \in 1 .. Len(Ops(k)), NEW r \in Writes(Ops(k)[n])
    PROVE  r \in Locks(k) /\ Results[k][r] = result_of(Ops(k)[n], n, r)
<1> DEFINE N == Len(Ops(k))
           o == Ops(k)[n]
           U == {"alu", "slow", "cmd", "mem"} \X (1 .. N)
           u0 == IF o.alu THEN "alu" ELSE IF o.slow # "no" THEN "slow" ELSE IF o.flg THEN "cmd" ELSE "mem"
           P(w) == writes(Ops(k)[w[2]], w[1], r)
<1>1. OpOK(k, o, prev_of(k, n), N - n)
  BY OpsShape
<1>2. r \in Regs
  BY DEF Writes
<1>3. r \in Locks(k)
  BY <1>2, LocksAreAhead DEF Ahead
<1>4. \A u \in {"alu", "slow", "cmd", "mem"} : writes(o, u, r) <=> u = u0
  BY <1>1, <1>2 DEF OpOK, writes, Writes, Regs
<1>5. \A s \in 1 .. N : \A u \in {"alu", "slow", "cmd", "mem"} : writes(Ops(k)[s], u, r) => s = n
  <2> SUFFICES ASSUME NEW s \in 1 .. N, NEW u \in {"alu", "slow", "cmd", "mem"}, writes(Ops(k)[s], u, r) PROVE s = n
    OBVIOUS
  <2>1. r \in Writes(Ops(k)[s])
    BY <1>2 DEF writes, Writes
  <2> QED
    BY <1>2, <2>1, KindsAre DEF LocksOK
<1>6. \A w \in U : P(w) <=> w = <<u0, n>>
  BY <1>4, <1>5
<1>7. <<u0, n>> \in U
  OBVIOUS
<1>8. writer(k, r) = <<u0, n>>
  <2>1. writer(k, r) = CHOOSE w \in U : P(w)
    BY DEF writer
  <2> QED
    BY <1>6, <1>7, <2>1
<1>9. Results[k][r] = result(k, r)
  BY <1>3 DEF Results
<1>10. result(k, r) = IF u0 = "mem" THEN <<"mem", word_of(k, n)>> ELSE <<u0, n>>
  BY <1>8 DEF result
<1>11. u0 = "mem" => word_of(k, n) = n - 1
  <2>1. u0 = "mem" => o.mrd
    BY <1>1 DEF OpOK, Writes
  <2> QED
    BY <2>1, WordIsTheLastRead
<1> QED
  BY <1>3, <1>9, <1>10, <1>11 DEF result_of

LEMMA FastResults ==
    ASSUME NEW k \in AllKinds, Fast(k), NEW r \in Locks(k)
    PROVE  Results[k][r] = <<"fast", 1>>
  BY DEF Results, result

(* The data a store is to carry is the result of its own micro-operation.  *)
LEMMA StoresAre ==
    ASSUME NEW k \in AllKinds, NEW n \in 1 .. Len(Ops(k)), k # "xchgm"
    PROVE  LET o == Ops(k)[n] IN
           StoreData(k, n) = IF o.mem = "fifo" THEN <<"mem", n - 1>> ELSE IF o.mem = "read" THEN <<"mem", n>> ELSE <<o.mem, n>>
<1>1. OpOK(k, Ops(k)[n], prev_of(k, n), Len(Ops(k)) - n)
  BY OpsShape
<1>2. Ops(k)[n].mem = "fifo" => word_of(k, n) = n - 1
  BY <1>1, WordIsTheLastRead DEF OpOK
<1> QED
  BY <1>2 DEF StoreData

-----------------------------------------------------------------------------
(***************************************************************************)
(* The invariant.  Beside the types it says where the results of each      *)
(* micro-operation may be at the same time (UnitsAgree), that the words    *)
(* memory owes are those awaited, in order (WordsInOrder), that a word     *)
(* which shares a data register with the ALU meets none of its results     *)
(* (WordIsAlone), that the lock count of a register is the number of its   *)
(* writes under way (LocksCounted), what an instruction waited for is      *)
(* still so while it is carried out (WaitsOver), where the value of each   *)
(* last writer is (Values), what a jump under way has left behind it       *)
(* (Jumps, JumpLocks), and whose data a store carries (Stores).            *)
(***************************************************************************)
(* RealTag is what a value can be once it is computed; One(q, S) says that *)
(* the register q is empty or holds an item of S.                          *)
Bit(b) == IF b THEN 1 ELSE 0
RealTag == (0 .. MaxInstr) \X {"init", "stale", "fast", "alu", "slow", "cmd", "mem", "imm"} \X (0 .. 5)
AluReq == [tag : RealTag, wb : (Regs \ {"FL"}) \cup {"no"}, fl : BOOLEAN]
SlowRes == [tag : RealTag, wb : SUBSET {"AX"}]
One(q, S) == q = None \/ (q # None /\ q[1] \in S)

(* mexec waits for a word; a read is asked for; the micro-operation in the *)
(* register will wait for one.                                             *)
awaits == "fifo" \in mexec_wait
Reading == lsu_req.v /\ lsu_req.cmd = "read"
ToRead == micro.v /\ op.mrd

(* 1. What the registers may hold. *)
FrontTypes ==
    /\ family \subseteq AllKinds /\ family \in Families
    /\ instr \in [v : BOOLEAN, k : AllKinds, pred : BOOLEAN] /\ rr \in [v : BOOLEAN, k : AllKinds, pred : BOOLEAN]
    /\ micro \in [v : BOOLEAN, k : AllKinds, n : 1 .. 5, pred : BOOLEAN, cnt : 0 .. 4, busy : BOOLEAN]
    /\ done \in Nat /\ done + Bit(rr.v) + Bit(instr.v) <= MaxInstr
    /\ lock \subseteq Regs
    /\ micro.n + micro.cnt = Len(Ops(micro.k))
    /\ ~micro.v \/ ~micro.busy => micro.cnt = 0
    /\ instr.pred => Predicted(instr.k)
    /\ rr.pred => Predicted(rr.k)
    /\ micro.pred => Predicted(micro.k)
    /\ instr.v => instr.k \in family
    /\ rr.v => rr.k \in family
    /\ micro.v => micro.k \in family
RegTypes ==
    /\ reg \in [Regs -> [v : BOOLEAN, hs : Nat, val : RealTag]]
    /\ jmp_lock \in [v : BOOLEAN, hs : 0 .. 1, val : {None}]
    /\ wr \in [Regs -> Tag] /\ last \in [Regs -> RealTag]
UnitTypes ==
    /\ mexec_busy \in BOOLEAN /\ mexec_wait \subseteq {"fifo", "slow", "jmp"}
    /\ unlk \in [fl : BOOLEAN, pulse : BOOLEAN]
    /\ One(alu_wait, AluReq) /\ One(alu_req, AluReq) /\ One(alu_res, AluReq)
    /\ slow \in [st : {"idle", "fifo", "req", "run"}, unit : {"no", "shf", "mul", "bcd"}, cnt : Nat,
                 tag : Tag, wb : SUBSET {"AX"}]
    /\ slow.st # "idle" => slow.tag \in RealTag
    /\ One(slow_res, SlowRes)
    /\ op_cnt \in Nat
    /\ flags_src \in {"cmd", "mem", "user"}
    /\ jmp \in [busy : BOOLEAN, mem : BOOLEAN, alu : BOOLEAN, cond : {"no", "always", "cc", "cx", "never"},
                take : BOOLEAN, v : BOOLEAN, pred : BOOLEAN]
    /\ event_jump \in BOOLEAN
MemTypes ==
    /\ lsu_req \in [v : BOOLEAN, cmd : {"read", "write"}, data : Tag, want : Tag]
    /\ lsu_req.v => lsu_req.data \in RealTag
    /\ mem_wait \in {"no", "alu", "slow", "fifo"}
    /\ lsu_rd \in Seq(RealTag)
    /\ mem_reads \in Seq([tag : RealTag, old : BOOLEAN])
    /\ mem_dst \in [reg : Regs \cup {"no"}, want : Tag]
Types == FrontTypes /\ RegTypes /\ UnitTypes /\ MemTypes

(* 2. What mexec waits for, and where the results are. *)
UnitsAgree ==
    /\ mexec_wait # {} => mexec_busy
    /\ "slow" \in mexec_wait <=> slow.st # "idle" \/ slow_res # None
    /\ slow.st = "idle" => slow = NoSlow
    /\ slow.st = "fifo" => awaits /\ mem_dst.reg = "no"
    /\ slow.st \in {"req", "run"} \/ slow_res # None => ~awaits
    /\ slow.st # "idle" => slow_res = None /\ alu_wait = None /\ alu_req = None
    /\ slow.st = "run" \/ slow_res # None => alu_res = None /\ alu_req = None
    /\ slow.st = "run" => slow.cnt > 0
    /\ slow_res # None => alu_wait = None
    /\ alu_wait # None => awaits /\ mem_dst.reg = "no" /\ alu_req = None
    /\ op_cnt = Bit(alu_res # None) + Bit(slow.st = "run") + Bit(slow_res # None)
    /\ unlk.pulse => ~mexec_busy
    /\ mem_wait = "fifo" => awaits /\ slow.st = "idle" /\ mem_dst.reg = "no"
    /\ mem_wait # "no" => ~lsu_req.v /\ ~ToRead /\ lsu_req.cmd = "write"

(* 3. The words that memory owes are those that are awaited, in order. *)
way == Len(lsu_rd) + Len(mem_reads) + Bit(Reading)
word(i) == IF i <= Len(lsu_rd) THEN lsu_rd[i]
           ELSE IF i <= Len(lsu_rd) + Len(mem_reads) THEN mem_reads[i - Len(lsu_rd)].tag ELSE lsu_req.data
awaited(i) == IF awaits /\ i = 1 THEN mem_dst.want ELSE <<done, "mem", micro.n - 1>>
WordsInOrder == way = Bit(awaits) + Bit(ToRead) /\ \A i \in 1 .. way : word(i) = awaited(i)

(* 4. A word for the data register that registers share, or for memory, does  *)
(* not meet a result of the ALU.                                             *)
careful(o) == o.dest \notin {"no", "FL"} \/ o.mem = "fifo"
Careful == awaits /\ (mem_dst.reg \notin {"no", "FL"} \/ mem_wait = "fifo")
WordIsAlone ==
    /\ micro.v /\ careful(op) => ~awaits
    /\ (micro.v /\ careful(op)) \/ Careful =>
        /\ alu_req # None => Reading /\ mem_reads = <<>> /\ lsu_rd = <<>>
        /\ alu_res # None => lsu_rd = <<>> /\ (mem_reads = <<>> \/ ~mem_reads[1].old)

(* 5. Locks. *)
Moving(q, r) == q # None /\ (q[1].wb = r \/ (r = "FL" /\ q[1].fl))
Result(q, r) == q # None /\ r \in q[1].wb \cup {"FL"}
InSlow(r) == slow.st # "idle" /\ r \in slow.wb \cup {"FL"}
FromMem(r) == awaits /\ mem_dst.reg = r
InMicro(r) == micro.v /\ r \in Ahead(micro.k, micro.n)
InReader(r) == rr.v /\ r \in Locks(rr.k)
Early(r) == Bit(wr[r] # None) + Bit(Moving(alu_res, r)) + Bit(Moving(alu_req, r)) + Bit(Result(slow_res, r))
            + Bit(Moving(alu_wait, r)) + Bit(InSlow(r)) + Bit(FromMem(r))
LocksCounted ==
    /\ \A r \in Regs : reg[r].hs + Bit(r \in lock) = Early(r) + Bit(InMicro(r)) + Bit(InReader(r))
    /\ \A r \in Regs : reg[r].v <=> reg[r].hs = 0
    /\ lock # {} => rr.v /\ lock = Locks(rr.k)
WaitsOver ==
    /\ rr.v => \A r \in Waits(rr.k) : Early(r) = 0 /\ ~InMicro(r)
    /\ micro.v => \A r \in Waits(micro.k) \ Behind(micro.k, micro.n) : Early(r) = 0
    /\ \A r \in Regs : FromMem(r) => Early(r) = 1
    /\ FromMem("FL") => flags_src = "mem"

(* 6. Values. *)
Flying(r) ==
    IF Moving(alu_wait, r) THEN alu_wait[1].tag
    ELSE IF InSlow(r) THEN slow.tag
    ELSE IF FromMem(r) THEN mem_dst.want
    ELSE IF Moving(alu_req, r) THEN alu_req[1].tag
    ELSE IF Result(slow_res, r) THEN slow_res[1].tag
    ELSE IF Moving(alu_res, r) THEN alu_res[1].tag
    ELSE IF wr[r] # None THEN wr[r]
    ELSE reg[r].val
Latest(r) == IF InMicro(r) THEN of(done, Results[micro.k][r]) ELSE Flying(r)
Values == \A r \in Regs : last[r] = Latest(r)

(* 7. Jumps. *)
Leaving == jmp.cond \in {"always", "cc", "cx"}
Emptied == /\ mem_wait = "no" /\ ~lsu_req.v /\ alu_req = None /\ alu_wait = None /\ slow.st = "idle" /\ slow_res = None
Jumps ==
    /\ jmp.mem => awaits
    /\ jmp.busy => "jmp" \in mexec_wait /\ ~jmp.v
    /\ ~Leaving => ~jmp.take /\ ~jmp.pred /\ ~event_jump
    /\ Leaving /\ (jmp.busy \/ jmp.v) =>
         mexec_busy /\ unlk.fl /\ Emptied /\ (awaits => mem_dst.reg = "no")
    /\ Leaving /\ jmp.busy => (jmp.mem <=> awaits)
    /\ Leaving /\ jmp.v => ~awaits /\ alu_res = None /\ wr = NoWrites
    /\ event_jump => ~micro.v /\ mexec_wait = {} /\ Emptied /\ alu_res = None /\ wr = NoWrites
JumpLocks ==
    /\ (mexec_busy /\ unlk.fl) \/ unlk.pulse => ~micro.v
    /\ ~jmp_lock.v => (micro.v /\ LocksJump(micro.k)) \/ (mexec_busy /\ unlk.fl) \/ unlk.pulse \/ event_jump
    /\ (micro.v /\ LocksJump(micro.k)) \/ (mexec_busy /\ unlk.fl) \/ unlk.pulse => ~jmp_lock.v
    /\ jmp_lock.v <=> jmp_lock.hs = 0

(* 8. Stores. *)
CarriedValues ==
    /\ lsu_req.v => lsu_req.data = lsu_req.want
    /\ micro.v /\ op.mem = "alu" => alu_req = None /\ alu_wait = None
    /\ mem_wait = "alu" => /\ alu_wait # None \/ alu_req # None \/ alu_res # None
                           /\ alu_wait # None => alu_wait[1].tag = lsu_req.want /\ alu_res = None
                           /\ alu_req # None => alu_req[1].tag = lsu_req.want /\ alu_res = None
                           /\ alu_res # None => alu_res[1].tag = lsu_req.want
                           /\ slow.st = "idle" /\ slow_res = None
    /\ mem_wait = "slow" => /\ slow.st # "idle" => slow.tag = lsu_req.want
                            /\ slow_res # None => slow_res[1].tag = lsu_req.want
                            /\ slow.st # "idle" \/ slow_res # None
    /\ mem_wait = "fifo" => lsu_req.want = mem_dst.want
Stores == "xchgm" \notin family => CarriedValues

PipeInv == Types /\ UnitsAgree /\ WordsInOrder /\ WordIsAlone /\ LocksCounted /\ WaitsOver /\ Values
           /\ Jumps /\ JumpLocks /\ Stores

-----------------------------------------------------------------------------
(***************************************************************************)
(* One edge of the units, with and without a micro-operation that leaves.  *)
(***************************************************************************)
(* The micro-operation in the register is one of its instruction.          *)
LEMMA OpHere ==
    ASSUME FrontTypes
    PROVE  /\ micro.k \in AllKinds /\ micro.n \in 1 .. Len(Ops(micro.k)) /\ Len(Ops(micro.k)) \in 1 .. 5
           /\ micro.cnt = Len(Ops(micro.k)) - micro.n
           /\ OpOK(micro.k, op, prev_of(micro.k, micro.n), micro.cnt)
<1>1. micro.k \in AllKinds /\ micro.n \in 1 .. 5 /\ micro.cnt \in 0 .. 4 /\ micro.n + micro.cnt = Len(Ops(micro.k))
  BY DEF FrontTypes
<1>2. Len(Ops(micro.k)) \in 1 .. 5
  BY <1>1, OpsShape
<1>3. micro.n \in 1 .. Len(Ops(micro.k)) /\ micro.cnt = Len(Ops(micro.k)) - micro.n
  <2>1. \A a, b, c \in Int : a >= 1 /\ b >= 0 /\ a + b = c => a \in 1 .. c /\ b = c - a
    OBVIOUS
  <2>2. micro.n \in Int /\ micro.cnt \in Int /\ Len(Ops(micro.k)) \in Int /\ micro.n >= 1 /\ micro.cnt >= 0
    BY <1>1, <1>2
  <2> QED
    BY <1>1, <2>1, <2>2
<1>4. OpOK(micro.k, op, prev_of(micro.k, micro.n), Len(Ops(micro.k)) - micro.n)
  <2>1. \A n \in 1 .. Len(Ops(micro.k)) :
           OpOK(micro.k, Ops(micro.k)[n], prev_of(micro.k, n), Len(Ops(micro.k)) - n)
    BY <1>1, OpsShape
  <2> QED
    BY <1>3, <2>1 DEF op
<1> QED
  BY <1>1, <1>2, <1>3, <1>4

(* When a micro-operation leaves its register nothing is under way that mexec *)
(* would wait for.                                                          *)
LEMMA IssueFacts ==
    ASSUME Types, UnitsAgree, NEW ready \in BOOLEAN, micro_hs(ready)
    PROVE  /\ micro.v /\ ~mexec_busy /\ mexec_wait = {} /\ ~rd_hs
           /\ slow = NoSlow /\ slow_res = None /\ alu_wait = None
           /\ mem_wait = "no" /\ (lsu_req.v => ready)
<1>1. micro.v /\ ~mexec_busy /\ mem_wait \notin {"alu", "slow"} /\ (lsu_req.v => ready)
  BY DEF micro_hs, micro_tready
<1>2. mexec_wait = {}
  BY <1>1 DEF UnitsAgree
<1>3. slow.st = "idle" /\ slow_res = None /\ alu_wait = None /\ ~rd_hs
  BY <1>2 DEF UnitsAgree, awaits, rd_hs
<1>4. mem_wait = "no"
  BY <1>1, <1>2 DEF UnitsAgree, awaits, Types, MemTypes
<1> QED
  BY <1>1, <1>2, <1>3, <1>4 DEF UnitsAgree

(* What the units get from a micro-operation that leaves.                  *)
alu_of == [tag |-> own("alu"), wb |-> op.wb, fl |-> op.fl]
slow_of == [st |-> IF op.mrd THEN "fifo" ELSE "req", unit |-> op.slow, cnt |-> 0,
            tag |-> own("slow"), wb |-> op.slow_wb]

(* A micro-operation that leaves finds the units empty, but for a result   *)
(* of the ALU.                                                             *)
LEMMA IssueUnits ==
    ASSUME Types, UnitsAgree, NEW ready \in BOOLEAN, NEW answers \in BOOLEAN, NEW offers \in BOOLEAN,
           Clock(ready, answers, offers), micro_hs(ready)
    PROVE  /\ alu_wait' = IF op.alu /\ op.mrd THEN <<alu_of>> ELSE None
           /\ alu_req' = IF op.alu /\ ~op.mrd THEN <<alu_of>> ELSE None
           /\ alu_res' = alu_req
           /\ slow' = IF op.slow # "no" THEN slow_of ELSE NoSlow
           /\ slow_res' = None
           /\ mexec_busy' = takes_time(op)
           /\ mexec_wait' = waits_for(op) \cup (IF op.jmp # "no" /\ slow_jump(op) THEN {"jmp"} ELSE {})
           /\ unlk' = [fl |-> op.unlk, pulse |-> FALSE]
           /\ mem_dst' = [reg |-> op.dest,
                          want |-> IF op.mrd THEN <<done, "mem", word_of(micro.k, micro.n)>> ELSE None]
           /\ mem_wait' = IF op.mem \in {"alu", "slow", "fifo"} THEN op.mem ELSE "no"
           /\ lsu_req'.v = (op.mem \in {"read", "imm"})
           /\ lsu_req'.cmd = (IF op.mem = "read" THEN "read" ELSE "write")
           /\ lsu_req'.data = own(IF op.mem = "read" THEN "mem" ELSE "imm")
           /\ op.mem # "no" => lsu_req'.want = of(done, StoreData(micro.k, micro.n))
<1>0. /\ micro.v /\ ~mexec_busy /\ mexec_wait = {} /\ ~rd_hs
      /\ slow = NoSlow /\ slow_res = None /\ alu_wait = None
      /\ mem_wait = "no" /\ (lsu_req.v => ready)
  BY IssueFacts
<1>1. OpOK(micro.k, op, prev_of(micro.k, micro.n), micro.cnt)
  BY OpHere DEF Types
<1>2. micro_hs(ready) = TRUE
  BY DEF micro_hs, micro_tready
<1> DEFINE hs == micro_hs(ready)
<1>3. /\ AluStep(TRUE) /\ SlowStep(TRUE) /\ Busy(TRUE) /\ Request(TRUE, ready) /\ WriteBack(TRUE)
  BY <1>2 DEF Clock
<1>4. /\ alu_wait' = IF op.alu /\ op.mrd THEN <<alu_of>> ELSE None
      /\ alu_req' = IF op.alu /\ ~op.mrd THEN <<alu_of>> ELSE None
      /\ alu_res' = alu_req
  BY <1>0, <1>1, <1>3 DEF AluStep, alu_of, OpOK
<1>5. slow' = IF op.slow # "no" THEN slow_of ELSE NoSlow
  BY <1>0, <1>3 DEF SlowStep, slow_of, NoSlow
<1>6. slow_res' = None
  BY <1>0, <1>3 DEF SlowStep, NoSlow
<1>7. mexec_busy' = takes_time(op)
  BY <1>0, <1>3 DEF Busy, takes_time
<1>8. mexec_wait' = waits_for(op) \cup (IF op.jmp # "no" /\ slow_jump(op) THEN {"jmp"} ELSE {})
  BY <1>0, <1>3 DEF Busy
<1>9. unlk' = [fl |-> op.unlk, pulse |-> FALSE]
  <2>1. op.unlk => takes_time(op)
    BY <1>1 DEF OpOK, takes_time
  <2>2. unlk' = [fl |-> op.unlk, pulse |-> op.unlk /\ ~takes_time(op)]
    BY <1>3 DEF Busy
  <2>3. op.unlk /\ ~takes_time(op) <=> FALSE
    BY <2>1
  <2> QED
    BY <2>2, <2>3, Zenon
<1>10. mem_dst' = [reg |-> op.dest,
                   want |-> IF op.mrd THEN <<done, "mem", word_of(micro.k, micro.n)>> ELSE None]
  BY <1>3 DEF WriteBack
<1>11. mem_wait' = IF op.mem \in {"alu", "slow", "fifo"} THEN op.mem ELSE "no"
  BY <1>0, <1>1, <1>3 DEF Request, OpOK
<1>12. /\ lsu_req'.v = (op.mem \in {"read", "imm"})
       /\ lsu_req'.cmd = (IF op.mem = "read" THEN "read" ELSE "write")
       /\ lsu_req'.data = own(IF op.mem = "read" THEN "mem" ELSE "imm")
       /\ op.mem # "no" => lsu_req'.want = of(done, StoreData(micro.k, micro.n))
  BY <1>0, <1>1, <1>3 DEF Request, OpOK, Types, MemTypes
<1> QED
  BY <1>4, <1>5, <1>6, <1>7, <1>8, <1>9, <1>10, <1>11, <1>12

(* An edge on which no micro-operation leaves. *)
LEMMA WaitUnits ==
    ASSUME Types, UnitsAgree, NEW ready \in BOOLEAN, NEW answers \in BOOLEAN, NEW offers \in BOOLEAN,
           Clock(ready, answers, offers), ~micro_hs(ready)
    PROVE  /\ alu_wait' = IF rd_hs THEN None ELSE alu_wait
           /\ alu_req' = IF rd_hs THEN alu_wait ELSE None
           /\ alu_res' = alu_req
           /\ mexec_busy' = (mexec_busy /\ ~finishes)
           /\ mexec_wait' = {u \in mexec_wait : \/ u = "fifo" /\ ~rd_hs
                                                \/ u = "slow" /\ slow_res = None
                                                \/ u = "jmp" /\ ~jmp.v}
           /\ unlk' = [fl |-> unlk.fl, pulse |-> finishes /\ unlk.fl]
           /\ mem_dst' = mem_dst
           /\ mem_wait' = IF \/ mem_wait = "alu" /\ res_valid
                             \/ mem_wait = "slow" /\ slow_res # None
                             \/ mem_wait = "fifo" /\ rd_hs THEN "no" ELSE mem_wait
           /\ lsu_req'.cmd = lsu_req.cmd /\ lsu_req'.want = lsu_req.want
<1>1. micro_hs(ready) = FALSE
  BY DEF micro_hs, micro_tready
<1>2. /\ AluStep(FALSE) /\ Busy(FALSE) /\ Request(FALSE, ready) /\ WriteBack(FALSE)
  BY <1>1 DEF Clock
<1>3. rd_hs <=> rd_valid /\ awaits
  BY DEF rd_hs, awaits
<1>4. /\ alu_wait # None => awaits
      /\ awaits => mexec_busy
      /\ mem_wait = "fifo" => awaits
      /\ unlk.pulse => ~mexec_busy
  BY DEF UnitsAgree, awaits
<1>5. /\ alu_wait' = IF rd_hs THEN None ELSE alu_wait
      /\ alu_req' = IF rd_hs THEN alu_wait ELSE None
      /\ alu_res' = alu_req
  BY <1>2, <1>3, <1>4 DEF AluStep
<1>6. mexec_busy' = (mexec_busy /\ ~finishes)
  BY <1>2 DEF Busy, Types, UnitTypes
<1>7. mexec_wait' = {u \in mexec_wait :
                        \/ u = "fifo" /\ ~rd_hs
                        \/ u = "slow" /\ slow_res = None
                        \/ u = "jmp" /\ ~jmp.v}
  BY <1>2, <1>3, <1>4 DEF Busy, awaits
<1>8. unlk' = [fl |-> unlk.fl, pulse |-> finishes /\ unlk.fl]
  <2>1. unlk' = [fl |-> unlk.fl, pulse |-> IF finishes THEN unlk.fl ELSE mexec_busy /\ unlk.pulse]
    BY <1>2 DEF Busy
  <2>2. (IF finishes THEN unlk.fl ELSE mexec_busy /\ unlk.pulse) = (finishes /\ unlk.fl)
    <3>1. finishes \in BOOLEAN
      BY DEF finishes
    <3>2. unlk.fl \in BOOLEAN /\ (mexec_busy /\ unlk.pulse <=> FALSE)
      BY <1>4 DEF Types, UnitTypes
    <3> QED
      BY <3>1, <3>2, Zenon
  <2> QED
    BY <2>1, <2>2, Zenon
<1>9. mem_dst' = mem_dst
  BY <1>2 DEF WriteBack
<1>10. /\ mem_wait' = IF \/ mem_wait = "alu" /\ res_valid
                         \/ mem_wait = "slow" /\ slow_res # None
                         \/ mem_wait = "fifo" /\ rd_hs THEN "no" ELSE mem_wait
       /\ lsu_req'.cmd = lsu_req.cmd /\ lsu_req'.want = lsu_req.want
  BY <1>2, <1>3, <1>4 DEF Request
<1> QED
  BY <1>5, <1>6, <1>7, <1>8, <1>9, <1>10

(* The slow units, without and with a word that arrives. *)
LEMMA WaitSlow ==
    ASSUME Types, UnitsAgree, NEW ready \in BOOLEAN, NEW answers \in BOOLEAN, NEW offers \in BOOLEAN,
           Clock(ready, answers, offers), ~micro_hs(ready)
    PROVE  /\ slow.st = "fifo" => slow' = [slow EXCEPT !.st = IF rd_hs THEN "req" ELSE "fifo"] /\ slow_res' = None
           /\ slow.st = "idle" => slow' = NoSlow /\ slow_res' = None
           /\ slow.st = "req" => \/ \E n \in Nat \ {0} : slow' = [slow EXCEPT !.st = "run", !.cnt = n] /\ slow_res' = None
                                 \/ slow' = NoSlow /\ slow_res' = <<[tag |-> slow.tag, wb |-> slow.wb]>>
           /\ slow.st = "run" => \/ slow.cnt # 1 /\ slow' = [slow EXCEPT !.cnt = @ - 1] /\ slow_res' = None
                                 \/ slow' = NoSlow /\ slow_res' = <<[tag |-> slow.tag, wb |-> slow.wb]>>
<1>1. micro_hs(ready) = FALSE
  BY DEF micro_hs, micro_tready
<1>2. SlowStep(FALSE)
  BY <1>1 DEF Clock
<1>3. /\ rd_hs <=> rd_valid /\ awaits
      /\ slow.st = "fifo" => awaits
      /\ slow.st = "idle" => slow = NoSlow
  BY DEF rd_hs, awaits, UnitsAgree
<1>4. slow \in [st : {"idle", "fifo", "req", "run"}, unit : {"no", "shf", "mul", "bcd"}, cnt : Nat,
                tag : Tag, wb : SUBSET {"AX"}]
  BY DEF Types, UnitTypes
<1>5. CASE slow.st = "fifo"
  <2>1. slow' = [slow EXCEPT !.st = IF rd_valid THEN "req" ELSE "fifo"] /\ slow_res' = None
    BY <1>2, <1>4, <1>5 DEF SlowStep
  <2> QED
    BY <1>3, <1>5, <2>1
<1>6. CASE slow.st = "idle"
  BY <1>2, <1>3, <1>6 DEF SlowStep, NoSlow
<1>7. CASE slow.st = "req"
  <2>1. PICK n \in latency(slow.unit) : slow' = IF n = 0 THEN NoSlow ELSE [slow EXCEPT !.st = "run", !.cnt = n]
    BY <1>2, <1>7 DEF SlowStep
  <2>2. n \in Nat
    BY <1>4, ExecuteAssumption DEF latency
  <2>3. slow_res' = IF slow'.st = "idle" THEN <<[tag |-> slow.tag, wb |-> slow.wb]>> ELSE None
    BY <1>2, <1>7 DEF SlowStep
  <2>4. CASE n = 0
    BY <1>7, <2>1, <2>3, <2>4 DEF NoSlow
  <2>5. CASE n # 0
    <3>1. slow' = [slow EXCEPT !.st = "run", !.cnt = n]
      BY <2>1, <2>5
    <3>2. slow'.st = "run"
      BY <1>4, <3>1
    <3> QED
      BY <1>7, <2>2, <2>3, <2>5, <3>1, <3>2
  <2> QED
    BY <2>4, <2>5
<1>8. CASE slow.st = "run"
  BY <1>2, <1>4, <1>8 DEF SlowStep
<1> QED
  BY <1>4, <1>5, <1>6, <1>7, <1>8

-----------------------------------------------------------------------------
(***************************************************************************)
(* Writes to the registers, and the lock counts.                           *)
(***************************************************************************)
(* When a register has no write under way, or only that of a word.         *)
LEMMA EarlyIs ==
    ASSUME NEW r
    PROVE  /\ Early(r) \in Nat
           /\ Early(r) = 0 <=> /\ wr[r] = None /\ ~Moving(alu_res, r) /\ ~Moving(alu_req, r) /\ ~Result(slow_res, r)
                               /\ ~Moving(alu_wait, r) /\ ~InSlow(r) /\ ~FromMem(r)
           /\ FromMem(r) => (Early(r) = 1 <=>
                 /\ wr[r] = None /\ ~Moving(alu_res, r) /\ ~Moving(alu_req, r) /\ ~Result(slow_res, r)
                 /\ ~Moving(alu_wait, r) /\ ~InSlow(r))
  BY DEF Early, Bit

(* A command and a word for the flags find nothing else under way to them. *)
LEMMA WaitsAtIssue ==
    ASSUME Types, WaitsOver, micro.v, NEW r \in Writes(op), r \in Waits(micro.k)
    PROVE  Early(r) = 0
<1>1. micro.k \in AllKinds /\ micro.n \in 1 .. Len(Ops(micro.k))
  BY OpHere DEF Types
<1>2. r \notin Behind(micro.k, micro.n)
  BY <1>1, AheadAndBehind DEF op
<1> QED
  BY <1>2 DEF WaitsOver

(* Two results for one register never come on the same edge, nor two for   *)
(* the flags.                                                              *)
LEMMA OneWriter ==
    ASSUME Types, UnitsAgree, WaitsOver, NEW ready \in BOOLEAN, NEW r \in Regs
    PROVE  /\ Moving(alu_res, r) => slow_res = None /\ ~(rd_hs /\ FromMem(r))
           /\ slow_res # None => ~rd_hs /\ ~micro_hs(ready) /\ alu_res = None
           /\ rd_hs => ~micro_hs(ready)
           /\ micro_hs(ready) /\ (op.flg \/ op.dest = "FL") => ~Moving(alu_res, "FL") /\ "FL" \in Writes(op)
<1>1. Moving(alu_res, r) => slow_res = None
  BY DEF Moving, UnitsAgree
<1>2. ~(Moving(alu_res, r) /\ FromMem(r))
  BY EarlyIs DEF WaitsOver
<1>3. slow_res # None => ~rd_hs /\ alu_res = None
  BY DEF UnitsAgree, awaits, rd_hs
<1>4. micro_hs(ready) => slow_res = None /\ ~rd_hs
  BY IssueFacts
<1>5. ASSUME micro_hs(ready), op.flg \/ op.dest = "FL" PROVE ~Moving(alu_res, "FL") /\ "FL" \in Writes(op)
  <2>1. OpOK(micro.k, op, prev_of(micro.k, micro.n), micro.cnt) /\ micro.v
    BY <1>5, OpHere, IssueFacts DEF Types
  <2>2. "FL" \in Writes(op) /\ "FL" \in Waits(micro.k)
    BY <1>5, <2>1 DEF OpOK, Writes, Regs
  <2>3. Early("FL") = 0
    BY <2>1, <2>2, WaitsAtIssue
  <2> QED
    BY <2>2, <2>3, EarlyIs
<1> QED
  BY <1>1, <1>2, <1>3, <1>4, <1>5

(* The data register that registers share gets the only result there is.   *)
LEMMA SharedResult ==
    ASSUME Types, UnitsAgree
    PROVE  /\ res_valid => shared_result = alu_res[1].tag
           /\ ~res_valid /\ slow_res # None => shared_result = slow_res[1].tag /\ results = {"slow"}
           /\ ~res_valid /\ slow_res = None /\ rd_hs => shared_result = Head(lsu_rd) /\ results = {"lsu"}
<1>1. \A x : Cardinality({x}) = 1
  BY FS_Singleton
<1>2. slow_res # None => ~rd_hs /\ ~res_valid
  BY DEF UnitsAgree, awaits, rd_hs, res_valid
<1>3. CASE res_valid
  <2>1. CASE rd_hs
    <3>1. results = {"alu", "lsu"}
      BY <1>2, <1>3, <2>1 DEF results
    <3>2. Cardinality({"alu", "lsu"}) # 1
      <4>1. IsFiniteSet({"alu"}) /\ Cardinality({"alu"}) = 1 /\ "lsu" \notin {"alu"}
        BY FS_Singleton
      <4>2. Cardinality({"alu"} \cup {"lsu"}) = 2
        BY <4>1, FS_AddElement
      <4>3. {"alu"} \cup {"lsu"} = {"alu", "lsu"}
        OBVIOUS
      <4> QED
        BY <4>2, <4>3
    <3> QED
      BY <1>3, <3>1, <3>2 DEF shared_result, value
  <2>2. CASE ~rd_hs
    <3>1. results = {"alu"}
      BY <1>2, <1>3, <2>2 DEF results
    <3>2. (CHOOSE u \in {"alu"} : TRUE) = "alu"
      OBVIOUS
    <3> QED
      BY <1>1, <1>3, <3>1, <3>2 DEF shared_result, value
  <2> QED
    BY <1>3, <2>1, <2>2
<1>4. ASSUME ~res_valid, slow_res # None PROVE shared_result = slow_res[1].tag /\ results = {"slow"}
  <2>1. results = {"slow"}
    BY <1>2, <1>4 DEF results
  <2>2. (CHOOSE u \in {"slow"} : TRUE) = "slow"
    OBVIOUS
  <2> QED
    BY <1>1, <2>1, <2>2 DEF shared_result, value
<1>5. ASSUME ~res_valid, slow_res = None, rd_hs PROVE shared_result = Head(lsu_rd) /\ results = {"lsu"}
  <2>1. results = {"lsu"}
    BY <1>5 DEF results
  <2>2. (CHOOSE u \in {"lsu"} : TRUE) = "lsu"
    OBVIOUS
  <2> QED
    BY <1>1, <2>1, <2>2 DEF shared_result, value
<1> QED
  BY <1>2, <1>3, <1>4, <1>5

(* What a register gets on the next edge: the result that reaches it now.     *)
cmd(ready, r) == micro_hs(ready) /\ op.flg /\ r = "FL"

LEMMA WriteFacts ==
    ASSUME Types, UnitsAgree, WordIsAlone, WaitsOver,
           NEW ready \in BOOLEAN, NEW answers \in BOOLEAN, NEW offers \in BOOLEAN,
           Clock(ready, answers, offers), NEW r \in Regs
    PROVE  /\ ~(Moving(alu_res, r) \/ Result(slow_res, r) \/ (rd_hs /\ FromMem(r)) \/ cmd(ready, r)) => wr'[r] = None
           /\ Moving(alu_res, r) => wr'[r] = alu_res[1].tag
           /\ Result(slow_res, r) => wr'[r] = slow_res[1].tag
           /\ rd_hs /\ FromMem(r) => wr'[r] = Head(lsu_rd)
           /\ cmd(ready, r) => wr'[r] = own("cmd")
<1>0. WriteBack(micro_hs(ready))
  BY DEF Clock
<1>1. /\ Moving(alu_res, r) => slow_res = None /\ ~(rd_hs /\ FromMem(r))
      /\ slow_res # None => ~rd_hs /\ ~micro_hs(ready) /\ alu_res = None
      /\ rd_hs => ~micro_hs(ready)
      /\ micro_hs(ready) /\ (op.flg \/ op.dest = "FL") => ~Moving(alu_res, "FL")
  BY OneWriter
<1>2. rd_hs => awaits /\ lsu_rd # None
  BY DEF rd_hs, awaits, rd_valid, None
<1>3. /\ "alu" \in results <=> alu_res # None
      /\ "slow" \in results <=> slow_res # None
      /\ "lsu" \in results <=> rd_hs
  BY DEF results, res_valid
<1>4. /\ alu_res # None => alu_res[1].fl \in BOOLEAN /\ alu_res[1].wb # "FL"
      /\ slow_res # None => slow_res[1].wb \subseteq {"AX"}
  BY DEF Types, UnitTypes, One, AluReq, SlowRes, Regs
<1>5. CASE r # "FL"
  <2>1. wr'[r] = write_of(r)
    BY <1>0, <1>5 DEF WriteBack
  <2>2. /\ "alu" \in writers(r) <=> Moving(alu_res, r)
        /\ "slow" \in writers(r) <=> Result(slow_res, r)
        /\ "lsu" \in writers(r) <=> rd_hs /\ FromMem(r)
        /\ writers(r) \subseteq {"alu", "slow", "lsu"}
    BY <1>2, <1>3, <1>5 DEF writers, Moving, Result, FromMem, results, res_valid
  <2>3. CASE writers(r) = {}
    BY <1>5, <2>1, <2>2, <2>3 DEF write_of, cmd
  <2>4. CASE writers(r) # {} /\ r \in {"AX", "CX"}
    BY <1>1, <1>5, <2>1, <2>2, <2>4 DEF write_of, value, cmd, Result
  <2>5. CASE writers(r) # {} /\ r \notin {"AX", "CX"}
    <3>1. wr'[r] = shared_result
      BY <2>1, <2>5 DEF write_of
    <3>2. rd_hs /\ FromMem(r) => alu_res = None
      BY <1>2, <1>5 DEF WordIsAlone, Careful, FromMem, Regs, None
    <3> QED
      BY <1>1, <1>5, <2>2, <2>5, <3>1, <3>2, SharedResult DEF cmd, res_valid, Moving, Result
  <2> QED
    BY <2>3, <2>4, <2>5
<1>6. CASE r = "FL"
  <2>1. wr'[r] = IF flags_pulse(micro_hs(ready)) THEN flags_value(micro_hs(ready)) ELSE None
    BY <1>0, <1>6 DEF WriteBack, Regs
  <2>2. /\ flags_users # {} <=> Moving(alu_res, "FL") \/ slow_res # None
        /\ "lsu" \in writers("FL") <=> rd_hs /\ FromMem("FL")
        /\ Result(slow_res, "FL") <=> slow_res # None
    BY <1>2, <1>3, <1>4 DEF flags_users, writers, Moving, FromMem, Result
  <2>3. flags_pulse(micro_hs(ready)) <=>
           Moving(alu_res, r) \/ Result(slow_res, r) \/ (rd_hs /\ FromMem(r)) \/ cmd(ready, r)
    BY <1>6, <2>2 DEF flags_pulse, cmd
  <2>4. flags_src' = IF micro_hs(ready) /\ op.flg THEN "cmd"
                     ELSE IF micro_hs(ready) /\ op.dest = "FL" THEN "mem"
                     ELSE IF flags_users # {} THEN "user" ELSE flags_src
    BY <1>0 DEF WriteBack
  <2>5. CASE cmd(ready, r)
    BY <1>1, <1>6, <2>1, <2>3, <2>4, <2>5 DEF cmd, flags_value, FromMem, Result
  <2>6. CASE Moving(alu_res, r)
    <3>1. flags_src' = "user"
      BY <1>1, <1>6, <2>2, <2>4, <2>6
    <3>2. results # {"lsu"}
      BY <1>3, <2>6 DEF Moving
    <3>3. flags_value(micro_hs(ready)) = shared_result
      BY <3>1, <3>2 DEF flags_value
    <3>4. shared_result = alu_res[1].tag
      BY <2>6, SharedResult DEF Moving, res_valid
    <3> QED
      BY <1>1, <1>6, <2>1, <2>3, <2>6, <3>3, <3>4 DEF cmd, Result
  <2>7. CASE Result(slow_res, r)
    <3>1. flags_src' = "user"
      BY <1>1, <1>6, <2>2, <2>4, <2>7
    <3>2. results # {"lsu"}
      BY <1>3, <2>7 DEF Result
    <3>3. flags_value(micro_hs(ready)) = shared_result
      BY <3>1, <3>2 DEF flags_value
    <3>4. shared_result = slow_res[1].tag
      BY <1>1, <2>7, SharedResult DEF Result, res_valid
    <3> QED
      BY <1>1, <1>6, <2>1, <2>3, <2>7, <3>3, <3>4 DEF cmd, Result, Moving
  <2>8. CASE rd_hs /\ FromMem(r)
    <3>1. flags_src = "mem" /\ Early("FL") = 1
      BY <1>6, <2>8 DEF WaitsOver, Regs
    <3>2. ~Moving(alu_res, r) /\ slow_res = None /\ ~micro_hs(ready)
      BY <1>1, <2>8
    <3>3. flags_src' = "mem"
      BY <1>6, <2>2, <2>4, <3>1, <3>2
    <3>4. flags_value(micro_hs(ready)) = Head(lsu_rd)
      BY <2>8, <3>3 DEF flags_value
    <3> QED
      BY <2>1, <2>3, <2>8, <3>2, <3>4 DEF cmd, Result
  <2> QED
    BY <1>6, <2>1, <2>3, <2>5, <2>6, <2>7, <2>8
<1> QED
  BY <1>5, <1>6

LEMMA RealTags ==
    /\ \A t \in RealTag : t # None
    /\ RealTag \subseteq Tag
    /\ FrontTypes => \A u \in {"alu", "slow", "cmd", "mem", "imm"} : own(u) \in RealTag
    /\ FrontTypes => <<done, "mem", micro.n - 1>> \in RealTag
<1>1. \A t \in RealTag : t # None
  BY DEF RealTag, None
<1>2. RealTag \subseteq Tag
  BY DEF RealTag, Tag
<1>3. FrontTypes => done \in 0 .. MaxInstr /\ micro.n \in 0 .. 5 /\ micro.n - 1 \in 0 .. 5
  BY ExecuteAssumption DEF FrontTypes, Bit
<1> QED
  BY <1>1, <1>2, <1>3 DEF RealTag, own

(* A micro-operation that writes r leaves.                                 *)
Issued(ready, r) == micro_hs(ready) /\ r \in Writes(op)

(* A register is written when a result reaches it.                         *)
LEMMA WrittenIs ==
    ASSUME Types, UnitsAgree, WordIsAlone, WaitsOver,
           NEW ready \in BOOLEAN, NEW answers \in BOOLEAN, NEW offers \in BOOLEAN,
           Clock(ready, answers, offers), NEW r \in Regs
    PROVE  /\ wr'[r] # None <=> Moving(alu_res, r) \/ Result(slow_res, r) \/ (rd_hs /\ FromMem(r)) \/ cmd(ready, r)
           /\ wr'[r] \in Tag
<1>1. Moving(alu_res, r) => alu_res[1].tag \in RealTag
  BY DEF Moving, Types, UnitTypes, One, AluReq
<1>2. Result(slow_res, r) => slow_res[1].tag \in RealTag
  BY DEF Result, Types, UnitTypes, One, SlowRes
<1>3. rd_hs => Head(lsu_rd) \in RealTag
  BY DEF rd_hs, rd_valid, Types, MemTypes
<1>4. own("cmd") \in RealTag
  BY RealTags DEF Types
<1>5. None \in Tag
  BY DEF Tag
<1> QED
  BY <1>1, <1>2, <1>3, <1>4, <1>5, RealTags, WriteFacts

(* A write under way stays so until it has reached the register.           *)
LEMMA UnitsFlow ==
    ASSUME Types, UnitsAgree, WordIsAlone, WaitsOver,
           NEW ready \in BOOLEAN, NEW answers \in BOOLEAN, NEW offers \in BOOLEAN,
           Clock(ready, answers, offers), NEW r \in Regs
    PROVE  Early(r)' + Bit(wr[r] # None) = Early(r) + Bit(Issued(ready, r))
<1>1. wr'[r] # None <=> Moving(alu_res, r) \/ Result(slow_res, r) \/ (rd_hs /\ FromMem(r)) \/ cmd(ready, r)
  BY WrittenIs
<1>2. /\ Moving(alu_res, r) => slow_res = None /\ ~(rd_hs /\ FromMem(r))
      /\ slow_res # None => ~rd_hs /\ ~micro_hs(ready) /\ alu_res = None
      /\ rd_hs => ~micro_hs(ready)
      /\ micro_hs(ready) /\ (op.flg \/ op.dest = "FL") => ~Moving(alu_res, "FL") /\ "FL" \in Writes(op)
  BY OneWriter
<1>3. rd_hs => awaits
  BY DEF rd_hs, awaits
<1>4. CASE micro_hs(ready)
  <2>1. /\ mexec_wait = {} /\ ~rd_hs
        /\ slow = NoSlow /\ slow_res = None /\ alu_wait = None
    BY <1>4, IssueFacts
  <2>2. /\ ~Moving(alu_wait, r) /\ ~InSlow(r) /\ ~FromMem(r) /\ ~Result(slow_res, r)
    BY <2>1 DEF Moving, InSlow, FromMem, Result, awaits, NoSlow
  <2>3. OpOK(micro.k, op, prev_of(micro.k, micro.n), micro.cnt)
    BY OpHere DEF Types
  <2>4. /\ alu_wait' = IF op.alu /\ op.mrd THEN <<alu_of>> ELSE None
        /\ alu_req' = IF op.alu /\ ~op.mrd THEN <<alu_of>> ELSE None
        /\ alu_res' = alu_req
        /\ slow' = IF op.slow # "no" THEN slow_of ELSE NoSlow
        /\ slow_res' = None
        /\ mexec_wait' = waits_for(op) \cup (IF op.jmp # "no" /\ slow_jump(op) THEN {"jmp"} ELSE {})
        /\ mem_dst' = [reg |-> op.dest,
                       want |-> IF op.mrd THEN <<done, "mem", word_of(micro.k, micro.n)>> ELSE None]
    BY <1>4, IssueUnits
  <2>5. Moving(alu_res, r)' <=> Moving(alu_req, r)
    BY <2>4 DEF Moving
  <2>6. ~Result(slow_res, r)'
    BY <2>4 DEF Result
  <2>7. awaits' <=> op.mrd
    BY <2>4 DEF awaits, waits_for
  <2>8. Moving(alu_wait, r)' <=> op.alu /\ op.mrd /\ (op.wb = r \/ (r = "FL" /\ op.fl))
    BY <2>4 DEF Moving, alu_of, None
  <2>9. Moving(alu_req, r)' <=> op.alu /\ ~op.mrd /\ (op.wb = r \/ (r = "FL" /\ op.fl))
    BY <2>4 DEF Moving, alu_of, None
  <2>10. InSlow(r)' <=> op.slow # "no" /\ r \in op.slow_wb \cup {"FL"}
    BY <2>4 DEF InSlow, slow_of, NoSlow
  <2>11. FromMem(r)' <=> op.mrd /\ op.dest = r
    BY <2>4, <2>7 DEF FromMem
  <2>12. Bit(Moving(alu_wait, r)') + Bit(Moving(alu_req, r)') + Bit(InSlow(r)') + Bit(FromMem(r)') + Bit(cmd(ready, r))
            = Bit(Issued(ready, r))
    BY <1>4, <2>3, <2>8, <2>9, <2>10, <2>11 DEF Bit, Issued, Writes, cmd, OpOK, Regs
  <2>13. ~(Moving(alu_res, r) /\ cmd(ready, r))
    BY <1>2 DEF cmd
  <2>14. Bit(wr'[r] # None) = Bit(Moving(alu_res, r)) + Bit(cmd(ready, r))
    BY <1>1, <2>1, <2>2, <2>13 DEF Bit
  <2> QED
    BY <2>2, <2>5, <2>6, <2>12, <2>14 DEF Early, Bit
<1>5. CASE ~micro_hs(ready)
  <2>1. ~cmd(ready, r) /\ ~Issued(ready, r)
    BY <1>5 DEF cmd, Issued
  <2>2. /\ alu_wait' = IF rd_hs THEN None ELSE alu_wait
        /\ alu_req' = IF rd_hs THEN alu_wait ELSE None
        /\ alu_res' = alu_req
        /\ mexec_wait' = {u \in mexec_wait : \/ u = "fifo" /\ ~rd_hs
                                             \/ u = "slow" /\ slow_res = None
                                             \/ u = "jmp" /\ ~jmp.v}
        /\ mem_dst' = mem_dst
    BY <1>5, WaitUnits
  <2>3. FromMem(r)' <=> FromMem(r) /\ ~rd_hs
    BY <2>2 DEF FromMem, awaits
  <2>4. /\ Moving(alu_res, r)' <=> Moving(alu_req, r)
        /\ Moving(alu_wait, r)' <=> Moving(alu_wait, r) /\ ~rd_hs
        /\ Moving(alu_req, r)' <=> Moving(alu_wait, r) /\ rd_hs
    BY <2>2 DEF Moving
  <2>5. Bit(InSlow(r)') + Bit(Result(slow_res, r)') = Bit(InSlow(r))
    <3>1. /\ slow.st = "fifo" => slow' = [slow EXCEPT !.st = IF rd_hs THEN "req" ELSE "fifo"] /\ slow_res' = None
          /\ slow.st = "idle" => slow' = NoSlow /\ slow_res' = None
          /\ slow.st = "req" => \/ \E n \in Nat \ {0} : slow' = [slow EXCEPT !.st = "run", !.cnt = n] /\ slow_res' = None
                                \/ slow' = NoSlow /\ slow_res' = <<[tag |-> slow.tag, wb |-> slow.wb]>>
          /\ slow.st = "run" => \/ slow.cnt # 1 /\ slow' = [slow EXCEPT !.cnt = @ - 1] /\ slow_res' = None
                                \/ slow' = NoSlow /\ slow_res' = <<[tag |-> slow.tag, wb |-> slow.wb]>>
      BY <1>5, WaitSlow
    <3>2. slow \in [st : {"idle", "fifo", "req", "run"}, unit : {"no", "shf", "mul", "bcd"}, cnt : Nat,
                    tag : Tag, wb : SUBSET {"AX"}]
      BY DEF Types, UnitTypes
    <3>3. CASE slow' = NoSlow /\ slow_res' = <<[tag |-> slow.tag, wb |-> slow.wb]>> /\ slow.st # "idle"
      BY <3>3 DEF InSlow, Result, Bit, NoSlow, None
    <3>4. CASE slow'.st # "idle" /\ slow'.wb = slow.wb /\ slow.st # "idle" /\ slow_res' = None
      BY <3>4 DEF InSlow, Result, Bit
    <3>5. CASE slow.st = "idle" /\ slow' = NoSlow /\ slow_res' = None
      BY <3>5 DEF InSlow, Result, Bit, NoSlow
    <3>6. CASE slow.st = "fifo"
      BY <3>1, <3>2, <3>4, <3>6
    <3>7. CASE slow.st = "req"
      BY <3>1, <3>2, <3>3, <3>4, <3>7
    <3>8. CASE slow.st = "run"
      BY <3>1, <3>2, <3>3, <3>4, <3>8
    <3> QED
      BY <3>1, <3>2, <3>5, <3>6, <3>7, <3>8
  <2>6. Bit(wr'[r] # None) = Bit(Moving(alu_res, r)) + Bit(Result(slow_res, r)) + Bit(rd_hs /\ FromMem(r))
    BY <1>1, <1>2, <2>1 DEF Bit, Result
  <2>7. Bit(FromMem(r)') + Bit(rd_hs /\ FromMem(r)) = Bit(FromMem(r))
    BY <2>3 DEF Bit
  <2>8. Bit(Moving(alu_wait, r)') + Bit(Moving(alu_req, r)') = Bit(Moving(alu_wait, r))
    BY <2>4 DEF Bit
  <2> QED
    BY <2>1, <2>4, <2>5, <2>6, <2>7, <2>8 DEF Early, Bit
<1> QED
  BY <1>4, <1>5

(* The register reader and the expansion.                                  *)
LEMMA FrontMoves ==
    ASSUME Types, NEW ready \in BOOLEAN, NEW answers \in BOOLEAN, NEW offers \in BOOLEAN,
           Clock(ready, answers, offers)
    PROVE  /\ rr_hs(ready) => rr.v /\ jmp_lock.v /\ (micro.v => micro_hs(ready) /\ micro.cnt = 0)
           /\ rr_hs(ready) => /\ micro' = [v |-> TRUE, k |-> rr.k, n |-> 1, pred |-> rr.pred,
                                           cnt |-> IF Fast(rr.k) THEN 0 ELSE Len(Ops(rr.k)) - 1,
                                           busy |-> CntNext(rr.k) # 0]
                              /\ done' = done + 1
                              /\ last' = [r \in Regs |-> IF r \in Locks(rr.k) THEN of(done + 1, Results[rr.k][r]) ELSE last[r]]
           /\ ~rr_hs(ready) => done' = done /\ last' = last
           /\ ~rr_hs(ready) /\ ~micro_hs(ready) => micro' = micro
           /\ ~rr_hs(ready) /\ micro_hs(ready) =>
                 IF micro.cnt = 0 THEN micro' = [micro EXCEPT !.v = FALSE, !.busy = TRUE]
                 ELSE micro' = [micro EXCEPT !.n = @ + 1, !.cnt = @ - 1, !.busy = micro.cnt # 1]
           /\ instr_hs(ready) => instr.v /\ hazards_resolved(instr.k) /\ (rr.v => rr_hs(ready))
                                 /\ rr' = instr /\ lock' = Locks(instr.k)
           /\ ~instr_hs(ready) => lock' = {} /\ rr' = IF rr_tready(ready) THEN NoInstr ELSE rr
           /\ micro_hs(ready) => micro.v
<1>1. Reader(ready) /\ Expand(ready)
  BY DEF Clock
<1>2. rr_hs(ready) => rr.v /\ jmp_lock.v /\ (micro.v => micro_hs(ready) /\ micro.cnt = 0)
  BY DEF rr_hs, rr_tready, micro_hs, Types, FrontTypes
<1>3. micro_hs(ready) => micro.v
  BY DEF micro_hs
<1>4. /\ instr_hs(ready) => instr.v /\ hazards_resolved(instr.k) /\ (rr.v => rr_hs(ready))
                            /\ rr' = instr /\ lock' = Locks(instr.k)
      /\ ~instr_hs(ready) => lock' = {} /\ rr' = IF rr_tready(ready) THEN NoInstr ELSE rr
  BY <1>1 DEF instr_hs, rr_hs, Reader
<1>5. /\ rr_hs(ready) => /\ micro' = [v |-> TRUE, k |-> rr.k, n |-> 1, pred |-> rr.pred,
                                      cnt |-> IF Fast(rr.k) THEN 0 ELSE Len(Ops(rr.k)) - 1,
                                      busy |-> CntNext(rr.k) # 0]
                         /\ done' = done + 1
                         /\ last' = [r \in Regs |-> IF r \in Locks(rr.k) THEN of(done + 1, Results[rr.k][r]) ELSE last[r]]
      /\ ~rr_hs(ready) => done' = done /\ last' = last
      /\ ~rr_hs(ready) /\ ~micro_hs(ready) => micro' = micro
      /\ ~rr_hs(ready) /\ micro_hs(ready) =>
            IF micro.cnt = 0 THEN micro' = [micro EXCEPT !.v = FALSE, !.busy = TRUE]
            ELSE micro' = [micro EXCEPT !.n = @ + 1, !.cnt = @ - 1, !.busy = micro.cnt # 1]
  BY <1>1 DEF Expand
<1> QED
  BY <1>2, <1>3, <1>4, <1>5

(* An instruction that locks r enters the expansion.                       *)
entering(ready, r) == rr_hs(ready) /\ r \in Locks(rr.k)

(* What is to be written by the micro-operations of the current instruction.  *)
LEMMA MicroFlow ==
    ASSUME Types, NEW ready \in BOOLEAN, NEW answers \in BOOLEAN, NEW offers \in BOOLEAN,
           Clock(ready, answers, offers), NEW r \in Regs
    PROVE  /\ Issued(ready, r) => InMicro(r)
           /\ InMicro(r)' <=> IF rr_hs(ready) THEN entering(ready, r) /\ ~Fast(rr.k)
                              ELSE InMicro(r) /\ ~Issued(ready, r)
           /\ rr_hs(ready) => (InMicro(r) <=> Issued(ready, r))
<1>1. /\ rr_hs(ready) => rr.v /\ jmp_lock.v /\ (micro.v => micro_hs(ready) /\ micro.cnt = 0)
      /\ rr_hs(ready) => micro' = [v |-> TRUE, k |-> rr.k, n |-> 1, pred |-> rr.pred,
                                   cnt |-> IF Fast(rr.k) THEN 0 ELSE Len(Ops(rr.k)) - 1,
                                   busy |-> CntNext(rr.k) # 0]
      /\ ~rr_hs(ready) /\ ~micro_hs(ready) => micro' = micro
      /\ ~rr_hs(ready) /\ micro_hs(ready) =>
            IF micro.cnt = 0 THEN micro' = [micro EXCEPT !.v = FALSE, !.busy = TRUE]
            ELSE micro' = [micro EXCEPT !.n = @ + 1, !.cnt = @ - 1, !.busy = micro.cnt # 1]
      /\ micro_hs(ready) => micro.v
  BY FrontMoves
<1>2. /\ micro.k \in AllKinds /\ micro.n \in 1 .. Len(Ops(micro.k)) /\ Len(Ops(micro.k)) \in 1 .. 5
      /\ micro.cnt = Len(Ops(micro.k)) - micro.n
      /\ micro \in [v : BOOLEAN, k : AllKinds, n : 1 .. 5, pred : BOOLEAN, cnt : 0 .. 4, busy : BOOLEAN]
  BY OpHere DEF Types, FrontTypes
<1>3. /\ r \in Ahead(micro.k, micro.n) <=> r \in Writes(op) \/ r \in Ahead(micro.k, micro.n + 1)
      /\ r \in Writes(op) => r \notin Ahead(micro.k, micro.n + 1)
      /\ micro.cnt = 0 => Ahead(micro.k, micro.n + 1) = {}
  <2>1. micro.cnt = 0 => micro.n = Len(Ops(micro.k))
    BY <1>2
  <2> QED
    BY <1>2, <2>1, AheadAndBehind DEF op
<1>4. rr.k \in AllKinds
  BY DEF Types, FrontTypes
<1>5. Issued(ready, r) => InMicro(r)
  BY <1>1, <1>3 DEF Issued, InMicro
<1>6. rr_hs(ready) => (InMicro(r) <=> Issued(ready, r))
  BY <1>1, <1>3 DEF Issued, InMicro
<1>7. CASE rr_hs(ready)
  <2>1. micro'.v /\ micro'.k = rr.k /\ micro'.n = 1
    BY <1>1, <1>7
  <2>2. InMicro(r)' <=> r \in Ahead(rr.k, 1)
    BY <2>1 DEF InMicro
  <2>3. /\ ~Fast(rr.k) => Locks(rr.k) = Ahead(rr.k, 1)
        /\ Fast(rr.k) => Ahead(rr.k, 1) = {}
    BY <1>4, LocksAreAhead
  <2> QED
    BY <1>5, <1>6, <1>7, <2>2, <2>3 DEF entering
<1>8. CASE ~rr_hs(ready) /\ ~micro_hs(ready)
  <2>1. InMicro(r)' <=> InMicro(r)
    BY <1>1, <1>8 DEF InMicro
  <2> QED
    BY <1>5, <1>6, <1>8, <2>1 DEF Issued
<1>9. CASE ~rr_hs(ready) /\ micro_hs(ready) /\ micro.cnt = 0
  <2>1. ~micro'.v
    BY <1>1, <1>2, <1>9
  <2> QED
    BY <1>1, <1>3, <1>5, <1>9, <2>1 DEF InMicro, Issued
<1>10. CASE ~rr_hs(ready) /\ micro_hs(ready) /\ micro.cnt # 0
  <2>1. micro'.v /\ micro'.k = micro.k /\ micro'.n = micro.n + 1
    BY <1>1, <1>2, <1>10
  <2> QED
    BY <1>1, <1>3, <1>5, <1>10, <2>1 DEF InMicro, Issued
<1> QED
  BY <1>7, <1>8, <1>9, <1>10

(* The lock counts. *)
LEMMA LockStep ==
    ASSUME Types, UnitsAgree, WordIsAlone, LocksCounted, WaitsOver,
           NEW ready \in BOOLEAN, NEW answers \in BOOLEAN, NEW offers \in BOOLEAN,
           Clock(ready, answers, offers)
    PROVE  LocksCounted' /\ reg' \in [Regs -> [v : BOOLEAN, hs : Nat, val : RealTag]]
<1>0. /\ rr_hs(ready) => rr.v /\ jmp_lock.v /\ (micro.v => micro_hs(ready) /\ micro.cnt = 0)
      /\ instr_hs(ready) => instr.v /\ hazards_resolved(instr.k) /\ (rr.v => rr_hs(ready))
                            /\ rr' = instr /\ lock' = Locks(instr.k)
      /\ ~instr_hs(ready) => lock' = {} /\ rr' = IF rr_tready(ready) THEN NoInstr ELSE rr
  BY FrontMoves
<1>1. lock' # {} => rr'.v /\ lock' = Locks(rr'.k)
  BY <1>0
<1>2. ASSUME NEW r \in Regs
      PROVE  /\ reg'[r].hs + Bit(r \in lock') = Early(r)' + Bit(InMicro(r)') + Bit(InReader(r)')
             /\ reg'[r].v <=> reg'[r].hs = 0
             /\ reg'[r] \in [v : BOOLEAN, hs : Nat, val : RealTag]
  <2> DEFINE w == reg_write(r, ready)
             fast == rr_hs(ready) /\ Fast(rr.k) /\ r \in Locks(rr.k)
  <2>1. reg'[r] = reg_next(reg[r], w, r \in lock)
    BY DEF Clock, Registers
  <2>2. reg[r] \in [v : BOOLEAN, hs : Nat, val : RealTag] /\ wr[r] \in Tag
    BY DEF Types, RegTypes
  <2>3. Early(r)' + Bit(wr[r] # None) = Early(r) + Bit(Issued(ready, r))
    BY UnitsFlow
  <2>4. /\ Issued(ready, r) => InMicro(r)
        /\ InMicro(r)' <=> IF rr_hs(ready) THEN entering(ready, r) /\ ~Fast(rr.k)
                           ELSE InMicro(r) /\ ~Issued(ready, r)
        /\ rr_hs(ready) => (InMicro(r) <=> Issued(ready, r))
    BY MicroFlow
  <2>5. /\ w # None <=> wr[r] # None \/ fast
        /\ w # None => w \in RealTag
    <3>1. fast => <<done + 1, "fast", 1>> \in RealTag
      <4>1. rr_hs(ready) => done + 1 \in 0 .. MaxInstr
        BY <1>0, ExecuteAssumption DEF Types, FrontTypes, Bit
      <4> QED
        BY <4>1 DEF RealTag
    <3>2. wr[r] # None => wr[r] \in RealTag
      BY <2>2 DEF Tag, RealTag
    <3> QED
      BY <3>1, <3>2, RealTags DEF reg_write, fast_writes
  <2>6. fast => wr[r] = None
    <3>1. fast => rr.v /\ r \in Waits(rr.k)
      BY <1>0, LocksAreAhead DEF Types, FrontTypes
    <3> QED
      BY <3>1, EarlyIs DEF WaitsOver
  <2>7. InReader(r)' <=> IF instr_hs(ready) THEN r \in lock' ELSE InReader(r) /\ ~entering(ready, r)
    <3>1. CASE instr_hs(ready)
      BY <1>0, <3>1 DEF InReader
    <3>2. CASE ~instr_hs(ready) /\ rr_tready(ready)
      BY <1>0, <3>2 DEF InReader, entering, rr_hs, NoInstr
    <3>3. CASE ~instr_hs(ready) /\ ~rr_tready(ready)
      BY <1>0, <3>3 DEF InReader, entering, rr_hs
    <3> QED
      BY <3>1, <3>2, <3>3
  <2>8. /\ entering(ready, r) => InReader(r)
        /\ instr_hs(ready) => (InReader(r) <=> entering(ready, r))
        /\ ~instr_hs(ready) => r \notin lock'
    BY <1>0 DEF InReader, entering
  <2>9. Bit(InReader(r)') + Bit(entering(ready, r)) = Bit(InReader(r)) + Bit(r \in lock')
    BY <2>7, <2>8 DEF Bit
  <2>10. Bit(InMicro(r)') + Bit(Issued(ready, r)) + Bit(fast) = Bit(InMicro(r)) + Bit(entering(ready, r))
    BY <2>4 DEF Bit, entering
  <2>11. Bit(w # None) = Bit(wr[r] # None) + Bit(fast)
    BY <2>5, <2>6 DEF Bit
  <2>12. /\ reg[r].hs + Bit(r \in lock) = Early(r) + Bit(InMicro(r)) + Bit(InReader(r))
         /\ reg[r].v <=> reg[r].hs = 0
    BY DEF LocksCounted
  <2>13. w # None => Early(r) + Bit(InReader(r)) >= 1
    <3>1. wr[r] # None => Early(r) # 0
      BY EarlyIs
    <3>2. fast => InReader(r)
      BY <2>8 DEF entering
    <3> QED
      BY <2>5, <3>1, <3>2, EarlyIs DEF Bit
  <2> HIDE DEF w, fast
  <2>14. Early(r) \in Nat /\ Early(r)' \in Nat
    <3>1. Early(r)' \in Nat
      BY DEF Early, Bit
    <3> QED
      BY <3>1, EarlyIs
  <2>15. /\ reg'[r].hs + Bit(w # None) = reg[r].hs + Bit(r \in lock)
         /\ reg'[r].v <=> reg'[r].hs = 0
         /\ reg'[r] \in [v : BOOLEAN, hs : Nat, val : RealTag]
    <3>0. reg[r].hs \in Nat /\ (w # None => reg[r].hs + Bit(r \in lock) >= 1)
      BY <2>2, <2>12, <2>13, <2>14 DEF Bit
    <3>1. CASE w # None /\ r \in lock
      BY <2>1, <2>2, <2>5, <2>12, <3>0, <3>1 DEF reg_next, Bit
    <3>2. CASE w # None /\ r \notin lock
      BY <2>1, <2>2, <2>5, <2>12, <3>0, <3>2 DEF reg_next, Bit
    <3>3. CASE w = None /\ r \in lock
      BY <2>1, <2>2, <2>5, <2>12, <3>0, <3>3 DEF reg_next, Bit
    <3>4. CASE w = None /\ r \notin lock
      BY <2>1, <2>2, <2>5, <2>12, <3>0, <3>4 DEF reg_next, Bit
    <3> QED
      BY <3>1, <3>2, <3>3, <3>4
  <2>16. reg'[r].hs \in Nat /\ reg[r].hs \in Nat
    BY <2>2, <2>15
  <2>17. reg'[r].hs + Bit(r \in lock') = Early(r)' + Bit(InMicro(r)') + Bit(InReader(r)')
    BY <2>3, <2>9, <2>10, <2>11, <2>12, <2>14, <2>15, <2>16 DEF Bit
  <2> QED
    BY <2>15, <2>17
<1>3. reg' \in [Regs -> [v : BOOLEAN, hs : Nat, val : RealTag]]
  <2>1. reg' = [r \in Regs |-> reg_next(reg[r], reg_write(r, ready), r \in lock)]
    BY DEF Clock, Registers
  <2>2. DOMAIN reg' = Regs /\ reg' = [r \in Regs |-> reg'[r]]
    BY <2>1
  <2> QED
    BY <1>2, <2>2
<1> QED
  BY <1>1, <1>2, <1>3 DEF LocksCounted

LEMMA WaitsAreRegs == \A k \in AllKinds : Waits(k) \subseteq Regs
  BY DEF Waits, WaitsTable, waits, mod_reg_rm, mod_aux_rm, opcode_waits, Regs

(* What an instruction has waited for stays settled until it writes it     *)
(* itself.                                                                 *)
LEMMA WaitsStep ==
    ASSUME Types, UnitsAgree, WordIsAlone, LocksCounted, WaitsOver,
           NEW ready \in BOOLEAN, NEW answers \in BOOLEAN, NEW offers \in BOOLEAN,
           Clock(ready, answers, offers)
    PROVE  WaitsOver'
<1>0. /\ rr_hs(ready) => rr.v /\ jmp_lock.v /\ (micro.v => micro_hs(ready) /\ micro.cnt = 0)
      /\ rr_hs(ready) => micro' = [v |-> TRUE, k |-> rr.k, n |-> 1, pred |-> rr.pred,
                                   cnt |-> IF Fast(rr.k) THEN 0 ELSE Len(Ops(rr.k)) - 1,
                                   busy |-> CntNext(rr.k) # 0]
      /\ ~rr_hs(ready) /\ ~micro_hs(ready) => micro' = micro
      /\ ~rr_hs(ready) /\ micro_hs(ready) =>
            IF micro.cnt = 0 THEN micro' = [micro EXCEPT !.v = FALSE, !.busy = TRUE]
            ELSE micro' = [micro EXCEPT !.n = @ + 1, !.cnt = @ - 1, !.busy = micro.cnt # 1]
      /\ micro_hs(ready) => micro.v
      /\ instr_hs(ready) => instr.v /\ hazards_resolved(instr.k) /\ (rr.v => rr_hs(ready))
                            /\ rr' = instr /\ lock' = Locks(instr.k)
      /\ ~instr_hs(ready) => lock' = {} /\ rr' = IF rr_tready(ready) THEN NoInstr ELSE rr
  BY FrontMoves
<1>1. /\ instr.k \in AllKinds /\ rr.k \in AllKinds /\ micro.k \in AllKinds /\ micro.n \in 1 .. Len(Ops(micro.k))
      /\ micro \in [v : BOOLEAN, k : AllKinds, n : 1 .. 5, pred : BOOLEAN, cnt : 0 .. 4, busy : BOOLEAN]
  BY OpHere DEF Types, FrontTypes
<1>2. ASSUME NEW r \in Regs
      PROVE  /\ Early(r)' + Bit(wr[r] # None) = Early(r) + Bit(Issued(ready, r))
             /\ Issued(ready, r) => InMicro(r)
             /\ InMicro(r)' <=> IF rr_hs(ready) THEN entering(ready, r) /\ ~Fast(rr.k)
                                ELSE InMicro(r) /\ ~Issued(ready, r)
             /\ Early(r) \in Nat /\ Early(r)' \in Nat
             /\ Early(r) = 0 => wr[r] = None
  <2>1. Early(r)' \in Nat
    BY DEF Early, Bit
  <2> QED
    BY <2>1, UnitsFlow, MicroFlow, EarlyIs
<1>3. ASSUME NEW r \in Regs, Early(r) = 0, ~Issued(ready, r) PROVE Early(r)' = 0
  BY <1>2, <1>3 DEF Bit
<1>4. ASSUME rr'.v, NEW r \in Waits(rr'.k) PROVE Early(r)' = 0 /\ ~InMicro(r)'
  <2>1. CASE instr_hs(ready)
    <3>1. r \in Regs /\ reg[r].v /\ r \notin lock
      BY <1>0, <1>1, <1>4, <2>1, WaitsAreRegs DEF hazards_resolved
    <3>2. Early(r) = 0 /\ ~InMicro(r) /\ ~InReader(r)
      <4>1. reg[r].hs = 0 /\ reg[r].hs + Bit(r \in lock) = Early(r) + Bit(InMicro(r)) + Bit(InReader(r))
        BY <3>1 DEF LocksCounted
      <4> QED
        BY <1>2, <3>1, <4>1 DEF Bit
    <3>3. ~entering(ready, r)
      BY <1>0, <3>2 DEF entering, InReader
    <3> QED
      BY <1>2, <1>3, <3>1, <3>2, <3>3
  <2>2. CASE ~instr_hs(ready)
    <3>1. rr' = rr /\ ~rr_hs(ready)
      BY <1>0, <1>4, <2>2 DEF rr_hs, NoInstr
    <3>2. r \in Regs /\ Early(r) = 0 /\ ~InMicro(r)
      BY <1>1, <1>4, <3>1, WaitsAreRegs DEF WaitsOver
    <3> QED
      BY <1>2, <1>3, <3>1, <3>2
  <2> QED
    BY <2>1, <2>2
<1>5. ASSUME micro'.v, NEW r \in Waits(micro'.k) \ Behind(micro'.k, micro'.n) PROVE Early(r)' = 0
  <2>1. CASE rr_hs(ready)
    <3>1. r \in Waits(rr.k) /\ rr.v
      BY <1>0, <1>5, <2>1
    <3>2. r \in Regs /\ Early(r) = 0 /\ ~InMicro(r)
      BY <1>1, <3>1, WaitsAreRegs DEF WaitsOver
    <3> QED
      BY <1>2, <1>3, <3>2
  <2>2. CASE ~rr_hs(ready) /\ ~micro_hs(ready)
    <3>1. micro' = micro
      BY <1>0, <2>2
    <3>2. r \in Regs /\ Early(r) = 0 /\ ~Issued(ready, r)
      BY <1>1, <1>5, <2>2, <3>1, WaitsAreRegs DEF WaitsOver, Issued
    <3> QED
      BY <1>3, <3>2
  <2>3. CASE ~rr_hs(ready) /\ micro_hs(ready)
    <3>1. micro.cnt # 0 /\ micro.v /\ micro'.k = micro.k /\ micro'.n = micro.n + 1
      BY <1>0, <1>1, <1>5, <2>3
    <3>2. r \in Regs /\ r \notin Writes(op) /\ r \notin Behind(micro.k, micro.n) /\ r \in Waits(micro.k)
      BY <1>1, <1>5, <3>1, WaitsAreRegs, AheadAndBehind DEF op
    <3>3. Early(r) = 0 /\ ~Issued(ready, r)
      BY <3>1, <3>2 DEF WaitsOver, Issued
    <3> QED
      BY <1>3, <3>2, <3>3
  <2> QED
    BY <2>1, <2>2, <2>3
<1>6. CASE micro_hs(ready)
  <2>1. /\ mexec_wait' = waits_for(op) \cup (IF op.jmp # "no" /\ slow_jump(op) THEN {"jmp"} ELSE {})
        /\ mem_dst' = [reg |-> op.dest,
                       want |-> IF op.mrd THEN <<done, "mem", word_of(micro.k, micro.n)>> ELSE None]
    BY <1>6, IssueUnits
  <2>2. OpOK(micro.k, op, prev_of(micro.k, micro.n), micro.cnt) /\ micro.v
    BY <1>0, <1>6, OpHere DEF Types
  <2>3. ASSUME NEW r \in Regs, FromMem(r)' PROVE Early(r)' = 1 /\ op.dest = r
    <3>1. op.dest = r /\ op.mrd
      BY <2>1, <2>3 DEF FromMem, awaits, waits_for
    <3>2. r \in Writes(op) /\ r \in Waits(micro.k)
      BY <2>2, <3>1 DEF OpOK, Writes, Regs
    <3>3. Early(r) = 0
      BY <2>2, <3>2, WaitsAtIssue
    <3> QED
      BY <1>2, <1>6, <3>1, <3>2, <3>3 DEF Issued, Bit
  <2>4. ASSUME FromMem("FL")' PROVE flags_src' = "mem"
    <3>1. op.dest = "FL" /\ ~op.flg
      BY <2>2, <2>3, <2>4 DEF Regs, OpOK
    <3>2. WriteBack(micro_hs(ready))
      BY DEF Clock
    <3> QED
      BY <1>6, <3>1, <3>2 DEF WriteBack
  <2> QED
    BY <1>4, <1>5, <2>3, <2>4 DEF WaitsOver
<1>7. CASE ~micro_hs(ready)
  <2>1. /\ mexec_wait' = {u \in mexec_wait : \/ u = "fifo" /\ ~rd_hs
                                             \/ u = "slow" /\ slow_res = None
                                             \/ u = "jmp" /\ ~jmp.v}
        /\ mem_dst' = mem_dst
    BY <1>7, WaitUnits
  <2>2. \A r \in Regs : FromMem(r)' => FromMem(r)
    BY <2>1 DEF FromMem, awaits
  <2>3. ASSUME NEW r \in Regs, FromMem(r)' PROVE Early(r)' = 1
    <3>1. FromMem(r) /\ Early(r) = 1
      BY <2>2, <2>3 DEF WaitsOver
    <3>2. wr[r] = None /\ ~Issued(ready, r)
      BY <1>7, <3>1, EarlyIs DEF Issued
    <3> QED
      BY <1>2, <3>1, <3>2 DEF Bit
  <2>4. ASSUME FromMem("FL")' PROVE flags_src' = "mem"
    <3>1. FromMem("FL") /\ Early("FL") = 1 /\ flags_src = "mem"
      BY <2>2, <2>4 DEF WaitsOver, Regs
    <3>2. ~Moving(alu_res, "FL") /\ slow_res = None
      BY <3>1, EarlyIs DEF UnitsAgree, FromMem
    <3>3. flags_users = {}
      BY <3>2 DEF flags_users, results, Moving, res_valid
    <3>4. WriteBack(micro_hs(ready))
      BY DEF Clock
    <3> QED
      BY <1>7, <3>1, <3>3, <3>4 DEF WriteBack
  <2> QED
    BY <1>4, <1>5, <2>3, <2>4 DEF WaitsOver
<1> QED
  BY <1>6, <1>7

-----------------------------------------------------------------------------
(***************************************************************************)
(* Values.                                                                 *)
(***************************************************************************)
(* The word that arrives is the one awaited.                               *)
LEMMA HeadIsWanted ==
    ASSUME Types, WordsInOrder, rd_hs
    PROVE  Head(lsu_rd) = mem_dst.want
<1>1. lsu_rd \in Seq(RealTag) /\ lsu_rd # <<>> /\ awaits /\ mem_reads \in Seq([tag : RealTag, old : BOOLEAN])
  BY DEF Types, MemTypes, rd_hs, rd_valid, awaits
<1>2. Len(lsu_rd) >= 1 /\ Len(mem_reads) \in Nat /\ Len(lsu_rd) \in Nat
  BY <1>1
<1>3. Bit(Reading) \in Nat
  BY DEF Bit
<1>4. 1 \in 1 .. way
  BY <1>2, <1>3 DEF way
<1>5. word(1) = awaited(1)
  BY <1>4 DEF WordsInOrder
<1> QED
  BY <1>1, <1>2, <1>5 DEF word, awaited

(* The latest value of a register keeps its place in the order of the      *)
(* writes on an edge without a micro-operation, and on one with.           *)
LEMMA FlyingWaits ==
    ASSUME Types, UnitsAgree, WordsInOrder, WordIsAlone, WaitsOver,
           NEW ready \in BOOLEAN, NEW answers \in BOOLEAN, NEW offers \in BOOLEAN,
           Clock(ready, answers, offers), ~micro_hs(ready), NEW r \in Regs,
           reg'[r].val = IF wr[r] # None THEN wr[r] ELSE reg[r].val
    PROVE  Flying(r)' = Flying(r)
<1>1. /\ alu_wait' = IF rd_hs THEN None ELSE alu_wait
      /\ alu_req' = IF rd_hs THEN alu_wait ELSE None
      /\ alu_res' = alu_req
      /\ mexec_wait' = {u \in mexec_wait : \/ u = "fifo" /\ ~rd_hs
                                           \/ u = "slow" /\ slow_res = None
                                           \/ u = "jmp" /\ ~jmp.v}
      /\ mem_dst' = mem_dst
  BY WaitUnits
<1>2. /\ slow.st = "fifo" => slow' = [slow EXCEPT !.st = IF rd_hs THEN "req" ELSE "fifo"] /\ slow_res' = None
      /\ slow.st = "idle" => slow' = NoSlow /\ slow_res' = None
      /\ slow.st = "req" => \/ \E n \in Nat \ {0} : slow' = [slow EXCEPT !.st = "run", !.cnt = n] /\ slow_res' = None
                            \/ slow' = NoSlow /\ slow_res' = <<[tag |-> slow.tag, wb |-> slow.wb]>>
      /\ slow.st = "run" => \/ slow.cnt # 1 /\ slow' = [slow EXCEPT !.cnt = @ - 1] /\ slow_res' = None
                            \/ slow' = NoSlow /\ slow_res' = <<[tag |-> slow.tag, wb |-> slow.wb]>>
  BY WaitSlow
<1>3. slow \in [st : {"idle", "fifo", "req", "run"}, unit : {"no", "shf", "mul", "bcd"}, cnt : Nat,
                tag : Tag, wb : SUBSET {"AX"}]
  BY DEF Types, UnitTypes
<1>4. /\ \/ slow'.st # "idle" /\ slow'.wb = slow.wb /\ slow'.tag = slow.tag /\ slow.st # "idle" /\ slow_res' = None
         \/ slow.st # "idle" /\ slow' = NoSlow /\ slow_res' = <<[tag |-> slow.tag, wb |-> slow.wb]>>
            /\ slow.st \in {"req", "run"}
         \/ slow.st = "idle" /\ slow' = NoSlow /\ slow_res' = None
  <2>1. CASE slow.st = "fifo"
    BY <1>2, <1>3, <2>1
  <2>2. CASE slow.st = "idle"
    BY <1>2, <1>3, <2>2
  <2>3. CASE slow.st = "req"
    BY <1>2, <1>3, <2>3
  <2>4. CASE slow.st = "run"
    BY <1>2, <1>3, <2>4
  <2> QED
    BY <1>3, <2>1, <2>2, <2>3, <2>4
<1>5. /\ Moving(alu_res, r)' <=> Moving(alu_req, r)
      /\ Moving(alu_wait, r)' <=> Moving(alu_wait, r) /\ ~rd_hs
      /\ Moving(alu_req, r)' <=> Moving(alu_wait, r) /\ rd_hs
      /\ FromMem(r)' <=> FromMem(r) /\ ~rd_hs
  BY <1>1 DEF Moving, FromMem, awaits
<1>6. /\ ~(Moving(alu_res, r) \/ Result(slow_res, r) \/ (rd_hs /\ FromMem(r))) => wr'[r] = None
      /\ Moving(alu_res, r) => wr'[r] = alu_res[1].tag /\ wr'[r] # None
      /\ Result(slow_res, r) => wr'[r] = slow_res[1].tag /\ wr'[r] # None
      /\ rd_hs /\ FromMem(r) => wr'[r] = mem_dst.want /\ wr'[r] # None
  BY HeadIsWanted, WriteFacts, WrittenIs DEF cmd
<1>7. /\ slow.st # "idle" => slow_res = None /\ alu_wait = None /\ alu_req = None
      /\ slow.st \in {"req", "run"} \/ slow_res # None => ~awaits
      /\ alu_wait # None => awaits /\ mem_dst.reg = "no" /\ alu_req = None
      /\ slow_res # None => alu_res = None /\ alu_req = None /\ alu_wait = None
      /\ rd_hs => awaits
  BY DEF UnitsAgree, rd_hs, awaits
<1>8. FromMem(r) => /\ wr[r] = None /\ ~Moving(alu_res, r) /\ ~Moving(alu_req, r) /\ ~Result(slow_res, r)
                    /\ ~Moving(alu_wait, r) /\ ~InSlow(r)
  BY EarlyIs DEF WaitsOver
<1>9. CASE Moving(alu_wait, r)
  <2>1. alu_wait # None /\ slow.st = "idle" /\ slow_res' = None /\ slow'.st = "idle"
    BY <1>4, <1>7, <1>9 DEF Moving, NoSlow
  <2>2. Flying(r) = alu_wait[1].tag
    BY <1>9 DEF Flying
  <2>3. CASE rd_hs
    BY <1>1, <1>5, <1>9, <2>1, <2>2, <2>3 DEF Flying, InSlow
  <2>4. CASE ~rd_hs
    BY <1>1, <1>5, <1>9, <2>2, <2>4 DEF Flying
  <2> QED
    BY <2>3, <2>4
<1>10. CASE ~Moving(alu_wait, r) /\ InSlow(r)
  <2>1. Flying(r) = slow.tag /\ slow.st # "idle" /\ alu_wait = None /\ alu_req = None
    BY <1>7, <1>10 DEF Flying, InSlow
  <2>2. CASE slow'.st # "idle" /\ slow'.wb = slow.wb /\ slow'.tag = slow.tag
    BY <1>5, <1>10, <2>1, <2>2 DEF Flying, InSlow
  <2>3. CASE slow' = NoSlow /\ slow_res' = <<[tag |-> slow.tag, wb |-> slow.wb]>> /\ slow.st \in {"req", "run"}
    <3>1. Result(slow_res, r)' /\ slow_res'[1].tag = slow.tag /\ ~InSlow(r)'
      BY <1>10, <2>3 DEF Result, InSlow, None, NoSlow
    <3>2. ~FromMem(r)'
      BY <1>5, <1>7, <2>3 DEF FromMem
    <3> QED
      BY <1>5, <1>10, <2>1, <3>1, <3>2 DEF Flying
  <2> QED
    BY <1>4, <2>1, <2>2, <2>3
<1>11. CASE ~Moving(alu_wait, r) /\ ~InSlow(r)
  <2>1. ~InSlow(r)' /\ ~Result(slow_res, r)'
    BY <1>4, <1>11 DEF InSlow, Result, NoSlow, None
  <2>2. CASE FromMem(r) /\ ~rd_hs
    BY <1>1, <1>5, <1>11, <2>1, <2>2 DEF Flying
  <2>3. CASE FromMem(r) /\ rd_hs
    <3>1. Flying(r) = mem_dst.want
      BY <1>11, <2>3 DEF Flying
    <3>2. /\ ~Moving(alu_wait, r)' /\ ~FromMem(r)' /\ ~Moving(alu_req, r)' /\ ~Moving(alu_res, r)'
      BY <1>5, <1>8, <2>3
    <3>3. Flying(r)' = wr'[r]
      BY <1>6, <2>1, <2>3, <3>2 DEF Flying
    <3> QED
      BY <1>6, <2>3, <3>1, <3>3
  <2>4. CASE ~FromMem(r)
    <3>1. ~Moving(alu_wait, r)' /\ ~FromMem(r)' /\ ~Moving(alu_req, r)'
      BY <1>5, <1>11, <2>4
    <3>2. CASE Moving(alu_req, r)
      BY <1>1, <1>5, <1>11, <2>1, <2>4, <3>1, <3>2 DEF Flying
    <3>3. CASE ~Moving(alu_req, r)
      <4>1. Flying(r)' = IF wr'[r] # None THEN wr'[r] ELSE reg'[r].val
        BY <1>5, <2>1, <3>1, <3>3 DEF Flying
      <4>2. Flying(r) = IF Result(slow_res, r) THEN slow_res[1].tag
                        ELSE IF Moving(alu_res, r) THEN alu_res[1].tag
                        ELSE IF wr[r] # None THEN wr[r] ELSE reg[r].val
        BY <1>11, <2>4, <3>3 DEF Flying
      <4>3. ~(Result(slow_res, r) /\ Moving(alu_res, r))
        BY <1>7 DEF Result, Moving
      <4> QED
        BY <1>6, <2>4, <4>1, <4>2, <4>3
    <3> QED
      BY <3>2, <3>3
  <2> QED
    BY <2>2, <2>3, <2>4
<1> QED
  BY <1>9, <1>10, <1>11

LEMMA FlyingIssues ==
    ASSUME Types, UnitsAgree, WordIsAlone, WaitsOver,
           NEW ready \in BOOLEAN, NEW answers \in BOOLEAN, NEW offers \in BOOLEAN,
           Clock(ready, answers, offers), micro_hs(ready), NEW r \in Regs
    PROVE  /\ r \in Writes(op) => Flying(r)' = of(done, Results[micro.k][r])
           /\ r \notin Writes(op) /\ reg'[r].val = (IF wr[r] # None THEN wr[r] ELSE reg[r].val)
                 => Flying(r)' = Flying(r)
<1>1. /\ mexec_wait = {} /\ ~rd_hs
      /\ slow = NoSlow /\ slow_res = None /\ alu_wait = None /\ micro.v
  BY IssueFacts
<1>2. /\ ~Moving(alu_wait, r) /\ ~InSlow(r) /\ ~FromMem(r) /\ ~Result(slow_res, r)
  BY <1>1 DEF Moving, InSlow, FromMem, Result, awaits, NoSlow
<1>3. /\ OpOK(micro.k, op, prev_of(micro.k, micro.n), micro.cnt)
      /\ micro.k \in AllKinds /\ micro.n \in 1 .. Len(Ops(micro.k))
  BY OpHere DEF Types
<1>4. /\ alu_wait' = IF op.alu /\ op.mrd THEN <<alu_of>> ELSE None
      /\ alu_req' = IF op.alu /\ ~op.mrd THEN <<alu_of>> ELSE None
      /\ alu_res' = alu_req
      /\ slow' = IF op.slow # "no" THEN slow_of ELSE NoSlow
      /\ slow_res' = None
      /\ mexec_wait' = waits_for(op) \cup (IF op.jmp # "no" /\ slow_jump(op) THEN {"jmp"} ELSE {})
      /\ mem_dst' = [reg |-> op.dest,
                     want |-> IF op.mrd THEN <<done, "mem", word_of(micro.k, micro.n)>> ELSE None]
  BY IssueUnits
<1>5. awaits' <=> op.mrd
  BY <1>4 DEF awaits, waits_for
<1>6. /\ Moving(alu_wait, r)' <=> op.alu /\ op.mrd /\ (op.wb = r \/ (r = "FL" /\ op.fl))
      /\ Moving(alu_req, r)' <=> op.alu /\ ~op.mrd /\ (op.wb = r \/ (r = "FL" /\ op.fl))
      /\ Moving(alu_res, r)' <=> Moving(alu_req, r)
      /\ InSlow(r)' <=> op.slow # "no" /\ r \in op.slow_wb \cup {"FL"}
      /\ FromMem(r)' <=> op.mrd /\ op.dest = r
      /\ ~Result(slow_res, r)'
  BY <1>4, <1>5 DEF Moving, alu_of, None, InSlow, slow_of, NoSlow, FromMem, Result
<1>7. /\ ~Moving(alu_res, r) /\ ~cmd(ready, r) => wr'[r] = None
      /\ Moving(alu_res, r) => wr'[r] = alu_res[1].tag /\ wr'[r] # None
      /\ cmd(ready, r) => wr'[r] = own("cmd") /\ wr'[r] # None
  BY <1>1, <1>2, WriteFacts, WrittenIs
<1>8. ASSUME r \in Writes(op) PROVE Flying(r)' = of(done, Results[micro.k][r])
  <2>1. ~Fast(micro.k)
    <3>1. Fast(micro.k) => Ahead(micro.k, micro.n) = {}
      BY <1>3, LocksAreAhead
    <3>2. r \in Ahead(micro.k, micro.n)
      BY <1>3, <1>8, AheadAndBehind DEF op
    <3> QED
      BY <3>1, <3>2
  <2>2. Results[micro.k][r] = result_of(op, micro.n, r)
    BY <1>3, <1>8, <2>1, ResultsAre DEF op
  <2>3. CASE op.alu
    <3>1. op.wb = r \/ (r = "FL" /\ op.fl)
      BY <1>3, <1>8, <2>3 DEF Writes, OpOK, Regs
    <3>2. ~InSlow(r)' /\ ~FromMem(r)'
      BY <1>3, <1>6, <2>3 DEF OpOK, Regs
    <3>3. Flying(r)' = own("alu")
      BY <1>4, <1>6, <2>3, <3>1, <3>2 DEF Flying, alu_of
    <3> QED
      BY <2>2, <2>3, <3>3 DEF result_of, of, own
  <2>4. CASE op.slow # "no"
    <3>1. ~op.alu /\ r \in op.slow_wb \cup {"FL"}
      BY <1>3, <1>8, <2>4 DEF Writes, OpOK, Regs
    <3>2. Flying(r)' = own("slow")
      BY <1>4, <1>6, <2>4, <3>1 DEF Flying, slow_of
    <3> QED
      BY <2>2, <2>4, <3>1, <3>2 DEF result_of, of, own
  <2>5. CASE ~op.alu /\ op.slow = "no" /\ op.flg
    <3>1. r = "FL" /\ cmd(ready, r) /\ r \in Waits(micro.k)
      BY <1>3, <1>8, <2>5 DEF Writes, OpOK, Regs, cmd
    <3>2. Early(r) = 0
      BY <1>1, <1>8, <3>1, WaitsAtIssue
    <3>3. ~Moving(alu_req, r)
      BY <3>2, EarlyIs
    <3>4. Flying(r)' = wr'[r]
      BY <1>3, <1>6, <1>7, <2>5, <3>1, <3>3 DEF Flying, OpOK, Regs
    <3> QED
      BY <1>7, <2>2, <2>5, <3>1, <3>4 DEF result_of, of, own
  <2>6. CASE ~op.alu /\ op.slow = "no" /\ ~op.flg
    <3>1. op.mrd /\ op.dest = r
      BY <1>3, <1>8, <2>6 DEF Writes
    <3>2. word_of(micro.k, micro.n) = micro.n - 1
      BY <1>3, <3>1, WordIsTheLastRead DEF op
    <3>3. Flying(r)' = <<done, "mem", micro.n - 1>>
      BY <1>4, <1>6, <2>6, <3>1, <3>2 DEF Flying
    <3> QED
      BY <2>2, <2>6, <3>3 DEF result_of, of
  <2> QED
    BY <1>3, <2>3, <2>4, <2>5, <2>6 DEF OpOK
<1>9. ASSUME r \notin Writes(op), reg'[r].val = (IF wr[r] # None THEN wr[r] ELSE reg[r].val)
      PROVE  Flying(r)' = Flying(r)
  <2>1. ~Moving(alu_wait, r)' /\ ~Moving(alu_req, r)' /\ ~InSlow(r)' /\ ~FromMem(r)' /\ ~cmd(ready, r)
    BY <1>6, <1>9 DEF Writes, cmd
  <2>2. Flying(r)' = IF Moving(alu_req, r) THEN alu_req[1].tag ELSE IF wr'[r] # None THEN wr'[r] ELSE reg'[r].val
    BY <1>4, <1>6, <2>1 DEF Flying
  <2>3. Flying(r) = IF Moving(alu_req, r) THEN alu_req[1].tag ELSE IF Moving(alu_res, r) THEN alu_res[1].tag
                    ELSE IF wr[r] # None THEN wr[r] ELSE reg[r].val
    BY <1>2 DEF Flying
  <2> QED
    BY <1>7, <1>9, <2>1, <2>2, <2>3
<1> QED
  BY <1>8, <1>9

(* Every edge keeps the value of each last writer under way to its         *)
(* register.                                                               *)
LEMMA ValuesStep ==
    ASSUME Types, UnitsAgree, WordsInOrder, WordIsAlone, LocksCounted, WaitsOver, Values,
           NEW ready \in BOOLEAN, NEW answers \in BOOLEAN, NEW offers \in BOOLEAN,
           Clock(ready, answers, offers)
    PROVE  Values' /\ last' \in [Regs -> RealTag]
<1>0. /\ rr_hs(ready) => rr.v /\ jmp_lock.v /\ (micro.v => micro_hs(ready) /\ micro.cnt = 0)
      /\ rr_hs(ready) => /\ micro' = [v |-> TRUE, k |-> rr.k, n |-> 1, pred |-> rr.pred,
                                      cnt |-> IF Fast(rr.k) THEN 0 ELSE Len(Ops(rr.k)) - 1,
                                      busy |-> CntNext(rr.k) # 0]
                         /\ done' = done + 1
                         /\ last' = [r \in Regs |-> IF r \in Locks(rr.k) THEN of(done + 1, Results[rr.k][r]) ELSE last[r]]
      /\ ~rr_hs(ready) => done' = done /\ last' = last
      /\ ~rr_hs(ready) /\ ~micro_hs(ready) => micro' = micro
      /\ ~rr_hs(ready) /\ micro_hs(ready) =>
            IF micro.cnt = 0 THEN micro' = [micro EXCEPT !.v = FALSE, !.busy = TRUE]
            ELSE micro' = [micro EXCEPT !.n = @ + 1, !.cnt = @ - 1, !.busy = micro.cnt # 1]
  BY FrontMoves
<1>1. /\ rr.k \in AllKinds /\ micro.k \in AllKinds /\ done \in Nat
      /\ micro \in [v : BOOLEAN, k : AllKinds, n : 1 .. 5, pred : BOOLEAN, cnt : 0 .. 4, busy : BOOLEAN]
      /\ last \in [Regs -> RealTag]
  BY DEF Types, FrontTypes, RegTypes
<1>2. ASSUME NEW r \in Regs PROVE last'[r] = Latest(r)'
  <2>1. /\ Early(r)' + Bit(wr[r] # None) = Early(r) + Bit(Issued(ready, r))
        /\ Issued(ready, r) => InMicro(r)
        /\ InMicro(r)' <=> IF rr_hs(ready) THEN entering(ready, r) /\ ~Fast(rr.k)
                           ELSE InMicro(r) /\ ~Issued(ready, r)
        /\ rr_hs(ready) => (InMicro(r) <=> Issued(ready, r))
    BY UnitsFlow, MicroFlow
  <2>2. last[r] = IF InMicro(r) THEN of(done, Results[micro.k][r]) ELSE Flying(r)
    BY DEF Values, Latest
  <2>3. Latest(r)' = IF InMicro(r)' THEN of(done', Results[micro'.k][r]) ELSE Flying(r)'
    BY DEF Latest
  <2>4. reg'[r].val = IF wr[r] # None THEN wr[r]
                      ELSE IF rr_hs(ready) /\ Fast(rr.k) /\ r \in Locks(rr.k) THEN <<done + 1, "fast", 1>>
                      ELSE reg[r].val
    <3>1. reg'[r] = reg_next(reg[r], reg_write(r, ready), r \in lock)
      BY DEF Clock, Registers
    <3>2. <<done + 1, "fast", 1>> # None
      BY DEF None
    <3> QED
      BY <3>1, <3>2 DEF reg_next, reg_write, fast_writes
  <2>5. CASE entering(ready, r) /\ Fast(rr.k)
    <3>1. last'[r] = <<done + 1, "fast", 1>>
      BY <1>0, <1>1, <2>5, FastResults DEF entering, of
    <3>2. Early(r) = 0 /\ ~InMicro(r)
      <4>1. rr.v /\ r \in Waits(rr.k)
        BY <1>0, <1>1, <2>5, LocksAreAhead DEF entering
      <4> QED
        BY <4>1 DEF WaitsOver
    <3>3. wr[r] = None /\ Early(r)' = 0
      <4>1. wr[r] = None
        BY <3>2, EarlyIs
      <4>2. Early(r)' \in Nat
        BY DEF Early, Bit
      <4> QED
        BY <2>1, <3>2, <4>1, <4>2 DEF Bit
    <3>4. Flying(r)' = reg'[r].val
      BY <3>3 DEF Early, Bit, Flying
    <3> QED
      BY <2>1, <2>3, <2>4, <2>5, <3>1, <3>3, <3>4 DEF entering
  <2>6. CASE entering(ready, r) /\ ~Fast(rr.k)
    BY <1>0, <2>1, <2>3, <2>6 DEF entering
  <2>7. CASE ~entering(ready, r)
    <3>1. last'[r] = last[r]
      BY <1>0, <1>1, <2>7 DEF entering
    <3>2. reg'[r].val = IF wr[r] # None THEN wr[r] ELSE reg[r].val
      BY <2>4, <2>7 DEF entering
    <3>3. CASE InMicro(r)'
      <4>1. ~rr_hs(ready) /\ InMicro(r)
        BY <2>1, <2>7, <3>3
      <4>2. done' = done /\ micro'.k = micro.k
        BY <1>0, <1>1, <4>1
      <4> QED
        BY <2>2, <2>3, <3>1, <3>3, <4>1, <4>2
    <3>4. CASE ~InMicro(r)'
      <4>1. InMicro(r) <=> Issued(ready, r)
        BY <2>1, <2>7, <3>4
      <4>2. CASE micro_hs(ready)
        <5>1. /\ r \in Writes(op) => Flying(r)' = of(done, Results[micro.k][r])
              /\ r \notin Writes(op) => Flying(r)' = Flying(r)
          BY <3>2, <4>2, FlyingIssues
        <5> QED
          BY <2>2, <2>3, <3>1, <3>4, <4>1, <4>2, <5>1 DEF Issued
      <4>3. CASE ~micro_hs(ready)
        <5>1. Flying(r)' = Flying(r)
          BY <3>2, <4>3, FlyingWaits
        <5> QED
          BY <2>2, <2>3, <3>1, <3>4, <4>1, <4>3, <5>1 DEF Issued
      <4> QED
        BY <4>2, <4>3
    <3> QED
      BY <3>3, <3>4
  <2> QED
    BY <2>5, <2>6, <2>7
<1>3. last' \in [Regs -> RealTag]
  <2>1. CASE ~rr_hs(ready)
    BY <1>0, <1>1, <2>1
  <2>2. CASE rr_hs(ready)
    <3>1. done + 1 \in 0 .. MaxInstr
      BY <1>0, <2>2, ExecuteAssumption DEF Types, FrontTypes, Bit
    <3>2. ASSUME NEW r \in Regs, r \in Locks(rr.k) PROVE of(done + 1, Results[rr.k][r]) \in RealTag
      <4>1. CASE Fast(rr.k)
        <5>1. Results[rr.k][r] = <<"fast", 1>>
          BY <1>1, <3>2, <4>1, FastResults
        <5> QED
          BY <3>1, <5>1 DEF of, RealTag
      <4>2. CASE ~Fast(rr.k)
        <5>1. Len(Ops(rr.k)) \in 1 .. 5
          BY <1>1, OpsShape
        <5>2. PICK n \in 1 .. Len(Ops(rr.k)) : r \in Writes(Ops(rr.k)[n])
          BY <1>1, <3>2, <4>2, LocksAreAhead DEF Ahead
        <5>3. Results[rr.k][r] = result_of(Ops(rr.k)[n], n, r)
          BY <1>1, <4>2, <5>2, ResultsAre
        <5>4. n \in 0 .. 5 /\ n - 1 \in 0 .. 5
          BY <5>1, <5>2
        <5> QED
          BY <3>1, <5>3, <5>4 DEF of, RealTag, result_of
      <4> QED
        BY <4>1, <4>2
    <3> QED
      BY <1>0, <1>1, <2>2, <3>2
  <2> QED
    BY <2>1, <2>2
<1> QED
  BY <1>2, <1>3 DEF Values

-----------------------------------------------------------------------------
(***************************************************************************)
(* Words of memory.                                                        *)
(***************************************************************************)
(* The next micro-operation in the register.                               *)
LEMMA NextOp ==
    ASSUME Types, NEW ready \in BOOLEAN, NEW answers \in BOOLEAN, NEW offers \in BOOLEAN,
           Clock(ready, answers, offers)
    PROVE  /\ rr_hs(ready) => /\ rr.v /\ micro'.v /\ micro'.k = rr.k /\ micro'.n = 1 /\ done' = done + 1
                              /\ micro'.pred = rr.pred
                              /\ (micro.v => micro_hs(ready) /\ micro.cnt = 0)
                              /\ OpOK(rr.k, op', NOP, micro'.cnt)
           /\ ~rr_hs(ready) => done' = done /\ micro'.k = micro.k /\ micro'.pred = micro.pred
           /\ ~rr_hs(ready) /\ ~micro_hs(ready) => micro' = micro /\ op' = op
           /\ ~rr_hs(ready) /\ micro_hs(ready) =>
                 IF micro.cnt = 0 THEN ~micro'.v
                 ELSE micro'.v /\ micro'.n = micro.n + 1 /\ OpOK(micro.k, op', op, micro'.cnt)
           /\ micro' \in [v : BOOLEAN, k : AllKinds, n : 1 .. 5, pred : BOOLEAN, cnt : 0 .. 4, busy : BOOLEAN]
           /\ micro'.n + micro'.cnt = Len(Ops(micro'.k))
           /\ ~micro'.v \/ ~micro'.busy => micro'.cnt = 0
<1>0. /\ rr_hs(ready) => rr.v /\ jmp_lock.v /\ (micro.v => micro_hs(ready) /\ micro.cnt = 0)
      /\ rr_hs(ready) => /\ micro' = [v |-> TRUE, k |-> rr.k, n |-> 1, pred |-> rr.pred,
                                      cnt |-> IF Fast(rr.k) THEN 0 ELSE Len(Ops(rr.k)) - 1,
                                      busy |-> CntNext(rr.k) # 0]
                         /\ done' = done + 1
      /\ ~rr_hs(ready) => done' = done /\ last' = last
      /\ ~rr_hs(ready) /\ ~micro_hs(ready) => micro' = micro
      /\ ~rr_hs(ready) /\ micro_hs(ready) =>
            IF micro.cnt = 0 THEN micro' = [micro EXCEPT !.v = FALSE, !.busy = TRUE]
            ELSE micro' = [micro EXCEPT !.n = @ + 1, !.cnt = @ - 1, !.busy = micro.cnt # 1]
  BY FrontMoves
<1>1. /\ rr.k \in AllKinds /\ micro.k \in AllKinds /\ rr.pred \in BOOLEAN
      /\ micro \in [v : BOOLEAN, k : AllKinds, n : 1 .. 5, pred : BOOLEAN, cnt : 0 .. 4, busy : BOOLEAN]
      /\ micro.n + micro.cnt = Len(Ops(micro.k))
      /\ ~micro.v \/ ~micro.busy => micro.cnt = 0
  BY DEF Types, FrontTypes
<1>2. CASE rr_hs(ready)
  <2>1. Len(Ops(rr.k)) \in 1 .. 5
    BY <1>1, OpsShape
  <2>2. \A n \in 1 .. Len(Ops(rr.k)) : OpOK(rr.k, Ops(rr.k)[n], prev_of(rr.k, n), Len(Ops(rr.k)) - n)
    BY <1>1, OpsShape
  <2>3. OpOK(rr.k, Ops(rr.k)[1], prev_of(rr.k, 1), Len(Ops(rr.k)) - 1)
    BY <2>1, <2>2
  <2>4. Fast(rr.k) => Ops(rr.k) = <<NOP>>
    BY <1>1, LocksAreAhead
  <2>4a. Fast(rr.k) => Len(Ops(rr.k)) = 1
    BY <2>4
  <2> DEFINE N == Len(Ops(rr.k))
  <2> HIDE DEF N
  <2>4b. N \in 1 .. 5 /\ (Fast(rr.k) => N = 1)
    BY <2>1, <2>4a DEF N
  <2>5a. N \in 1 .. 5 /\ (IF Fast(rr.k) THEN 0 ELSE N - 1) = N - 1
    BY <2>4b
  <2>6. micro' = [v |-> TRUE, k |-> rr.k, n |-> 1, pred |-> rr.pred, cnt |-> N - 1, busy |-> CntNext(rr.k) # 0]
    <3>1. micro' = [v |-> TRUE, k |-> rr.k, n |-> 1, pred |-> rr.pred,
                    cnt |-> IF Fast(rr.k) THEN 0 ELSE N - 1, busy |-> CntNext(rr.k) # 0]
      BY <1>0, <1>2 DEF N
    <3> QED
      BY <2>5a, <3>1
  <2>7. CntNext(rr.k) = 0 => N - 1 = 0
    <3>1. CntNext(rr.k) = (IF rr.k = "xchg" THEN 1 ELSE IF Fast(rr.k) THEN 0 ELSE N - 1)
      BY <1>1, LocksAreAhead DEF N
    <3> QED
      BY <2>4b, <3>1
  <2>8. op' = Ops(rr.k)[1] /\ prev_of(rr.k, 1) = NOP
    BY <2>6 DEF op, prev_of
  <2>9. OpOK(rr.k, op', NOP, micro'.cnt)
    <3>1. micro'.cnt = Len(Ops(rr.k)) - 1
      BY <2>6 DEF N
    <3> QED
      BY <2>3, <2>8, <3>1
  <2>10. /\ micro' \in [v : BOOLEAN, k : AllKinds, n : 1 .. 5, pred : BOOLEAN, cnt : 0 .. 4, busy : BOOLEAN]
         /\ micro'.n + micro'.cnt = N
         /\ ~micro'.v \/ ~micro'.busy => micro'.cnt = 0
    <3>1. N - 1 \in 0 .. 4 /\ 1 + (N - 1) = N /\ 1 \in 1 .. 5
      BY <2>4b
    <3>2. micro'.n = 1 /\ micro'.cnt = N - 1 /\ micro'.v /\ micro'.busy = (CntNext(rr.k) # 0)
      BY <2>6
    <3>3. micro' \in [v : BOOLEAN, k : AllKinds, n : 1 .. 5, pred : BOOLEAN, cnt : 0 .. 4, busy : BOOLEAN]
      BY <1>1, <2>6, <3>1
    <3> QED
      BY <2>7, <3>1, <3>2, <3>3
  <2>11. Len(Ops(micro'.k)) = N
    BY <2>6 DEF N
  <2> QED
    BY <1>0, <1>2, <2>6, <2>9, <2>10, <2>11
<1>3. CASE ~rr_hs(ready) /\ ~micro_hs(ready)
  BY <1>0, <1>1, <1>3 DEF op
<1>4. CASE ~rr_hs(ready) /\ micro_hs(ready) /\ micro.cnt = 0
  <2>1. micro' = [micro EXCEPT !.v = FALSE, !.busy = TRUE]
    BY <1>0, <1>4
  <2>2. micro'.k = micro.k /\ micro'.n = micro.n /\ micro'.cnt = micro.cnt /\ ~micro'.v /\ micro'.pred = micro.pred
    BY <1>1, <2>1
  <2>3. micro' \in [v : BOOLEAN, k : AllKinds, n : 1 .. 5, pred : BOOLEAN, cnt : 0 .. 4, busy : BOOLEAN]
    BY <1>1, <2>1
  <2> QED
    BY <1>0, <1>1, <1>4, <2>2, <2>3
<1>5. CASE ~rr_hs(ready) /\ micro_hs(ready) /\ micro.cnt # 0
  <2>1. micro' = [micro EXCEPT !.n = @ + 1, !.cnt = @ - 1, !.busy = micro.cnt # 1]
    BY <1>0, <1>5
  <2>2. /\ micro'.k = micro.k /\ micro'.n = micro.n + 1 /\ micro'.cnt = micro.cnt - 1 /\ micro'.v = micro.v
        /\ micro'.pred = micro.pred /\ micro'.busy = (micro.cnt # 1)
    BY <1>1, <2>1
  <2>3. micro.v
    BY <1>5 DEF micro_hs
  <2>4. micro.n \in 1 .. Len(Ops(micro.k)) /\ Len(Ops(micro.k)) \in 1 .. 5
    BY OpHere DEF Types
  <2> DEFINE N == Len(Ops(micro.k))
  <2>5. N \in 1 .. 5 /\ micro.n + micro.cnt = N
    BY <1>1, <2>4
  <2>6. \A n \in 1 .. N : OpOK(micro.k, Ops(micro.k)[n], prev_of(micro.k, n), N - n)
    BY <1>1, OpsShape
  <2>7. op' = Ops(micro.k)[micro.n + 1]
    BY <2>2 DEF op
  <2> HIDE DEF N
  <2>8. micro.n + 1 \in 1 .. N /\ N - (micro.n + 1) = micro.cnt - 1 /\ micro.n + 1 \in 1 .. 5 /\ micro.cnt - 1 \in 0 .. 4
    BY <1>1, <1>5, <2>5
  <2>9. prev_of(micro.k, micro.n + 1) = op
    BY <1>1 DEF prev_of, op
  <2>10. OpOK(micro.k, op', op, micro'.cnt)
    BY <2>2, <2>6, <2>7, <2>8, <2>9
  <2>11. micro' \in [v : BOOLEAN, k : AllKinds, n : 1 .. 5, pred : BOOLEAN, cnt : 0 .. 4, busy : BOOLEAN]
    BY <1>1, <2>1, <2>8
  <2>12. micro'.n + micro'.cnt = N /\ (~micro'.v \/ ~micro'.busy => micro'.cnt = 0)
    BY <1>1, <2>2, <2>3, <2>5
  <2>13. Len(Ops(micro'.k)) = N
    BY <2>2 DEF N
  <2> QED
    BY <1>0, <1>5, <2>2, <2>3, <2>10, <2>11, <2>12, <2>13
<1> QED
  BY <1>2, <1>3, <1>4, <1>5

(* A read is followed by the micro-operation that waits for its word.      *)
LEMMA ToReadNext ==
    ASSUME Types, NEW ready \in BOOLEAN, NEW answers \in BOOLEAN, NEW offers \in BOOLEAN,
           Clock(ready, answers, offers)
    PROVE  /\ ToRead' <=> IF micro_hs(ready) THEN op.mem = "read" ELSE ToRead
           /\ micro_hs(ready) /\ op.mem = "read" => done' = done /\ micro'.n = micro.n + 1
           /\ ~micro_hs(ready) /\ micro.v => done' = done /\ micro' = micro
           /\ (micro'.v /\ ~(micro_hs(ready) /\ ~rr_hs(ready)) /\ ~(~micro_hs(ready) /\ micro.v))
                => OpOK(micro'.k, op', NOP, micro'.cnt)
<1>1. OpOK(micro.k, op, prev_of(micro.k, micro.n), micro.cnt)
  BY OpHere DEF Types
<1>2. NOP.mem = "no"
  BY DEF NOP
<1>3. ~micro_hs(ready) /\ micro.v => ~rr_hs(ready)
  BY NextOp
<1>4. CASE rr_hs(ready)
  <2>1. /\ micro'.v /\ micro'.k = rr.k /\ (micro.v => micro_hs(ready) /\ micro.cnt = 0)
        /\ OpOK(rr.k, op', NOP, micro'.cnt)
    BY <1>4, NextOp
  <2>2. ~op'.mrd
    BY <1>2, <2>1 DEF OpOK
  <2>3. micro_hs(ready) => micro.v
    BY FrontMoves
  <2>4. micro_hs(ready) => op.mem # "read"
    BY <1>1, <2>1, <2>3 DEF OpOK
  <2> QED
    BY <1>3, <1>4, <2>1, <2>2, <2>3, <2>4 DEF ToRead
<1>5. CASE ~rr_hs(ready) /\ ~micro_hs(ready)
  BY <1>5, NextOp DEF ToRead
<1>6. CASE ~rr_hs(ready) /\ micro_hs(ready)
  BY <1>1, <1>6, NextOp DEF OpOK, ToRead
<1> QED
  BY <1>4, <1>5, <1>6

(* A read in the load-store unit; the i-th word that it owes or has        *)
(* fetched.                                                                *)
Read == [tag : RealTag, old : BOOLEAN]
held(i) == IF i <= Len(lsu_rd) THEN lsu_rd[i] ELSE mem_reads[i - Len(lsu_rd)].tag

(* An edge takes the oldest word, if one is consumed, and adds a read at   *)
(* the end.                                                                *)
LEMMA MemoryEdge ==
    ASSUME MemTypes, NEW ready \in BOOLEAN, NEW answers \in BOOLEAN, Memory(ready, answers)
    PROVE  LET acc == Reading /\ ready
               n   == Len(lsu_rd) + Len(mem_reads)
               n2  == Len(lsu_rd') + Len(mem_reads')
           IN  /\ lsu_rd' \in Seq(RealTag) /\ mem_reads' \in Seq(Read)
               /\ n \in Nat /\ n2 = n - Bit(rd_hs) + Bit(acc)
               /\ \A i \in 1 .. n2 :
                     held(i)' = IF i + Bit(rd_hs) <= n THEN held(i + Bit(rd_hs)) ELSE lsu_req.data
               /\ mem_reads = <<>> => lsu_rd' = (IF rd_hs THEN Tail(lsu_rd) ELSE lsu_rd)
                                      /\ (mem_reads' = <<>> \/ ~mem_reads'[1].old)
               /\ mem_reads # <<>> /\ ~mem_reads[1].old => lsu_rd' = (IF rd_hs THEN Tail(lsu_rd) ELSE lsu_rd)
               /\ mem_reads = <<>> /\ ~acc => mem_reads' = <<>>
<1> DEFINE accb == Reading /\ ready
           acc == IF accb THEN <<[tag |-> lsu_req.data, old |-> FALSE]>> ELSE <<>>
           aged == [i \in 1 .. Len(mem_reads) |-> [mem_reads[i] EXCEPT !.old = TRUE]]
           rest == IF rd_hs THEN Tail(lsu_rd) ELSE lsu_rd
           h == Bit(rd_hs)
           a == Bit(accb)
           L == Len(lsu_rd)
           M == Len(mem_reads)
<1>1. /\ lsu_rd \in Seq(RealTag) /\ mem_reads \in Seq(Read)
      /\ Reading => lsu_req.data \in RealTag
      /\ rd_hs => lsu_rd # <<>>
  BY DEF MemTypes, Read, Reading, rd_hs, rd_valid
<1>2. L \in Nat /\ M \in Nat /\ h \in {0, 1} /\ a \in {0, 1} /\ (rd_hs => L >= 1)
  BY <1>1 DEF Bit
<1>3. /\ rest \in Seq(RealTag) /\ Len(rest) = L - h /\ Len(rest) \in Nat
      /\ \A i \in 1 .. Len(rest) : rest[i] = lsu_rd[i + h]
  BY <1>1, <1>2 DEF Bit
<1>4. /\ aged \in Seq(Read) /\ Len(aged) = M
      /\ \A i \in 1 .. M : aged[i].tag = mem_reads[i].tag
  <2>1. \A i \in 1 .. M : mem_reads[i] \in Read
    BY <1>1, <1>2
  <2>1a. \A x \in Read : [x EXCEPT !.old = TRUE] \in Read /\ [x EXCEPT !.old = TRUE].tag = x.tag
    BY DEF Read
  <2> DEFINE older(x) == [x EXCEPT !.old = TRUE]
  <2>2. \A i \in 1 .. M : older(mem_reads[i]) \in Read /\ older(mem_reads[i]).tag = mem_reads[i].tag
    BY <2>1, <2>1a
  <2>3. aged = [i \in 1 .. M |-> older(mem_reads[i])]
    OBVIOUS
  <2> HIDE DEF older, aged, M
  <2>4. aged \in [1 .. M -> Read] /\ \A i \in 1 .. M : aged[i].tag = mem_reads[i].tag
    BY <2>2, <2>3
  <2>5. M \in Nat
    BY <1>2
  <2> QED
    BY <2>4, <2>5
<1>5. /\ acc \in Seq(Read) /\ Len(acc) = a
      /\ accb => acc[1].tag = lsu_req.data /\ ~acc[1].old
  <2>1. CASE accb
    <3>1. [tag |-> lsu_req.data, old |-> FALSE] \in Read
      BY <1>1, <2>1 DEF Read
    <3> QED
      BY <2>1, <3>1 DEF Bit
  <2>2. CASE ~accb
    BY <2>2 DEF Bit
  <2> QED
    BY <2>1, <2>2
<1>6. /\ answers /\ mem_reads # <<>> /\ mem_reads[1].old =>
            mem_reads' = Tail(aged) \o acc /\ lsu_rd' = Append(rest, mem_reads[1].tag)
      /\ ~(answers /\ mem_reads # <<>> /\ mem_reads[1].old) => mem_reads' = aged \o acc /\ lsu_rd' = rest
  BY DEF Memory, Reading
<1> HIDE DEF acc, aged, rest, h, a, L, M, accb
<1>7. CASE answers /\ mem_reads # <<>> /\ mem_reads[1].old
  <2> DEFINE t == Tail(aged)
  <2>1. M >= 1 /\ mem_reads[1].tag \in RealTag
    <3>1. M >= 1
      BY <1>1, <1>7, EmptySeq DEF M
    <3>2. mem_reads[1] \in Read
      BY <1>1, <1>2, <3>1, ElementOfSeq DEF M
    <3> QED
      BY <3>1, <3>2 DEF Read
  <2>2. t \in Seq(Read) /\ Len(t) = M - 1 /\ \A i \in 1 .. M - 1 : t[i] = aged[i + 1]
    BY <1>2, <1>4, <2>1
  <2> HIDE DEF t
  <2>3. /\ mem_reads' \in Seq(Read) /\ Len(mem_reads') = M - 1 + a
        /\ \A i \in 1 .. M - 1 + a : mem_reads'[i] = IF i <= M - 1 THEN t[i] ELSE acc[i - (M - 1)]
    <3>1. mem_reads' = t \o acc
      BY <1>6, <1>7 DEF t
    <3> QED
      BY <1>2, <1>5, <2>1, <2>2, <3>1, ConcatProperties
  <2>4. /\ lsu_rd' \in Seq(RealTag) /\ Len(lsu_rd') = L - h + 1
        /\ \A i \in 1 .. L - h : lsu_rd'[i] = lsu_rd[i + h]
        /\ lsu_rd'[L - h + 1] = mem_reads[1].tag
    <3>1. lsu_rd' = Append(rest, mem_reads[1].tag)
      BY <1>6, <1>7
    <3>2. /\ lsu_rd' \in Seq(RealTag) /\ Len(lsu_rd') = Len(rest) + 1
          /\ \A i \in 1 .. Len(rest) : lsu_rd'[i] = rest[i]
          /\ lsu_rd'[Len(rest) + 1] = mem_reads[1].tag
      BY <1>3, <2>1, <3>1, AppendProperties
    <3> QED
      BY <1>3, <3>2
  <2>5. ASSUME NEW i \in 1 .. L + M - h + a
        PROVE  held(i)' = IF i + h <= L + M THEN held(i + h) ELSE lsu_req.data
    <3>1. CASE i <= L - h
      BY <1>2, <2>4, <3>1 DEF held, L
    <3>2. CASE i = L - h + 1
      <4>1. held(i)' = mem_reads[1].tag
        BY <1>2, <2>4, <3>2 DEF held
      <4>2. held(i + h) = mem_reads[1].tag
        <5>1. i + h = L + 1 /\ ~(L + 1 <= L) /\ (L + 1) - L = 1
          BY <1>2, <3>2
        <5> QED
          BY <5>1 DEF held, L
      <4> QED
        BY <1>2, <2>1, <3>2, <4>1, <4>2
    <3>3. CASE i > L - h + 1
      <4> DEFINE j == i - (L - h + 1)
      <4>1. j \in 1 .. M - 1 + a /\ i + h - L = j + 1 /\ i + h > L
        BY <1>2, <2>1, <3>3
      <4>2. held(i)' = mem_reads'[j].tag
        BY <1>2, <2>4, <3>3 DEF held
      <4>3. held(i + h) = mem_reads[j + 1].tag
        BY <1>2, <4>1 DEF held, L
      <4>4. CASE j <= M - 1
        <5>1. mem_reads'[j] = aged[j + 1] /\ aged[j + 1].tag = mem_reads[j + 1].tag
          BY <1>2, <1>4, <2>1, <2>2, <2>3, <4>1, <4>4
        <5> QED
          BY <1>2, <4>1, <4>2, <4>3, <4>4, <5>1
      <4>5. CASE j > M - 1
        <5>1. a = 1 /\ j = M /\ j - (M - 1) = 1
          BY <1>2, <2>1, <4>1, <4>5
        <5>2. mem_reads'[j] = acc[1]
          BY <1>2, <2>1, <2>3, <4>1, <5>1
        <5>3. acc[1].tag = lsu_req.data
          BY <1>5, <5>1 DEF a, Bit
        <5> QED
          BY <1>2, <4>1, <4>2, <5>1, <5>2, <5>3
      <4> QED
        BY <1>2, <2>1, <4>1, <4>4, <4>5
    <3> QED
      BY <1>2, <3>1, <3>2, <3>3
  <2>6. Len(lsu_rd') + Len(mem_reads') = L + M - h + a
    BY <1>2, <2>1, <2>3, <2>4
  <2>7. mem_reads # <<>> /\ ~(mem_reads # <<>> /\ ~mem_reads[1].old)
    BY <1>7
  <2> QED
    BY <1>2, <2>3, <2>4, <2>5, <2>6, <2>7 DEF L, M, h, a, accb
<1>8. CASE ~(answers /\ mem_reads # <<>> /\ mem_reads[1].old)
  <2>1. /\ mem_reads' \in Seq(Read) /\ Len(mem_reads') = M + a
        /\ \A i \in 1 .. M + a : mem_reads'[i] = IF i <= M THEN aged[i] ELSE acc[i - M]
    <3>1. mem_reads' = aged \o acc
      BY <1>6, <1>8
    <3> QED
      BY <1>2, <1>4, <1>5, <3>1, ConcatProperties
  <2>2. lsu_rd' = rest
    BY <1>6, <1>8
  <2>3. ASSUME NEW i \in 1 .. L + M - h + a
        PROVE  held(i)' = IF i + h <= L + M THEN held(i + h) ELSE lsu_req.data
    <3>1. CASE i <= L - h
      BY <1>2, <1>3, <2>2, <3>1 DEF held, L
    <3>2. CASE i > L - h
      <4> DEFINE j == i - (L - h)
      <4>1. j \in 1 .. M + a /\ i + h - L = j /\ i + h > L
        BY <1>2, <3>2
      <4>2. held(i)' = mem_reads'[j].tag
        BY <1>2, <1>3, <2>2, <3>2 DEF held
      <4>3. held(i + h) = mem_reads[j].tag
        BY <1>2, <4>1 DEF held, L
      <4>4. CASE j <= M
        <5>1. mem_reads'[j] = aged[j] /\ aged[j].tag = mem_reads[j].tag
          BY <1>2, <1>4, <2>1, <4>1, <4>4
        <5> QED
          BY <1>2, <4>1, <4>2, <4>3, <4>4, <5>1
      <4>5. CASE j > M
        <5>1. a = 1 /\ j = M + 1 /\ j - M = 1
          BY <1>2, <4>1, <4>5
        <5>2. mem_reads'[j] = acc[1]
          BY <1>2, <2>1, <4>1, <5>1
        <5>3. acc[1].tag = lsu_req.data
          BY <1>5, <5>1 DEF a, Bit
        <5> QED
          BY <1>2, <4>1, <4>2, <5>1, <5>2, <5>3
      <4> QED
        BY <1>2, <4>1, <4>4, <4>5
    <3> QED
      BY <1>2, <3>1, <3>2
  <2>4. Len(lsu_rd') + Len(mem_reads') = L + M - h + a
    BY <1>2, <1>3, <2>1, <2>2
  <2>5. mem_reads = <<>> => mem_reads' = <<>> \/ ~mem_reads'[1].old
    <3>1. CASE mem_reads = <<>> /\ accb
      <4>1. M = 0 /\ a = 1
        BY <3>1 DEF M, a, Bit
      <4>2. mem_reads'[1] = acc[1]
        BY <2>1, <4>1
      <4> QED
        BY <1>5, <3>1, <4>2
    <3>2. CASE mem_reads = <<>> /\ ~accb
      <4>1. M = 0 /\ a = 0
        BY <3>2 DEF M, a, Bit
      <4> QED
        BY <2>1, <4>1, EmptySeq
    <3> QED
      BY <3>1, <3>2
  <2>6. mem_reads = <<>> /\ ~accb => mem_reads' = <<>>
    <3>1. mem_reads = <<>> /\ ~accb => M = 0 /\ a = 0
      BY DEF M, a, Bit
    <3> QED
      BY <2>1, <3>1, EmptySeq
  <2> QED
    BY <1>2, <1>3, <1>8, <2>1, <2>2, <2>3, <2>4, <2>5, <2>6 DEF L, M, h, a, accb, rest
<1> QED
  BY <1>7, <1>8

(* The request at the load-store unit.                                     *)
LEMMA ReadingNext ==
    ASSUME Types, UnitsAgree, NEW ready \in BOOLEAN, NEW answers \in BOOLEAN, NEW offers \in BOOLEAN,
           Clock(ready, answers, offers)
    PROVE  /\ micro_hs(ready) => /\ Reading => ready
                                 /\ Reading' <=> op.mem = "read"
                                 /\ op.mem = "read" => lsu_req'.data = <<done, "mem", micro.n>>
           /\ ~micro_hs(ready) => /\ Reading' <=> Reading /\ ~ready
                                  /\ Reading' => lsu_req'.data = lsu_req.data
<1>1. CASE micro_hs(ready)
  <2>1. /\ lsu_req'.v = (op.mem \in {"read", "imm"})
        /\ lsu_req'.cmd = (IF op.mem = "read" THEN "read" ELSE "write")
        /\ lsu_req'.data = own(IF op.mem = "read" THEN "mem" ELSE "imm")
    BY <1>1, IssueUnits
  <2>2. lsu_req.v => ready
    BY <1>1, IssueFacts
  <2> QED
    BY <1>1, <2>1, <2>2 DEF Reading, own
<1>2. CASE ~micro_hs(ready)
  <2>1. micro_hs(ready) = FALSE
    BY <1>2 DEF micro_hs, micro_tready
  <2>2. Request(FALSE, ready)
    BY <2>1 DEF Clock
  <2>3. lsu_req'.cmd = lsu_req.cmd
    BY <2>2 DEF Request
  <2>4. lsu_req.cmd = "read" => mem_wait = "no"
    BY DEF UnitsAgree
  <2>5. CASE mem_wait = "no"
    <3>1. lsu_req'.v = (lsu_req.v /\ ~ready) /\ lsu_req'.data = lsu_req.data
      BY <2>2, <2>5 DEF Request
    <3> QED
      BY <1>2, <2>3, <3>1 DEF Reading
  <2>6. CASE mem_wait # "no"
    BY <1>2, <2>3, <2>4, <2>6 DEF Reading
  <2> QED
    BY <2>5, <2>6
<1> QED
  BY <1>1, <1>2

(* Words come in the order they are awaited.                               *)
LEMMA WordsStep ==
    ASSUME Types, UnitsAgree, WordsInOrder, NEW ready \in BOOLEAN, NEW answers \in BOOLEAN, NEW offers \in BOOLEAN,
           Clock(ready, answers, offers)
    PROVE  WordsInOrder' /\ lsu_rd' \in Seq(RealTag) /\ mem_reads' \in Seq(Read)
<1> DEFINE n == Len(lsu_rd) + Len(mem_reads)
           n2 == Len(lsu_rd') + Len(mem_reads')
           h == Bit(rd_hs)
           a == Bit(Reading /\ ready)
<1>1. /\ lsu_rd' \in Seq(RealTag) /\ mem_reads' \in Seq(Read)
      /\ n \in Nat /\ n2 = n - h + a
      /\ \A i \in 1 .. n2 : held(i)' = IF i + h <= n THEN held(i + h) ELSE lsu_req.data
  <2>1. MemTypes /\ Memory(ready, answers)
    BY DEF Types, Clock
  <2> QED
    BY <2>1, MemoryEdge
<1>2. way = n + Bit(Reading) /\ way' = n2 + Bit(Reading')
  BY DEF way
<1>3. \A i \in Int : word(i) = IF i <= n THEN held(i) ELSE lsu_req.data
  <2>1. Len(lsu_rd) \in Nat /\ Len(mem_reads) \in Nat
    BY DEF Types, MemTypes
  <2> SUFFICES ASSUME NEW i \in Int PROVE word(i) = IF i <= n THEN held(i) ELSE lsu_req.data
    OBVIOUS
  <2>2. CASE i <= Len(lsu_rd)
    <3>1. i <= n
      <4>1. \A x, y, z \in Int : x <= y /\ z >= 0 => x <= y + z
        OBVIOUS
      <4> QED
        BY <2>1, <2>2, <4>1
    <3> QED
      BY <2>2, <3>1 DEF word, held
  <2>3. CASE ~(i <= Len(lsu_rd))
    BY <2>3 DEF word, held
  <2> QED
    BY <2>2, <2>3
<1>4. ASSUME NEW i \in 1 .. way' PROVE word(i)' = IF i <= n2 THEN held(i)' ELSE lsu_req'.data
  <2>1. Len(lsu_rd') \in Nat /\ Len(mem_reads') \in Nat
    BY <1>1
  <2>2. i \in Int
    <3>1. way' \in Int
      BY <1>1, <1>2, <2>1 DEF Bit
    <3> QED
      BY <3>1
  <2>3. CASE i <= Len(lsu_rd')
    <3>1. i <= n2
      <4>1. \A x, y, z \in Int : x <= y /\ z >= 0 => x <= y + z
        OBVIOUS
      <4> QED
        BY <2>1, <2>2, <2>3, <4>1
    <3> QED
      BY <2>3, <3>1 DEF word, held
  <2>4. CASE ~(i <= Len(lsu_rd'))
    BY <2>4 DEF word, held
  <2> QED
    BY <2>3, <2>4
<1>5. /\ way = Bit(awaits) + Bit(ToRead)
      /\ \A i \in 1 .. way : word(i) = awaited(i)
  BY DEF WordsInOrder
<1>6. /\ ToRead' <=> IF micro_hs(ready) THEN op.mem = "read" ELSE ToRead
      /\ micro_hs(ready) /\ op.mem = "read" => done' = done /\ micro'.n = micro.n + 1
      /\ ~micro_hs(ready) /\ micro.v => done' = done /\ micro' = micro
  BY ToReadNext
<1>7. rd_hs => awaits
  BY DEF rd_hs, awaits
<1>8. n2 \in Nat
  BY <1>1
<1> HIDE DEF n, n2
<1>9. CASE micro_hs(ready)
  <2>1. /\ micro.v /\ mexec_wait = {} /\ ~rd_hs
    BY <1>9, IssueFacts
  <2>2. /\ mexec_wait' = waits_for(op) \cup (IF op.jmp # "no" /\ slow_jump(op) THEN {"jmp"} ELSE {})
        /\ mem_dst' = [reg |-> op.dest,
                       want |-> IF op.mrd THEN <<done, "mem", word_of(micro.k, micro.n)>> ELSE None]
    BY <1>9, IssueUnits
  <2>3. (awaits' <=> op.mrd) /\ ~awaits /\ (ToRead <=> op.mrd)
    BY <2>1, <2>2 DEF awaits, waits_for, ToRead
  <2>4. /\ Reading => ready
        /\ Reading' <=> op.mem = "read"
        /\ op.mem = "read" => lsu_req'.data = <<done, "mem", micro.n>>
    BY <1>9, ReadingNext
  <2>5. op.mrd => mem_dst'.want = <<done, "mem", micro.n - 1>>
    <3>1. micro.k \in AllKinds /\ micro.n \in 1 .. Len(Ops(micro.k))
      BY OpHere DEF Types
    <3>2. op.mrd => word_of(micro.k, micro.n) = micro.n - 1
      BY <3>1, WordIsTheLastRead DEF op
    <3> QED
      BY <2>2, <3>2
  <2>6. h = 0 /\ a = Bit(Reading)
    BY <2>1, <2>4 DEF Bit
  <2>7. n2 = way /\ way = Bit(op.mrd) /\ way' = way + Bit(op.mem = "read")
    <3>1. n2 = n + Bit(Reading)
      BY <1>1, <2>6 DEF Bit, n, n2
    <3> QED
      BY <1>2, <1>5, <2>3, <2>4, <3>1 DEF Bit
  <2>8. way' = Bit(awaits') + Bit(ToRead')
    BY <1>6, <1>9, <2>3, <2>7 DEF Bit
  <2>9. ASSUME NEW i \in 1 .. way' PROVE word(i)' = awaited(i)'
    <3>1. CASE i <= n2
      <4>1. i = 1 /\ op.mrd /\ 1 \in 1 .. way
        BY <2>7, <3>1 DEF Bit
      <4>2. word(1)' = held(1)' /\ held(1)' = word(1)
        <5>1. 1 \in 1 .. n2 /\ 1 + h = 1
          BY <2>6, <2>7, <4>1 DEF Bit
        <5>2. held(1)' = IF 1 <= n THEN held(1) ELSE lsu_req.data
          <6>1. held(1)' = IF 1 + h <= n THEN held(1 + h) ELSE lsu_req.data
            BY <1>1, <5>1 DEF n, n2
          <6> QED
            BY <5>1, <6>1
        <5> QED
          BY <1>3, <1>4, <3>1, <4>1, <5>2
      <4>3. word(1) = <<done, "mem", micro.n - 1>>
        BY <1>5, <2>3, <4>1 DEF awaited
      <4>4. awaited(1)' = mem_dst'.want
        BY <2>3, <4>1 DEF awaited
      <4> QED
        BY <2>5, <4>1, <4>2, <4>3, <4>4
    <3>2. CASE ~(i <= n2)
      <4>1. op.mem = "read" /\ i = way + 1
        BY <1>8, <2>7, <3>2 DEF Bit
      <4>2. word(i)' = <<done, "mem", micro.n>>
        BY <1>4, <2>4, <3>2, <4>1
      <4>3. ~(awaits' /\ i = 1)
        BY <2>3, <2>7, <4>1 DEF Bit
      <4>4. micro.n \in Int
        BY DEF Types, FrontTypes
      <4>5. awaited(i)' = <<done, "mem", micro.n>>
        BY <1>6, <1>9, <4>1, <4>3, <4>4 DEF awaited
      <4> QED
        BY <4>2, <4>5
    <3> QED
      BY <3>1, <3>2
  <2> QED
    BY <1>1, <2>8, <2>9 DEF WordsInOrder
<1>10. CASE ~micro_hs(ready)
  <2>1. /\ mexec_wait' = {u \in mexec_wait : \/ u = "fifo" /\ ~rd_hs
                                             \/ u = "slow" /\ slow_res = None
                                             \/ u = "jmp" /\ ~jmp.v}
        /\ mem_dst' = mem_dst
    BY <1>10, WaitUnits
  <2>2. awaits' <=> awaits /\ ~rd_hs
    BY <2>1 DEF awaits
  <2>3. /\ Reading' <=> Reading /\ ~ready
        /\ Reading' => lsu_req'.data = lsu_req.data
    BY <1>10, ReadingNext
  <2>4. ToRead' <=> ToRead
    BY <1>6, <1>10
  <2>5. h \in {0, 1} /\ Bit(awaits') = Bit(awaits) - h /\ Bit(ToRead') = Bit(ToRead)
    BY <1>7, <2>2, <2>4 DEF Bit
  <2>6. n \in Nat /\ n2 = n - h + a
    BY <1>1 DEF n, n2
  <2>7. way' = way - h
    BY <1>2, <2>3, <2>5, <2>6 DEF Bit
  <2>8. way' = Bit(awaits') + Bit(ToRead')
    BY <1>5, <2>5, <2>7 DEF Bit
  <2>9. way \in Nat /\ way' \in Nat
    BY <1>5, <2>8 DEF Bit
  <2>10. ASSUME NEW i \in 1 .. way' PROVE word(i)' = awaited(i)'
    <3>1. i + h \in 1 .. way /\ i \in Nat
      BY <2>5, <2>7, <2>9
    <3>2. word(i)' = word(i + h)
      <4>1. word(i + h) = IF i + h <= n THEN held(i + h) ELSE lsu_req.data
        <5>1. i + h \in Int
          BY <2>5, <3>1
        <5> QED
          BY <1>3, <5>1
      <4>2. CASE i <= n2
        <5>1. held(i)' = IF i + h <= n THEN held(i + h) ELSE lsu_req.data
          BY <1>1, <3>1, <4>2, <2>10 DEF n, n2
        <5> QED
          BY <1>4, <4>1, <4>2, <5>1
      <4>3. CASE ~(i <= n2)
        <5>1. Reading' /\ ~ready
          BY <1>2, <1>8, <2>3, <2>9, <4>3 DEF Bit
        <5>2. ~(i + h <= n)
          BY <1>8, <2>5, <2>6, <3>1, <4>3, <5>1 DEF Bit
        <5> QED
          BY <1>4, <2>3, <4>1, <4>3, <5>1, <5>2
      <4> QED
        BY <4>2, <4>3
    <3>3. word(i + h) = awaited(i + h)
      BY <1>5, <3>1
    <3>4. awaited(i + h) = awaited(i)'
      <4>1. CASE awaits' /\ i = 1
        BY <2>1, <2>2, <4>1 DEF awaited, Bit
      <4>2. CASE ~(awaits' /\ i = 1)
        <5>1. ToRead
          BY <2>4, <2>8, <4>2, <2>10 DEF Bit
        <5>2. done' = done /\ micro' = micro
          BY <1>6, <1>10, <5>1 DEF ToRead
        <5>3. ~(awaits /\ i + h = 1)
          BY <1>7, <2>2, <3>1, <4>2 DEF Bit
        <5> QED
          BY <4>2, <5>2, <5>3 DEF awaited
      <4> QED
        BY <4>1, <4>2
    <3> QED
      BY <3>2, <3>3, <3>4
  <2> QED
    BY <1>1, <2>8, <2>10 DEF WordsInOrder
<1> QED
  BY <1>9, <1>10

(* A word that is to share a register with the ALU's results meets none.   *)
LEMMA AloneStep ==
    ASSUME Types, UnitsAgree, WordsInOrder, WordIsAlone,
           NEW ready \in BOOLEAN, NEW answers \in BOOLEAN, NEW offers \in BOOLEAN,
           Clock(ready, answers, offers)
    PROVE  WordIsAlone'
<1> DEFINE C == (micro.v /\ careful(op)) \/ Careful
<1>1. OpOK(micro.k, op, prev_of(micro.k, micro.n), micro.cnt)
  BY OpHere DEF Types
<1>2. rr_hs(ready) => ~op'.mrd /\ ~careful(op')
  <2>1. rr_hs(ready) => OpOK(rr.k, op', NOP, micro'.cnt)
    BY NextOp
  <2>2. NOP.mem = "no"
    BY DEF NOP
  <2> QED
    BY <2>1, <2>2 DEF OpOK, careful
<1>3. /\ mem_reads = <<>> => lsu_rd' = (IF rd_hs THEN Tail(lsu_rd) ELSE lsu_rd)
                             /\ (mem_reads' = <<>> \/ ~mem_reads'[1].old)
      /\ mem_reads = <<>> /\ ~(Reading /\ ready) => mem_reads' = <<>>
  <2>1. MemTypes /\ Memory(ready, answers)
    BY DEF Types, Clock
  <2> QED
    BY <2>1, MemoryEdge
<1>4. C => /\ alu_req # None => mem_reads = <<>> /\ lsu_rd = <<>>
  BY DEF WordIsAlone
<1>5. C /\ ~rd_hs /\ alu_req # None => lsu_rd' = <<>> /\ (mem_reads' = <<>> \/ ~mem_reads'[1].old)
  BY <1>3, <1>4
<1>6. CASE micro_hs(ready)
  <2>1. micro.v /\ ~rd_hs /\ mexec_wait = {}
    BY <1>6, IssueFacts
  <2>2. /\ alu_req' = IF op.alu /\ ~op.mrd THEN <<alu_of>> ELSE None
        /\ alu_res' = alu_req
        /\ mexec_wait' = waits_for(op) \cup (IF op.jmp # "no" /\ slow_jump(op) THEN {"jmp"} ELSE {})
        /\ mem_dst'.reg = op.dest
        /\ mem_wait' = "fifo" => op.mem = "fifo"
    BY <1>6, IssueUnits
  <2>3. awaits' <=> op.mrd
    BY <2>2 DEF awaits, waits_for
  <2>4. Careful' => careful(op) /\ op.mrd
    BY <2>2, <2>3 DEF Careful, careful
  <2>5. Reading' <=> op.mem = "read"
    BY <1>6, ReadingNext
  <2>6. micro'.v /\ careful(op)' => op.mem = "read" /\ ~op.mrd
    <3>1. micro'.v /\ careful(op)' => OpOK(micro.k, op', op, micro'.cnt)
      BY <1>2, <1>6, NextOp DEF careful
    <3> QED
      BY <3>1 DEF OpOK, careful
  <2>7. micro'.v /\ careful(op)' => lsu_rd' = <<>> /\ mem_reads' = <<>> /\ Reading'
    <3> SUFFICES ASSUME micro'.v, careful(op)' PROVE lsu_rd' = <<>> /\ mem_reads' = <<>> /\ Reading'
      OBVIOUS
    <3>1. ~awaits /\ ~ToRead
      BY <2>1, <2>6 DEF awaits, ToRead
    <3>2. way = 0
      BY <3>1 DEF WordsInOrder, Bit
    <3>3. Len(lsu_rd) = 0 /\ Len(mem_reads) = 0 /\ ~Reading
      <4>1. Len(lsu_rd) \in Nat /\ Len(mem_reads) \in Nat
        BY DEF Types, MemTypes
      <4> QED
        BY <3>2, <4>1 DEF way, Bit
    <3>4. lsu_rd = <<>> /\ mem_reads = <<>>
      BY <3>3, EmptySeq DEF Types, MemTypes
    <3> QED
      BY <1>3, <2>1, <2>5, <2>6, <3>3, <3>4
  <2>8. micro'.v /\ careful(op)' => ~awaits'
    BY <2>3, <2>6
  <2>9. Careful' => /\ alu_req' = None
                    /\ alu_res' # None => lsu_rd' = <<>> /\ (mem_reads' = <<>> \/ ~mem_reads'[1].old)
    BY <1>5, <2>1, <2>2, <2>4
  <2> QED
    BY <2>7, <2>8, <2>9 DEF WordIsAlone
<1>7. CASE ~micro_hs(ready)
  <2>1. /\ alu_req' = IF rd_hs THEN alu_wait ELSE None
        /\ alu_res' = alu_req
        /\ mexec_wait' = {u \in mexec_wait : \/ u = "fifo" /\ ~rd_hs
                                             \/ u = "slow" /\ slow_res = None
                                             \/ u = "jmp" /\ ~jmp.v}
        /\ mem_dst' = mem_dst
        /\ mem_wait' = "fifo" => mem_wait = "fifo"
    BY <1>7, WaitUnits
  <2>2. awaits' <=> awaits /\ ~rd_hs
    BY <2>1 DEF awaits
  <2>3. Careful' => Careful /\ ~rd_hs
    BY <2>1, <2>2 DEF Careful
  <2>4. micro'.v /\ careful(op)' => micro.v /\ careful(op)
    BY <1>2, <1>7, NextOp DEF careful
  <2>5. micro.v /\ careful(op) => ~awaits /\ ~rd_hs
    BY DEF WordIsAlone, rd_hs, awaits
  <2>6. C' => C /\ ~rd_hs
    BY <2>3, <2>4, <2>5
  <2>7. C' => /\ alu_req' = None
              /\ alu_res' # None => lsu_rd' = <<>> /\ (mem_reads' = <<>> \/ ~mem_reads'[1].old)
    BY <1>5, <2>1, <2>6
  <2>8. micro'.v /\ careful(op)' => ~awaits'
    BY <2>2, <2>4, <2>5
  <2> QED
    BY <2>7, <2>8 DEF WordIsAlone
<1> QED
  BY <1>6, <1>7

-----------------------------------------------------------------------------
(***************************************************************************)
(* The units and the types.                                                *)
(***************************************************************************)
(* Where the results are.                                                  *)
LEMMA UnitsStep ==
    ASSUME Types, UnitsAgree,
           NEW ready \in BOOLEAN, NEW answers \in BOOLEAN, NEW offers \in BOOLEAN,
           Clock(ready, answers, offers)
    PROVE  UnitsAgree'
<1>1. OpOK(micro.k, op, prev_of(micro.k, micro.n), micro.cnt)
  BY OpHere DEF Types
<1>2. /\ (op_inc <=> op_dec) => op_cnt' = op_cnt
      /\ op_inc /\ ~op_dec => op_cnt' = op_cnt + 1
      /\ ~op_inc /\ op_dec => op_cnt' = op_cnt - 1
  <2>1. Count /\ op_inc \in BOOLEAN /\ op_dec \in BOOLEAN
    BY DEF Clock, op_inc, op_dec, res_valid
  <2> QED
    BY <2>1 DEF Count
<1>3. op_cnt = Bit(alu_res # None) + Bit(slow.st = "run") + Bit(slow_res # None)
  BY DEF UnitsAgree
<1>4. ToRead' <=> IF micro_hs(ready) THEN op.mem = "read" ELSE ToRead
  BY ToReadNext
<1>5. CASE micro_hs(ready)
  <2>1. slow = NoSlow /\ slow_res = None /\ mexec_wait = {}
    BY <1>5, IssueFacts
  <2>2. /\ alu_wait' = IF op.alu /\ op.mrd THEN <<alu_of>> ELSE None
        /\ alu_req' = IF op.alu /\ ~op.mrd THEN <<alu_of>> ELSE None
        /\ alu_res' = alu_req
        /\ slow' = IF op.slow # "no" THEN slow_of ELSE NoSlow
        /\ slow_res' = None
        /\ mexec_busy' = takes_time(op)
        /\ mexec_wait' = waits_for(op) \cup (IF op.jmp # "no" /\ slow_jump(op) THEN {"jmp"} ELSE {})
        /\ unlk' = [fl |-> op.unlk, pulse |-> FALSE]
        /\ mem_dst'.reg = op.dest
        /\ mem_wait' = IF op.mem \in {"alu", "slow", "fifo"} THEN op.mem ELSE "no"
        /\ lsu_req'.v = (op.mem \in {"read", "imm"})
        /\ lsu_req'.cmd = (IF op.mem = "read" THEN "read" ELSE "write")
    BY <1>5, IssueUnits
  <2>3. awaits' <=> op.mrd
    BY <2>2 DEF awaits, waits_for
  <2>4. slow'.st = IF op.slow = "no" THEN "idle" ELSE IF op.mrd THEN "fifo" ELSE "req"
    BY <2>2 DEF slow_of, NoSlow
  <2>5. /\ mexec_wait' # {} => mexec_busy'
        /\ "slow" \in mexec_wait' <=> op.slow # "no"
    BY <2>2 DEF takes_time, waits_for
  <2>6. op_cnt' = Bit(alu_res' # None) + Bit(slow'.st = "run") + Bit(slow_res' # None)
    <3>1. (op_inc <=> alu_req # None) /\ (op_dec <=> alu_res # None)
      BY <2>1 DEF op_inc, op_dec, res_valid, NoSlow
    <3>2. slow.st = "idle" /\ slow'.st # "run"
      BY <2>1, <2>4 DEF NoSlow
    <3> QED
      BY <1>2, <1>3, <2>1, <2>2, <3>1, <3>2 DEF Bit
  <2>7. /\ slow'.st = "idle" => slow' = NoSlow
        /\ slow'.st = "fifo" => awaits' /\ mem_dst'.reg = "no"
        /\ slow'.st \in {"req", "run"} \/ slow_res' # None => ~awaits'
        /\ slow'.st # "idle" => slow_res' = None /\ alu_wait' = None /\ alu_req' = None
        /\ slow'.st # "run"
        /\ alu_wait' # None => awaits' /\ mem_dst'.reg = "no" /\ alu_req' = None
        /\ mem_wait' = "fifo" => awaits' /\ slow'.st = "idle" /\ mem_dst'.reg = "no"
        /\ mem_wait' # "no" => ~lsu_req'.v /\ ~ToRead' /\ lsu_req'.cmd = "write"
        /\ ~unlk'.pulse
    BY <1>1, <1>4, <1>5, <2>2, <2>3, <2>4 DEF OpOK
  <2> QED
    BY <2>2, <2>4, <2>5, <2>6, <2>7 DEF UnitsAgree
<1>6. CASE ~micro_hs(ready)
  <2>1. /\ alu_wait' = IF rd_hs THEN None ELSE alu_wait
        /\ alu_req' = IF rd_hs THEN alu_wait ELSE None
        /\ alu_res' = alu_req
        /\ mexec_busy' = (mexec_busy /\ ~finishes)
        /\ mexec_wait' = {u \in mexec_wait : \/ u = "fifo" /\ ~rd_hs
                                             \/ u = "slow" /\ slow_res = None
                                             \/ u = "jmp" /\ ~jmp.v}
        /\ unlk' = [fl |-> unlk.fl, pulse |-> finishes /\ unlk.fl]
        /\ mem_dst' = mem_dst
        /\ mem_wait' = IF \/ mem_wait = "alu" /\ res_valid
                          \/ mem_wait = "slow" /\ slow_res # None
                          \/ mem_wait = "fifo" /\ rd_hs THEN "no" ELSE mem_wait
        /\ lsu_req'.cmd = lsu_req.cmd
    BY <1>6, WaitUnits
  <2>2. /\ slow.st = "fifo" => slow' = [slow EXCEPT !.st = IF rd_hs THEN "req" ELSE "fifo"] /\ slow_res' = None
        /\ slow.st = "idle" => slow' = NoSlow /\ slow_res' = None
        /\ slow.st = "req" => \/ \E n \in Nat \ {0} : slow' = [slow EXCEPT !.st = "run", !.cnt = n] /\ slow_res' = None
                              \/ slow' = NoSlow /\ slow_res' = <<[tag |-> slow.tag, wb |-> slow.wb]>>
        /\ slow.st = "run" => \/ slow.cnt # 1 /\ slow' = [slow EXCEPT !.cnt = @ - 1] /\ slow_res' = None
                              \/ slow' = NoSlow /\ slow_res' = <<[tag |-> slow.tag, wb |-> slow.wb]>>
    BY <1>6, WaitSlow
  <2>3. /\ slow.st \in {"idle", "fifo", "req", "run"} /\ slow.cnt \in Nat
        /\ slow \in [st : {"idle", "fifo", "req", "run"}, unit : {"no", "shf", "mul", "bcd"}, cnt : Nat,
                     tag : Tag, wb : SUBSET {"AX"}]
        /\ slow.st = "run" => slow.cnt > 0
    BY DEF Types, UnitTypes, UnitsAgree
  <2>4. awaits' <=> awaits /\ ~rd_hs
    BY <2>1 DEF awaits
  <2>5. /\ slow.st = "fifo" => slow'.st = (IF rd_hs THEN "req" ELSE "fifo") /\ slow_res' = None
        /\ slow.st = "idle" => slow'.st = "idle" /\ slow_res' = None
        /\ slow.st \in {"req", "run"} => \/ slow'.st = "run" /\ slow_res' = None
                                         \/ slow'.st = "idle" /\ slow_res' # None
        /\ slow'.st = "idle" => slow' = NoSlow
        /\ slow'.st = "run" => slow'.cnt > 0
    <3>1. NoSlow.st = "idle" /\ \A x : <<x>> # None
      BY DEF NoSlow, None
    <3>2. CASE slow.st = "fifo"
      BY <2>2, <2>3, <3>1, <3>2
    <3>3. CASE slow.st = "idle"
      BY <2>2, <3>1, <3>3
    <3>4. CASE slow.st = "req"
      <4>1. CASE \E n \in Nat \ {0} : slow' = [slow EXCEPT !.st = "run", !.cnt = n] /\ slow_res' = None
        <5>1. PICK n \in Nat \ {0} : slow' = [slow EXCEPT !.st = "run", !.cnt = n] /\ slow_res' = None
          BY <4>1
        <5>2. slow'.st = "run" /\ slow'.cnt = n
          BY <2>3, <5>1
        <5> QED
          BY <3>4, <5>1, <5>2
      <4>2. CASE slow' = NoSlow /\ slow_res' = <<[tag |-> slow.tag, wb |-> slow.wb]>>
        BY <3>1, <3>4, <4>2
      <4> QED
        BY <2>2, <3>4, <4>1, <4>2
    <3>5. CASE slow.st = "run"
      <4>1. CASE slow.cnt # 1 /\ slow' = [slow EXCEPT !.cnt = @ - 1] /\ slow_res' = None
        <5>1. slow'.st = "run" /\ slow'.cnt = slow.cnt - 1
          BY <2>3, <3>5, <4>1
        <5> QED
          BY <2>3, <3>5, <4>1, <5>1
      <4>2. CASE slow' = NoSlow /\ slow_res' = <<[tag |-> slow.tag, wb |-> slow.wb]>>
        BY <3>1, <3>5, <4>2
      <4> QED
        BY <2>2, <3>5, <4>1, <4>2
    <3> QED
      BY <2>3, <3>2, <3>3, <3>4, <3>5
  <2>6. mexec_wait' # {} => mexec_busy'
    <3>1. CASE finishes
      <4>1. "fifo" \in mexec_wait => rd_hs
        BY <3>1 DEF finishes, rd_hs
      <4>2. "slow" \in mexec_wait => slow_res # None
        BY <3>1 DEF finishes
      <4>3. "jmp" \in mexec_wait => jmp.v
        BY <3>1 DEF finishes
      <4> QED
        BY <2>1, <4>1, <4>2, <4>3
    <3>2. CASE ~finishes
      BY <2>1, <3>2 DEF UnitsAgree
    <3> QED
      BY <3>1, <3>2
  <2>7. "slow" \in mexec_wait' <=> slow'.st # "idle" \/ slow_res' # None
    BY <2>1, <2>3, <2>5 DEF UnitsAgree
  <2>8. rd_hs => awaits
    BY DEF rd_hs, awaits
  <2>9. op_cnt' = Bit(alu_res' # None) + Bit(slow'.st = "run") + Bit(slow_res' # None)
    <3>1. /\ slow.st # "idle" => slow_res = None /\ alu_req = None
          /\ slow.st = "run" \/ slow_res # None => alu_res = None /\ alu_req = None
      BY DEF UnitsAgree
    <3> QED
      BY <1>2, <1>3, <2>1, <2>3, <2>5, <3>1 DEF op_inc, op_dec, res_valid, Bit
  <2>10. /\ slow'.st = "fifo" => awaits' /\ mem_dst'.reg = "no"
         /\ slow'.st \in {"req", "run"} \/ slow_res' # None => ~awaits'
         /\ slow'.st # "idle" => slow_res' = None /\ alu_wait' = None /\ alu_req' = None
         /\ slow'.st = "run" \/ slow_res' # None => alu_res' = None /\ alu_req' = None
         /\ slow_res' # None => alu_wait' = None
    BY <2>1, <2>3, <2>4, <2>5, <2>8 DEF UnitsAgree
  <2>11. alu_wait' # None => awaits' /\ mem_dst'.reg = "no" /\ alu_req' = None
    BY <2>1, <2>4 DEF UnitsAgree
  <2>12. unlk'.pulse => ~mexec_busy'
    BY <2>1
  <2>13. mem_wait' = "fifo" => awaits' /\ slow'.st = "idle" /\ mem_dst'.reg = "no"
    BY <2>1, <2>4, <2>5 DEF UnitsAgree
  <2>14. mem_wait' # "no" => ~lsu_req'.v /\ ~ToRead' /\ lsu_req'.cmd = "write"
    <3> SUFFICES ASSUME mem_wait' # "no" PROVE ~lsu_req'.v /\ ~ToRead' /\ lsu_req'.cmd = "write"
      OBVIOUS
    <3>1. /\ mem_wait # "no" /\ ~lsu_req.v /\ ~ToRead /\ lsu_req.cmd = "write"
          /\ ~(mem_wait = "alu" /\ res_valid) /\ ~(mem_wait = "slow" /\ slow_res # None)
          /\ ~(mem_wait = "fifo" /\ rd_valid)
      BY <2>1 DEF UnitsAgree, rd_hs, awaits
    <3>2. micro_hs(ready) = FALSE
      BY <1>6 DEF micro_hs, micro_tready
    <3>3. Request(FALSE, ready)
      BY <3>2 DEF Clock
    <3>4. ~lsu_req'.v
      BY <3>1, <3>3 DEF Request
    <3> QED
      BY <1>4, <1>6, <2>1, <3>1, <3>4
  <2> QED
    BY <2>5, <2>6, <2>7, <2>9, <2>10, <2>11, <2>12, <2>13, <2>14 DEF UnitsAgree
<1> QED
  BY <1>5, <1>6

(* The types.                                                              *)
LEMMA FrontStep ==
    ASSUME Types, NEW ready \in BOOLEAN, NEW answers \in BOOLEAN, NEW offers \in BOOLEAN,
           Clock(ready, answers, offers)
    PROVE  FrontTypes'
<1>0. /\ rr_hs(ready) => rr.v
      /\ instr_hs(ready) => instr.v /\ (rr.v => rr_hs(ready)) /\ rr' = instr /\ lock' = Locks(instr.k)
      /\ ~instr_hs(ready) => lock' = {} /\ rr' = IF rr_tready(ready) THEN NoInstr ELSE rr
      /\ micro_hs(ready) => micro.v
  BY FrontMoves
<1>1. /\ family' = family
      /\ \/ instr.v /\ ~instr_hs(ready) /\ instr' = instr
         \/ /\ done' + Bit(rr'.v) < MaxInstr
            /\ \E k \in family : \E p \in BOOLEAN : (p => Predicted(k)) /\ instr' = [v |-> TRUE, k |-> k, pred |-> p]
         \/ ~(instr.v /\ ~instr_hs(ready)) /\ instr' = NoInstr
  BY DEF Clock, Feed, Bit
<1>2. /\ family \subseteq AllKinds /\ family \in Families
      /\ instr \in [v : BOOLEAN, k : AllKinds, pred : BOOLEAN] /\ rr \in [v : BOOLEAN, k : AllKinds, pred : BOOLEAN]
      /\ done \in Nat /\ done + Bit(rr.v) + Bit(instr.v) <= MaxInstr /\ MaxInstr \in Nat
      /\ instr.pred => Predicted(instr.k)
      /\ rr.pred => Predicted(rr.k)
      /\ micro.pred => Predicted(micro.k)
      /\ instr.v => instr.k \in family
      /\ rr.v => rr.k \in family
      /\ micro.v => micro.k \in family
  BY ExecuteAssumption DEF Types, FrontTypes
<1>3. NoInstr \in [v : BOOLEAN, k : AllKinds, pred : BOOLEAN] /\ ~NoInstr.v /\ ~NoInstr.pred
  BY DEF NoInstr, AllKinds
<1>4. /\ instr' \in [v : BOOLEAN, k : AllKinds, pred : BOOLEAN]
      /\ instr'.pred => Predicted(instr'.k)
      /\ instr'.v => instr'.k \in family'
      /\ instr'.v => (instr.v /\ ~instr_hs(ready)) \/ done' + Bit(rr'.v) < MaxInstr
  <2>1. CASE instr.v /\ ~instr_hs(ready) /\ instr' = instr
    BY <1>1, <1>2, <2>1
  <2>2. CASE /\ done' + Bit(rr'.v) < MaxInstr
             /\ \E k \in family : \E p \in BOOLEAN : (p => Predicted(k)) /\ instr' = [v |-> TRUE, k |-> k, pred |-> p]
    <3>1. PICK k \in family, p \in BOOLEAN : (p => Predicted(k)) /\ instr' = [v |-> TRUE, k |-> k, pred |-> p]
      BY <2>2
    <3>2. k \in AllKinds
      BY <1>2
    <3> QED
      BY <1>1, <2>2, <3>1, <3>2
  <2>3. CASE instr' = NoInstr
    BY <1>3, <2>3
  <2> QED
    BY <1>1, <2>1, <2>2, <2>3
<1>5. /\ rr' \in [v : BOOLEAN, k : AllKinds, pred : BOOLEAN]
      /\ rr'.pred => Predicted(rr'.k)
      /\ rr'.v => rr'.k \in family'
      /\ lock' \subseteq Regs
  <2>1. CASE instr_hs(ready)
    BY <1>0, <1>1, <1>2, <2>1, LocksAreAhead
  <2>2. CASE ~instr_hs(ready)
    <3>1. rr' \in {NoInstr, rr} /\ lock' = {}
      BY <1>0, <2>2
    <3> QED
      BY <1>1, <1>2, <1>3, <3>1
  <2> QED
    BY <2>1, <2>2
<1>6. /\ rr_hs(ready) => done' = done + 1
      /\ ~rr_hs(ready) => done' = done
  BY NextOp
<1>7. /\ micro' \in [v : BOOLEAN, k : AllKinds, n : 1 .. 5, pred : BOOLEAN, cnt : 0 .. 4, busy : BOOLEAN]
      /\ micro'.n + micro'.cnt = Len(Ops(micro'.k))
      /\ ~micro'.v \/ ~micro'.busy => micro'.cnt = 0
  BY NextOp
<1>8. /\ micro'.pred => Predicted(micro'.k)
      /\ micro'.v => micro'.k \in family'
  <2>1. CASE rr_hs(ready)
    BY <1>0, <1>1, <1>2, <2>1, NextOp
  <2>2. CASE ~rr_hs(ready)
    <3>1. micro'.k = micro.k /\ micro'.pred = micro.pred /\ (~micro_hs(ready) => micro' = micro)
      BY <2>2, NextOp
    <3> QED
      BY <1>0, <1>1, <1>2, <3>1
  <2> QED
    BY <2>1, <2>2
<1>9. done' \in Nat /\ done' + Bit(rr'.v) = done + Bit(rr.v) + Bit(instr_hs(ready))
  <2>1. rr_hs(ready) <=> rr.v /\ rr_tready(ready)
    BY DEF rr_hs
  <2>2. CASE instr_hs(ready)
    <3>1. rr'.v /\ (rr_hs(ready) <=> rr.v)
      BY <1>0, <2>2
    <3> QED
      BY <1>2, <1>6, <2>2, <3>1 DEF Bit
  <2>3. CASE ~instr_hs(ready)
    <3>1. rr'.v <=> rr.v /\ ~rr_hs(ready)
      BY <1>0, <1>3, <2>1, <2>3
    <3> QED
      BY <1>0, <1>2, <1>6, <2>3, <3>1 DEF Bit
  <2> QED
    BY <2>2, <2>3
<1>10. done' + Bit(rr'.v) + Bit(instr'.v) <= MaxInstr
  <2>1. \A b : Bit(b) \in {0, 1} /\ (b => Bit(b) = 1) /\ (~b => Bit(b) = 0)
    BY DEF Bit
  <2>2. instr_hs(ready) => instr.v
    BY <1>0
  <2>3. done' \in Nat /\ Bit(rr'.v) \in {0, 1} /\ Bit(rr.v) \in {0, 1} /\ Bit(instr'.v) \in {0, 1}
    BY <1>9, <2>1
  <2>4. CASE ~instr'.v
    <3>1. Bit(instr'.v) = 0 /\ (Bit(instr_hs(ready)) = 1 => Bit(instr.v) = 1) /\ Bit(instr.v) \in {0, 1}
          /\ Bit(instr_hs(ready)) \in {0, 1}
      BY <2>2, <2>4 DEF Bit
    <3> QED
      BY <1>2, <1>9, <2>3, <3>1
  <2>5. CASE instr'.v /\ instr.v /\ ~instr_hs(ready)
    <3>1. Bit(instr'.v) = 1 /\ Bit(instr.v) = 1 /\ Bit(instr_hs(ready)) = 0
      BY <2>1, <2>5
    <3> QED
      BY <1>2, <1>9, <2>3, <3>1
  <2>6. CASE instr'.v /\ done' + Bit(rr'.v) < MaxInstr
    <3>1. Bit(instr'.v) = 1
      BY <2>1, <2>6
    <3>2. \A x, y, z, m \in Int : x + y < m /\ z = 1 => x + y + z <= m
      OBVIOUS
    <3>3. done' \in Int /\ Bit(rr'.v) \in Int /\ Bit(instr'.v) \in Int /\ MaxInstr \in Int
      BY <1>2, <2>3
    <3>4. done' + Bit(rr'.v) < MaxInstr
      BY <2>6
    <3> QED
      BY <3>1, <3>2, <3>3, <3>4
  <2> QED
    BY <1>4, <2>4, <2>5, <2>6
<1> QED
  BY <1>1, <1>2, <1>4, <1>5, <1>7, <1>8, <1>9, <1>10 DEF FrontTypes

LEMMA JumpTypes ==
    ASSUME Types, NEW ready \in BOOLEAN, NEW answers \in BOOLEAN, NEW offers \in BOOLEAN,
           Clock(ready, answers, offers)
    PROVE  /\ jmp' \in [busy : BOOLEAN, mem : BOOLEAN, alu : BOOLEAN, cond : {"no", "always", "cc", "cx", "never"},
                        take : BOOLEAN, v : BOOLEAN, pred : BOOLEAN]
           /\ event_jump' \in BOOLEAN
           /\ flags_src' \in {"cmd", "mem", "user"}
<1>1. OpOK(micro.k, op, prev_of(micro.k, micro.n), micro.cnt)
  BY OpHere DEF Types
<1>2. /\ jmp \in [busy : BOOLEAN, mem : BOOLEAN, alu : BOOLEAN, cond : {"no", "always", "cc", "cx", "never"},
                  take : BOOLEAN, v : BOOLEAN, pred : BOOLEAN]
      /\ event_jump \in BOOLEAN /\ micro.pred \in BOOLEAN /\ flags_src \in {"cmd", "mem", "user"}
  BY DEF Types, FrontTypes, UnitTypes
<1> DEFINE hs == micro_hs(ready)
<1>3. hs \in BOOLEAN /\ JumpStep(hs) /\ WriteBack(hs)
  BY DEF Clock, micro_hs, micro_tready
<1> DEFINE go == hs /\ op.jmp # "no"
<1>4. \A t \in taken(go) : t \in BOOLEAN
  BY <1>2 DEF taken
<1> HIDE DEF hs
<1>5. /\ jmp' \in [busy : BOOLEAN, mem : BOOLEAN, alu : BOOLEAN, cond : {"no", "always", "cc", "cx", "never"},
                   take : BOOLEAN, v : BOOLEAN, pred : BOOLEAN]
      /\ event_jump' \in BOOLEAN
  <2>1. slow_jump(op) \in BOOLEAN /\ resolved \in BOOLEAN
    BY <1>1, <1>2 DEF slow_jump, resolved, OpOK, under_way, op_inc
  <2>2. PICK t \in taken(go) :
            jmp' = [busy |-> IF go /\ slow_jump(op) THEN TRUE ELSE jmp.busy /\ ~resolved,
                    mem  |-> IF go /\ op.jump_mem THEN TRUE ELSE jmp.mem /\ ~rd_valid,
                    alu  |-> IF go THEN op.jmp = "cx" ELSE jmp.alu /\ ~res_valid,
                    cond |-> IF go THEN op.jmp ELSE jmp.cond,
                    take |-> t,
                    v    |-> IF go /\ ~under_way
                             THEN op.jmp = "cc" \/ (op.jmp = "always" /\ ~op.jump_mem)
                             ELSE resolved,
                    pred |-> IF go THEN micro.pred ELSE jmp.pred]
    BY <1>3 DEF JumpStep
  <2>3. event_jump' \in BOOLEAN
    BY <1>2, <1>3 DEF JumpStep
  <2>4. op.jmp \in {"no", "always", "cc", "cx", "never"} /\ op.jump_mem \in BOOLEAN
    BY <1>1 DEF OpOK
  <2> QED
    BY <1>2, <1>3, <1>4, <2>1, <2>2, <2>3, <2>4
<1>6. flags_src' \in {"cmd", "mem", "user"}
  BY <1>2, <1>3 DEF WriteBack
<1> QED
  BY <1>5, <1>6

LEMMA UnitTypesStep ==
    ASSUME Types, UnitsAgree, NEW ready \in BOOLEAN, NEW answers \in BOOLEAN, NEW offers \in BOOLEAN,
           Clock(ready, answers, offers)
    PROVE  UnitTypes'
<1>1. OpOK(micro.k, op, prev_of(micro.k, micro.n), micro.cnt)
  BY OpHere DEF Types
<1>2. own("alu") \in RealTag /\ own("slow") \in RealTag /\ RealTag \subseteq Tag
  BY RealTags DEF Types
<1>3. op_cnt' \in Nat
  <2>1. UnitsAgree'
    BY UnitsStep
  <2>2. op_cnt' = Bit(alu_res' # None) + Bit(slow'.st = "run") + Bit(slow_res' # None)
    BY <2>1 DEF UnitsAgree
  <2> QED
    BY <2>2 DEF Bit
<1>4. /\ jmp' \in [busy : BOOLEAN, mem : BOOLEAN, alu : BOOLEAN, cond : {"no", "always", "cc", "cx", "never"},
                   take : BOOLEAN, v : BOOLEAN, pred : BOOLEAN]
      /\ event_jump' \in BOOLEAN
      /\ flags_src' \in {"cmd", "mem", "user"}
  BY JumpTypes
<1>5. /\ mexec_busy \in BOOLEAN /\ mexec_wait \subseteq {"fifo", "slow", "jmp"}
      /\ unlk \in [fl : BOOLEAN, pulse : BOOLEAN]
      /\ One(alu_wait, AluReq) /\ One(alu_req, AluReq) /\ One(alu_res, AluReq)
      /\ slow \in [st : {"idle", "fifo", "req", "run"}, unit : {"no", "shf", "mul", "bcd"}, cnt : Nat,
                   tag : Tag, wb : SUBSET {"AX"}]
      /\ slow.st # "idle" => slow.tag \in RealTag
      /\ One(slow_res, SlowRes)
  BY DEF Types, UnitTypes
<1>6. One(None, AluReq) /\ One(None, SlowRes)
  BY DEF One
<1>7. CASE micro_hs(ready)
  <2>1. /\ alu_wait' = IF op.alu /\ op.mrd THEN <<alu_of>> ELSE None
        /\ alu_req' = IF op.alu /\ ~op.mrd THEN <<alu_of>> ELSE None
        /\ alu_res' = alu_req
        /\ slow' = IF op.slow # "no" THEN slow_of ELSE NoSlow
        /\ slow_res' = None
        /\ mexec_busy' = takes_time(op)
        /\ mexec_wait' = waits_for(op) \cup (IF op.jmp # "no" /\ slow_jump(op) THEN {"jmp"} ELSE {})
        /\ unlk' = [fl |-> op.unlk, pulse |-> FALSE]
    BY <1>7, IssueUnits
  <2>2. alu_of \in AluReq
    BY <1>1, <1>2 DEF alu_of, AluReq, OpOK, Regs
  <2>3. One(<<alu_of>>, AluReq)
    BY <2>2 DEF One
  <2>4. One(alu_wait', AluReq) /\ One(alu_req', AluReq) /\ One(alu_res', AluReq)
    <3>1. alu_wait' \in {None, <<alu_of>>} /\ alu_req' \in {None, <<alu_of>>}
      BY <2>1
    <3> QED
      BY <1>5, <1>6, <2>1, <2>3, <3>1
  <2>5. /\ slow_of \in [st : {"idle", "fifo", "req", "run"}, unit : {"no", "shf", "mul", "bcd"}, cnt : Nat,
                        tag : Tag, wb : SUBSET {"AX"}]
        /\ slow_of.tag \in RealTag
    BY <1>1, <1>2 DEF slow_of, OpOK
  <2>6. NoSlow \in [st : {"idle", "fifo", "req", "run"}, unit : {"no", "shf", "mul", "bcd"}, cnt : Nat,
                    tag : Tag, wb : SUBSET {"AX"}] /\ NoSlow.st = "idle"
    BY DEF NoSlow, Tag
  <2>7. /\ slow' \in [st : {"idle", "fifo", "req", "run"}, unit : {"no", "shf", "mul", "bcd"}, cnt : Nat,
                      tag : Tag, wb : SUBSET {"AX"}]
        /\ slow'.st # "idle" => slow'.tag \in RealTag
    <3>1. slow' \in {slow_of, NoSlow}
      BY <2>1
    <3> QED
      BY <2>5, <2>6, <3>1
  <2>8. mexec_busy' \in BOOLEAN /\ mexec_wait' \subseteq {"fifo", "slow", "jmp"}
    BY <1>1, <2>1 DEF takes_time, waits_for, OpOK
  <2>9. unlk' \in [fl : BOOLEAN, pulse : BOOLEAN]
    BY <1>1, <2>1 DEF OpOK
  <2>10. One(slow_res', SlowRes)
    BY <1>6, <2>1
  <2> QED
    BY <1>3, <1>4, <2>4, <2>7, <2>8, <2>9, <2>10 DEF UnitTypes
<1>8. CASE ~micro_hs(ready)
  <2>1. /\ alu_wait' = IF rd_hs THEN None ELSE alu_wait
        /\ alu_req' = IF rd_hs THEN alu_wait ELSE None
        /\ alu_res' = alu_req
        /\ mexec_busy' = (mexec_busy /\ ~finishes)
        /\ mexec_wait' = {u \in mexec_wait : \/ u = "fifo" /\ ~rd_hs
                                             \/ u = "slow" /\ slow_res = None
                                             \/ u = "jmp" /\ ~jmp.v}
        /\ unlk' = [fl |-> unlk.fl, pulse |-> finishes /\ unlk.fl]
    BY <1>8, WaitUnits
  <2>2. One(alu_wait', AluReq) /\ One(alu_req', AluReq) /\ One(alu_res', AluReq)
    <3>1. alu_wait' \in {None, alu_wait} /\ alu_req' \in {None, alu_wait}
      BY <2>1
    <3> QED
      BY <1>5, <1>6, <2>1, <3>1
  <2>3. mexec_busy' \in BOOLEAN /\ mexec_wait' \subseteq {"fifo", "slow", "jmp"}
    BY <1>5, <2>1
  <2>4. unlk' \in [fl : BOOLEAN, pulse : BOOLEAN]
    <3>1. finishes \in BOOLEAN /\ unlk.fl \in BOOLEAN
      BY <1>5 DEF finishes
    <3> QED
      BY <2>1, <3>1
  <2>5. /\ slow.st = "fifo" => slow' = [slow EXCEPT !.st = IF rd_hs THEN "req" ELSE "fifo"] /\ slow_res' = None
        /\ slow.st = "idle" => slow' = NoSlow /\ slow_res' = None
        /\ slow.st = "req" => \/ \E n \in Nat \ {0} : slow' = [slow EXCEPT !.st = "run", !.cnt = n] /\ slow_res' = None
                              \/ slow' = NoSlow /\ slow_res' = <<[tag |-> slow.tag, wb |-> slow.wb]>>
        /\ slow.st = "run" => \/ slow.cnt # 1 /\ slow' = [slow EXCEPT !.cnt = @ - 1] /\ slow_res' = None
                              \/ slow' = NoSlow /\ slow_res' = <<[tag |-> slow.tag, wb |-> slow.wb]>>
    BY <1>8, WaitSlow
  <2> DEFINE S == [st : {"idle", "fifo", "req", "run"}, unit : {"no", "shf", "mul", "bcd"}, cnt : Nat,
                   tag : Tag, wb : SUBSET {"AX"}]
             Good == slow' \in S /\ (slow'.st # "idle" => slow'.tag \in RealTag) /\ One(slow_res', SlowRes)
  <2>6. NoSlow \in S /\ NoSlow.st = "idle"
    BY DEF NoSlow, Tag
  <2>7. ASSUME slow' = NoSlow, slow_res' = None
        PROVE  Good
    BY <1>6, <2>6, <2>7
  <2>8. ASSUME slow' = NoSlow, slow_res' = <<[tag |-> slow.tag, wb |-> slow.wb]>>, slow.st # "idle"
        PROVE  Good
    <3>1. One(<<[tag |-> slow.tag, wb |-> slow.wb]>>, SlowRes)
      BY <1>5, <2>8 DEF One, SlowRes
    <3> QED
      BY <2>6, <2>8, <3>1
  <2>9. ASSUME NEW x \in {"req", "fifo"}, slow' = [slow EXCEPT !.st = x], slow.st = "fifo", slow_res' = None
        PROVE  Good
    BY <1>5, <1>6, <2>9
  <2>10. ASSUME NEW n \in Nat, slow' = [slow EXCEPT !.st = "run", !.cnt = n], slow.st = "req", slow_res' = None
         PROVE  Good
    BY <1>5, <1>6, <2>10
  <2>11. ASSUME slow' = [slow EXCEPT !.cnt = @ - 1], slow.st = "run", slow_res' = None
         PROVE  Good
    <3>1. slow.cnt - 1 \in Nat
      BY <1>5, <2>11 DEF UnitsAgree
    <3> QED
      BY <1>5, <1>6, <2>11, <3>1
  <2>12. Good
    <3>1. CASE slow.st = "fifo"
      <4>1. CASE rd_hs
        BY <2>5, <2>9, <3>1, <4>1
      <4>2. CASE ~rd_hs
        BY <2>5, <2>9, <3>1, <4>2
      <4> QED
        BY <4>1, <4>2
    <3>2. CASE slow.st = "idle"
      BY <2>5, <2>7, <3>2
    <3>3. CASE slow.st = "req"
      BY <2>5, <2>8, <2>10, <3>3
    <3>4. CASE slow.st = "run"
      BY <2>5, <2>8, <2>11, <3>4
    <3> QED
      BY <1>5, <3>1, <3>2, <3>3, <3>4
  <2> QED
    BY <1>3, <1>4, <2>2, <2>3, <2>4, <2>12 DEF UnitTypes
<1> QED
  BY <1>7, <1>8

LEMMA StoredTags ==
    ASSUME FrontTypes, op.mem # "no"
    PROVE  of(done, StoreData(micro.k, micro.n)) \in Tag
<1>1. /\ micro.k \in AllKinds /\ micro.n \in 1 .. Len(Ops(micro.k)) /\ Len(Ops(micro.k)) \in 1 .. 5
      /\ OpOK(micro.k, op, prev_of(micro.k, micro.n), micro.cnt)
  BY OpHere
<1>2. done \in 0 .. MaxInstr
  BY ExecuteAssumption DEF FrontTypes, Bit
<1>3. op.mem = "fifo" => word_of(micro.k, micro.n) = micro.n - 1
  BY <1>1, WordIsTheLastRead DEF OpOK, op
<1>4. /\ micro.n \in 0 .. 5 /\ micro.n - 1 \in 0 .. 5 /\ 1 \in 0 .. 5
  <2>1. micro.n \in 1 .. 5
    BY DEF FrontTypes
  <2> QED
    BY <2>1
<1>5. \/ \E u \in {"alu", "slow", "imm", "mem"} : \E s \in 0 .. 5 : StoreData(micro.k, micro.n) = <<u, s>>
  <2>1. op.mem \in {"read", "imm", "alu", "slow", "fifo"}
    BY <1>1 DEF OpOK
  <2> QED
    BY <1>3, <1>4, <2>1 DEF StoreData, op
<1> QED
  BY <1>2, <1>5 DEF of, Tag

LEMMA MemTypesStep ==
    ASSUME Types, UnitsAgree, WordsInOrder, NEW ready \in BOOLEAN, NEW answers \in BOOLEAN, NEW offers \in BOOLEAN,
           Clock(ready, answers, offers)
    PROVE  MemTypes'
<1>1. OpOK(micro.k, op, prev_of(micro.k, micro.n), micro.cnt)
  BY OpHere DEF Types
<1>2. own("mem") \in RealTag /\ own("imm") \in RealTag /\ RealTag \subseteq Tag /\ <<done, "mem", micro.n - 1>> \in RealTag
  BY RealTags DEF Types
<1>3. lsu_rd' \in Seq(RealTag) /\ mem_reads' \in Seq([tag : RealTag, old : BOOLEAN])
  BY WordsStep DEF Read
<1>4. /\ lsu_req \in [v : BOOLEAN, cmd : {"read", "write"}, data : Tag, want : Tag]
      /\ lsu_req.v => lsu_req.data \in RealTag
      /\ mem_wait \in {"no", "alu", "slow", "fifo"}
      /\ mem_dst \in [reg : Regs \cup {"no"}, want : Tag]
      /\ lsu_rd \in Seq(RealTag)
  BY DEF Types, MemTypes
<1>5. None \in Tag
  BY DEF Tag
<1>6. ASSUME NEW hs \in BOOLEAN, Request(hs, ready)
      PROVE lsu_req' = [v |-> lsu_req'.v, cmd |-> lsu_req'.cmd, data |-> lsu_req'.data, want |-> lsu_req'.want]
  BY <1>6 DEF Request
<1>7. CASE micro_hs(ready)
  <2>1. /\ mem_dst' = [reg |-> op.dest,
                       want |-> IF op.mrd THEN <<done, "mem", word_of(micro.k, micro.n)>> ELSE None]
        /\ mem_wait' = IF op.mem \in {"alu", "slow", "fifo"} THEN op.mem ELSE "no"
        /\ lsu_req'.v = (op.mem \in {"read", "imm"})
        /\ lsu_req'.cmd = (IF op.mem = "read" THEN "read" ELSE "write")
        /\ lsu_req'.data = own(IF op.mem = "read" THEN "mem" ELSE "imm")
        /\ op.mem # "no" => lsu_req'.want = of(done, StoreData(micro.k, micro.n))
    BY <1>7, IssueUnits
  <2>2. micro_hs(ready) = TRUE
    BY <1>7 DEF micro_hs, micro_tready
  <2>3. Request(TRUE, ready)
    BY <2>2 DEF Clock
  <2>4. lsu_req'.want \in Tag
    <3>1. CASE op.mem = "no"
      BY <1>4, <2>3, <3>1 DEF Request
    <3>2. CASE op.mem # "no"
      BY <2>1, <3>2, StoredTags DEF Types
    <3> QED
      BY <3>1, <3>2
  <2>5. lsu_req'.data \in RealTag
    BY <1>2, <2>1
  <2>6. lsu_req' = [v |-> lsu_req'.v, cmd |-> lsu_req'.cmd, data |-> lsu_req'.data, want |-> lsu_req'.want]
    BY <1>6, <2>3
  <2>7. lsu_req'.v \in BOOLEAN /\ lsu_req'.cmd \in {"read", "write"} /\ lsu_req'.data \in Tag
    BY <1>2, <2>1, <2>5
  <2>8. lsu_req' \in [v : BOOLEAN, cmd : {"read", "write"}, data : Tag, want : Tag]
    BY <2>4, <2>6, <2>7
  <2>9. mem_wait' \in {"no", "alu", "slow", "fifo"}
    BY <2>1
  <2>10. mem_dst' \in [reg : Regs \cup {"no"}, want : Tag]
    <3>1. micro.k \in AllKinds /\ micro.n \in 1 .. Len(Ops(micro.k))
      BY OpHere DEF Types
    <3>2. op.mrd => word_of(micro.k, micro.n) = micro.n - 1
      BY <3>1, WordIsTheLastRead DEF op
    <3>3. op.dest \in Regs \cup {"no"}
      BY <1>1 DEF OpOK
    <3>4. (IF op.mrd THEN <<done, "mem", word_of(micro.k, micro.n)>> ELSE None) \in Tag
      BY <1>2, <1>5, <3>2
    <3> QED
      BY <2>1, <3>3, <3>4
  <2> QED
    BY <1>3, <2>5, <2>8, <2>9, <2>10 DEF MemTypes
<1>8. CASE ~micro_hs(ready)
  <2>1. /\ mem_dst' = mem_dst
        /\ mem_wait' = IF \/ mem_wait = "alu" /\ res_valid
                          \/ mem_wait = "slow" /\ slow_res # None
                          \/ mem_wait = "fifo" /\ rd_hs THEN "no" ELSE mem_wait
        /\ lsu_req'.cmd = lsu_req.cmd /\ lsu_req'.want = lsu_req.want
    BY <1>8, WaitUnits
  <2>2. micro_hs(ready) = FALSE
    BY <1>8 DEF micro_hs, micro_tready
  <2>3. Request(FALSE, ready)
    BY <2>2 DEF Clock
  <2>4. /\ res_valid => alu_res[1].tag \in RealTag
        /\ slow_res # None => slow_res[1].tag \in RealTag
        /\ rd_valid => Head(lsu_rd) \in RealTag
    <3>1. One(alu_res, AluReq) /\ One(slow_res, SlowRes)
      BY DEF Types, UnitTypes
    <3> QED
      BY <1>4, <3>1 DEF res_valid, rd_valid, One, AluReq, SlowRes
  <2>5. lsu_req'.data = IF mem_wait = "alu" /\ res_valid THEN alu_res[1].tag
                        ELSE IF mem_wait = "slow" /\ slow_res # None THEN slow_res[1].tag
                        ELSE IF mem_wait = "fifo" /\ rd_valid THEN Head(lsu_rd)
                        ELSE lsu_req.data
    BY <2>3 DEF Request
  <2>6. lsu_req'.v \in BOOLEAN
    BY <2>3 DEF Request
  <2>7. lsu_req'.v => \/ mem_wait = "alu" /\ res_valid
                      \/ mem_wait = "slow" /\ slow_res # None
                      \/ mem_wait = "fifo" /\ rd_valid
                      \/ lsu_req.v
    BY <2>3 DEF Request
  <2>8. lsu_req'.v => lsu_req'.data \in RealTag
    BY <1>4, <2>4, <2>5, <2>7
  <2>9. lsu_req'.data \in Tag
    BY <1>2, <1>4, <2>4, <2>5
  <2>10. lsu_req' \in [v : BOOLEAN, cmd : {"read", "write"}, data : Tag, want : Tag]
    <3>1. lsu_req' = [v |-> lsu_req'.v, cmd |-> lsu_req'.cmd, data |-> lsu_req'.data, want |-> lsu_req'.want]
      BY <1>6, <2>3
    <3>2. lsu_req'.cmd \in {"read", "write"} /\ lsu_req'.want \in Tag
      BY <1>4, <2>1
    <3> QED
      BY <2>6, <2>9, <3>1, <3>2
  <2> QED
    BY <1>3, <1>4, <2>1, <2>8, <2>10 DEF MemTypes
<1> QED
  BY <1>7, <1>8

-----------------------------------------------------------------------------
(***************************************************************************)
(* Jumps and stores.                                                       *)
(***************************************************************************)
(* The register that holds back what follows a jump. *)
LEMMA JumpLockNext ==
    ASSUME Types, JumpLocks, NEW ready \in BOOLEAN, JumpLock(ready)
    PROVE  /\ jmp_lock' \in [v : BOOLEAN, hs : 0 .. 1, val : {None}]
           /\ jmp_lock'.v <=> jmp_lock'.hs = 0
           /\ unlk.pulse => jmp_lock'.v
           /\ rr_hs(ready) /\ LocksJump(rr.k) => ~jmp_lock'.v
           /\ ~unlk.pulse /\ ~(rr_hs(ready) /\ LocksJump(rr.k)) => jmp_lock'.v = jmp_lock.v
<1> DEFINE lk == rr_hs(ready) /\ LocksJump(rr.k)
           w == IF unlk.pulse THEN <<0>> ELSE None
           r0 == [jmp_lock EXCEPT !.val = None]
           n == reg_next(r0, w, lk)
<1>1. /\ jmp_lock \in [v : BOOLEAN, hs : 0 .. 1, val : {None}]
      /\ jmp_lock.v <=> jmp_lock.hs = 0
      /\ unlk.pulse => ~jmp_lock.v
      /\ unlk.pulse \in BOOLEAN
  BY DEF Types, RegTypes, UnitTypes, JumpLocks
<1>2. lk \in BOOLEAN /\ (lk => jmp_lock.v)
  BY DEF rr_hs, rr_tready, LocksJump
<1>3. jmp_lock' = [n EXCEPT !.val = None]
  BY DEF JumpLock
<1>4. r0.v = jmp_lock.v /\ r0.hs = jmp_lock.hs
  BY <1>1
<1>5. w # None <=> unlk.pulse
  BY DEF None
<1> HIDE DEF lk, w, r0
<1>6. /\ n.v \in BOOLEAN
      /\ n.v <=> \/ unlk.pulse /\ ~lk /\ jmp_lock.hs < 2
                 \/ jmp_lock.v /\ (unlk.pulse \/ ~lk)
      /\ n.hs = IF unlk.pulse <=> lk THEN jmp_lock.hs ELSE IF lk THEN jmp_lock.hs + 1
                ELSE IF jmp_lock.hs > 0 THEN jmp_lock.hs - 1 ELSE 0
      /\ n = [v |-> n.v, hs |-> n.hs, val |-> n.val]
  <2>1. (w # None) = lk <=> (unlk.pulse <=> lk)
    BY <1>1, <1>2, <1>5
  <2>2. /\ n.v = (\/ w # None /\ ~lk /\ r0.hs < 2
                  \/ r0.v /\ (w # None \/ ~lk))
        /\ n.hs = IF (w # None) = lk THEN r0.hs ELSE IF lk THEN r0.hs + 1
                  ELSE IF r0.hs > 0 THEN r0.hs - 1 ELSE 0
        /\ n = [v |-> n.v, hs |-> n.hs, val |-> n.val]
    BY DEF reg_next
  <2> HIDE DEF n
  <2> QED
    BY <1>1, <1>2, <1>4, <1>5, <2>1, <2>2
<1> HIDE DEF n
<1>8. jmp_lock' = [v |-> n.v, hs |-> n.hs, val |-> None]
  <2>1. \A a, b, c : [[v |-> a, hs |-> b, val |-> c] EXCEPT !.val = None] = [v |-> a, hs |-> b, val |-> None]
    OBVIOUS
  <2> QED
    BY <1>3, <1>6, <2>1
<1>9. CASE unlk.pulse
  <2>1. jmp_lock.hs = 1 /\ ~lk
    BY <1>1, <1>2, <1>9
  <2>2. n.v /\ n.hs = 0
    BY <1>1, <1>6, <1>9, <2>1
  <2> QED
    BY <1>6, <1>8, <1>9, <2>1, <2>2 DEF lk
<1>10. CASE ~unlk.pulse /\ lk
  <2>1. jmp_lock.hs = 0 /\ jmp_lock.v
    BY <1>1, <1>2, <1>10
  <2>2. ~n.v /\ n.hs = 1
    BY <1>1, <1>2, <1>6, <1>10, <2>1
  <2> QED
    BY <1>6, <1>8, <1>10, <2>1, <2>2 DEF lk
<1>11. CASE ~unlk.pulse /\ ~lk
  <2>1. n.v = jmp_lock.v /\ n.hs = jmp_lock.hs
    BY <1>1, <1>2, <1>6, <1>11
  <2> QED
    BY <1>1, <1>8, <1>11, <2>1 DEF lk
<1> QED
  BY <1>9, <1>10, <1>11

(* What follows a jump is held back until the jump is decided.             *)
LEMMA JumpLocksStep ==
    ASSUME Types, UnitsAgree, JumpLocks, NEW ready \in BOOLEAN, NEW answers \in BOOLEAN, NEW offers \in BOOLEAN,
           Clock(ready, answers, offers)
    PROVE  JumpLocks' /\ jmp_lock' \in [v : BOOLEAN, hs : 0 .. 1, val : {None}]
<1>1. /\ jmp_lock' \in [v : BOOLEAN, hs : 0 .. 1, val : {None}]
      /\ jmp_lock'.v <=> jmp_lock'.hs = 0
      /\ unlk.pulse => jmp_lock'.v
      /\ rr_hs(ready) /\ LocksJump(rr.k) => ~jmp_lock'.v
      /\ ~unlk.pulse /\ ~(rr_hs(ready) /\ LocksJump(rr.k)) => jmp_lock'.v = jmp_lock.v
  <2>1. JumpLock(ready)
    BY DEF Clock
  <2> QED
    BY <2>1, JumpLockNext
<1>2. ~event_jump
  BY DEF Clock
<1>3. OpOK(micro.k, op, prev_of(micro.k, micro.n), micro.cnt)
  BY OpHere DEF Types
<1>4. /\ rr_hs(ready) => rr.v /\ micro'.v /\ micro'.k = rr.k /\ (micro.v => micro_hs(ready))
      /\ ~rr_hs(ready) => micro'.k = micro.k
      /\ ~rr_hs(ready) /\ ~micro_hs(ready) => micro'.v = micro.v
      /\ ~rr_hs(ready) /\ micro_hs(ready) => (micro'.v <=> micro.cnt # 0)
  BY NextOp
<1>5. rr_hs(ready) => jmp_lock.v
  BY FrontMoves
<1>6. /\ (mexec_busy /\ unlk.fl) \/ unlk.pulse => ~micro.v
      /\ ~jmp_lock.v => (micro.v /\ LocksJump(micro.k)) \/ (mexec_busy /\ unlk.fl) \/ unlk.pulse
      /\ (micro.v /\ LocksJump(micro.k)) \/ (mexec_busy /\ unlk.fl) \/ unlk.pulse => ~jmp_lock.v
  BY <1>2 DEF JumpLocks
<1> DEFINE Held == (micro.v /\ LocksJump(micro.k)) \/ (mexec_busy /\ unlk.fl) \/ unlk.pulse
<1>7. ((mexec_busy /\ unlk.fl) \/ unlk.pulse => ~micro.v)' /\ (~jmp_lock'.v <=> Held')
  <2>1. CASE micro_hs(ready)
    <3>1. /\ mexec_busy' = takes_time(op)
          /\ unlk' = [fl |-> op.unlk, pulse |-> FALSE]
      BY <2>1, IssueUnits
    <3>2. micro.v /\ ~mexec_busy
      BY <2>1, IssueFacts
    <3>3. op.unlk => takes_time(op) /\ micro.cnt = 0 /\ LocksJump(micro.k)
      BY <1>3 DEF OpOK, takes_time
    <3>4. LocksJump(micro.k) /\ micro.cnt = 0 => op.unlk
      <4>1. micro.k \in AllKinds /\ micro.n = Len(Ops(micro.k)) - micro.cnt /\ Len(Ops(micro.k)) \in Nat
        <5>1. micro.n \in 1 .. 5 /\ micro.cnt \in 0 .. 4 /\ micro.n + micro.cnt = Len(Ops(micro.k)) /\ micro.k \in AllKinds
          BY DEF Types, FrontTypes
        <5>2. micro.n + micro.cnt \in Nat /\ micro.n = (micro.n + micro.cnt) - micro.cnt
          BY <5>1
        <5> QED
          BY <5>1, <5>2
      <4>2. micro.cnt = 0 => micro.n = Len(Ops(micro.k))
        BY <4>1
      <4> QED
        BY <4>1, <4>2, OpsShape DEF op
    <3>5. (mexec_busy' /\ unlk'.fl <=> op.unlk) /\ ~unlk'.pulse
      BY <3>1, <3>3
    <3>6. ~unlk.pulse
      BY <1>6, <3>2
    <3>7. CASE rr_hs(ready)
      <4>1. ~op.unlk
        BY <1>5, <1>6, <3>2, <3>3, <3>7
      <4>2. Held' <=> LocksJump(rr.k)
        BY <1>4, <3>5, <3>7, <4>1
      <4> QED
        BY <1>1, <1>5, <3>5, <3>6, <3>7, <4>1, <4>2
    <3>8. CASE ~rr_hs(ready)
      <4>1. jmp_lock'.v = jmp_lock.v
        BY <1>1, <3>6, <3>8
      <4>2. Held' <=> LocksJump(micro.k)
        BY <1>4, <2>1, <3>3, <3>4, <3>5, <3>8
      <4>3. ~jmp_lock.v <=> LocksJump(micro.k)
        BY <1>6, <3>2, <3>6
      <4>4. op.unlk => ~micro'.v
        BY <1>4, <2>1, <3>3, <3>8
      <4> QED
        BY <3>5, <4>1, <4>2, <4>3, <4>4
    <3> QED
      BY <3>7, <3>8
  <2>2. CASE ~micro_hs(ready)
    <3>1. /\ mexec_busy' = (mexec_busy /\ ~finishes)
          /\ unlk' = [fl |-> unlk.fl, pulse |-> finishes /\ unlk.fl]
      BY <2>2, WaitUnits
    <3>2. finishes => mexec_busy
      BY DEF finishes
    <3>3. (mexec_busy' /\ unlk'.fl) \/ unlk'.pulse <=> mexec_busy /\ unlk.fl
      BY <3>1, <3>2
    <3>4. CASE rr_hs(ready)
      <4>1. ~(mexec_busy /\ unlk.fl) /\ ~unlk.pulse /\ micro'.v /\ micro'.k = rr.k
        BY <1>4, <1>5, <1>6, <3>4
      <4> QED
        BY <1>1, <1>5, <3>3, <3>4, <4>1
    <3>5. CASE ~rr_hs(ready)
      <4>1. micro'.v = micro.v /\ micro'.k = micro.k
        BY <1>4, <2>2, <3>5
      <4>2. CASE unlk.pulse
        <5>1. ~mexec_busy /\ ~micro.v
          BY <1>6, <4>2 DEF UnitsAgree
        <5> QED
          BY <1>1, <3>3, <4>1, <4>2, <5>1
      <4>3. CASE ~unlk.pulse
        BY <1>1, <1>6, <3>3, <3>5, <4>1, <4>3
      <4> QED
        BY <4>2, <4>3
    <3> QED
      BY <3>4, <3>5
  <2> QED
    BY <2>1, <2>2
<1> QED
  BY <1>1, <1>7 DEF JumpLocks

LEMMA RegTypesStep ==
    ASSUME Types, UnitsAgree, WordsInOrder, WordIsAlone, LocksCounted, WaitsOver, Values, JumpLocks,
           NEW ready \in BOOLEAN, NEW answers \in BOOLEAN, NEW offers \in BOOLEAN,
           Clock(ready, answers, offers)
    PROVE  RegTypes'
<1>1. reg' \in [Regs -> [v : BOOLEAN, hs : Nat, val : RealTag]]
  BY LockStep
<1>2. last' \in [Regs -> RealTag]
  BY ValuesStep
<1>3. jmp_lock' \in [v : BOOLEAN, hs : 0 .. 1, val : {None}]
  BY JumpLocksStep
<1>4. wr' \in [Regs -> Tag]
  <2>1. \A r \in Regs : wr'[r] \in Tag
    BY WrittenIs
  <2>2. WriteBack(micro_hs(ready))
    BY DEF Clock
  <2>3. wr' = [r \in Regs |-> wr'[r]]
    BY <2>2 DEF WriteBack
  <2> QED
    BY <2>1, <2>3
<1> QED
  BY <1>1, <1>2, <1>3, <1>4 DEF RegTypes

(* Nothing that has yet to reach memory, the ALU or the slow units appears     *)
(* while no micro-operation leaves.                                         *)
LEMMA StaysEmpty ==
    ASSUME Types, UnitsAgree, Emptied, NEW ready \in BOOLEAN, NEW answers \in BOOLEAN, NEW offers \in BOOLEAN,
           Clock(ready, answers, offers), ~micro_hs(ready)
    PROVE  Emptied' /\ alu_res' = None
<1>1. mem_wait = "no" /\ ~lsu_req.v /\ alu_req = None /\ alu_wait = None /\ slow.st = "idle" /\ slow_res = None
  BY DEF Emptied
<1>2. alu_req' = None /\ alu_wait' = None /\ alu_res' = None /\ mem_wait' = "no"
  BY <1>1, WaitUnits
<1>3. slow' = NoSlow /\ slow_res' = None
  BY <1>1, WaitSlow
<1>4. ~lsu_req'.v
  <2>1. micro_hs(ready) = FALSE
    BY DEF micro_hs, micro_tready
  <2>2. Request(FALSE, ready)
    BY <2>1 DEF Clock
  <2> QED
    BY <1>1, <2>2 DEF Request
<1>5. slow'.st = "idle"
  BY <1>3 DEF NoSlow
<1> QED
  BY <1>2, <1>3, <1>4, <1>5 DEF Emptied

(* No register is written on the edge after one without a result. *)
LEMMA NothingWritten ==
    ASSUME Types, UnitsAgree, WordIsAlone, WaitsOver,
           NEW ready \in BOOLEAN, NEW answers \in BOOLEAN, NEW offers \in BOOLEAN,
           Clock(ready, answers, offers),
           alu_res = None, slow_res = None, awaits => mem_dst.reg = "no", micro_hs(ready) => ~op.flg
    PROVE  wr' = NoWrites
<1>1. ASSUME NEW r \in Regs PROVE wr'[r] = None
  <2>1. r # "no"
    BY DEF Regs
  <2>2. ~Moving(alu_res, r) /\ ~Result(slow_res, r) /\ ~FromMem(r) /\ ~cmd(ready, r)
    BY <2>1 DEF Moving, Result, FromMem, cmd
  <2> QED
    BY <2>2, WrittenIs
<1>2. wr' = [r \in Regs |-> wr'[r]]
  <2>1. WriteBack(micro_hs(ready))
    BY DEF Clock
  <2> QED
    BY <2>1 DEF WriteBack
<1> QED
  BY <1>1, <1>2 DEF NoWrites

(* A jump that is to empty the pipeline has let everything before it       *)
(* finish.                                                                 *)
LEMMA JumpsStep ==
    ASSUME Types, UnitsAgree, WordIsAlone, WaitsOver, Jumps, JumpLocks,
           NEW ready \in BOOLEAN, NEW answers \in BOOLEAN, NEW offers \in BOOLEAN,
           Clock(ready, answers, offers)
    PROVE  Jumps'
<1> DEFINE hs == micro_hs(ready)
           go == hs /\ op.jmp # "no"
<1>1. OpOK(micro.k, op, prev_of(micro.k, micro.n), micro.cnt)
  BY OpHere DEF Types
<1>2. hs \in BOOLEAN /\ JumpStep(hs) /\ ~event_jump
  BY DEF Clock, micro_hs, micro_tready
<1>3. /\ jmp \in [busy : BOOLEAN, mem : BOOLEAN, alu : BOOLEAN, cond : {"no", "always", "cc", "cx", "never"},
                  take : BOOLEAN, v : BOOLEAN, pred : BOOLEAN]
      /\ event_jump \in BOOLEAN /\ (micro.pred => Predicted(micro.k)) /\ op_cnt \in Nat
  BY DEF Types, FrontTypes, UnitTypes
<1>4. /\ jmp.mem => awaits
      /\ jmp.busy => "jmp" \in mexec_wait /\ ~jmp.v
      /\ ~Leaving => ~jmp.take /\ ~jmp.pred
      /\ Leaving /\ (jmp.busy \/ jmp.v) => mexec_busy /\ unlk.fl /\ Emptied /\ (awaits => mem_dst.reg = "no")
      /\ Leaving /\ jmp.busy => (jmp.mem <=> awaits)
      /\ Leaving /\ jmp.v => ~awaits /\ alu_res = None /\ wr = NoWrites
  BY DEF Jumps
<1>5. /\ jmp'.busy <=> (go /\ slow_jump(op)) \/ (jmp.busy /\ ~resolved)
      /\ jmp'.mem <=> (go /\ op.jump_mem) \/ (jmp.mem /\ ~rd_valid)
      /\ jmp'.cond = IF go THEN op.jmp ELSE jmp.cond
      /\ jmp'.take \in taken(go)
      /\ jmp'.v <=> IF go /\ ~under_way THEN op.jmp = "cc" \/ (op.jmp = "always" /\ ~op.jump_mem) ELSE resolved
      /\ jmp'.pred = IF go THEN micro.pred ELSE jmp.pred
      /\ ~jmp.v => event_jump' = event_jump
      /\ jmp.v /\ jmp.pred = jmp.take /\ ~jmp.take => ~event_jump'
  <2>1. /\ \E t \in taken(go) :
            jmp' = [busy |-> IF go /\ slow_jump(op) THEN TRUE ELSE jmp.busy /\ ~resolved,
                    mem  |-> IF go /\ op.jump_mem THEN TRUE ELSE jmp.mem /\ ~rd_valid,
                    alu  |-> IF go THEN op.jmp = "cx" ELSE jmp.alu /\ ~res_valid,
                    cond |-> IF go THEN op.jmp ELSE jmp.cond,
                    take |-> t,
                    v    |-> IF go /\ ~under_way
                             THEN op.jmp = "cc" \/ (op.jmp = "always" /\ ~op.jump_mem)
                             ELSE resolved,
                    pred |-> IF go THEN micro.pred ELSE jmp.pred]
        /\ event_jump' \in IF ~jmp.v THEN {event_jump}
                           ELSE IF jmp.pred # jmp.take THEN {TRUE}
                           ELSE IF jmp.take THEN BOOLEAN ELSE {FALSE}
    BY <1>2 DEF JumpStep
  <2>2. resolved \in BOOLEAN /\ go \in BOOLEAN
    BY <1>2, <1>3 DEF resolved
  <2>3. /\ ~jmp.v => event_jump' = event_jump
        /\ jmp.v /\ jmp.pred = jmp.take /\ ~jmp.take => ~event_jump'
    BY <1>3, <2>1
  <2>4. PICK t \in taken(go) :
            jmp' = [busy |-> IF go /\ slow_jump(op) THEN TRUE ELSE jmp.busy /\ ~resolved,
                    mem  |-> IF go /\ op.jump_mem THEN TRUE ELSE jmp.mem /\ ~rd_valid,
                    alu  |-> IF go THEN op.jmp = "cx" ELSE jmp.alu /\ ~res_valid,
                    cond |-> IF go THEN op.jmp ELSE jmp.cond,
                    take |-> t,
                    v    |-> IF go /\ ~under_way
                             THEN op.jmp = "cc" \/ (op.jmp = "always" /\ ~op.jump_mem)
                             ELSE resolved,
                    pred |-> IF go THEN micro.pred ELSE jmp.pred]
    BY <2>1
  <2> HIDE DEF go, hs
  <2>5. /\ jmp'.busy <=> (go /\ slow_jump(op)) \/ (jmp.busy /\ ~resolved)
        /\ jmp'.mem <=> (go /\ op.jump_mem) \/ (jmp.mem /\ ~rd_valid)
        /\ jmp'.v <=> IF go /\ ~under_way THEN op.jmp = "cc" \/ (op.jmp = "always" /\ ~op.jump_mem) ELSE resolved
    BY <2>2, <2>4
  <2>6. /\ jmp'.cond = IF go THEN op.jmp ELSE jmp.cond
        /\ jmp'.take \in taken(go)
        /\ jmp'.pred = IF go THEN micro.pred ELSE jmp.pred
    BY <2>4
  <2> QED
    BY <2>3, <2>5, <2>6
<1>6. rd_hs <=> rd_valid /\ awaits
  BY DEF rd_hs, awaits
<1> HIDE DEF hs, go
<1>7. CASE hs
  <2>1. ~mexec_busy /\ mexec_wait = {} /\ ~rd_hs /\ slow_res = None /\ slow = NoSlow
    BY <1>7, IssueFacts DEF hs
  <2>2. ~jmp.busy /\ ~awaits /\ ~jmp.mem /\ (Leaving => ~jmp.v) /\ ~resolved
    BY <1>4, <2>1 DEF awaits, resolved
  <2>3. ~event_jump'
    BY <1>2, <1>3, <1>4, <1>5, <2>2
  <2>4. /\ mexec_wait' = waits_for(op) \cup (IF op.jmp # "no" /\ slow_jump(op) THEN {"jmp"} ELSE {})
        /\ alu_wait' = IF op.alu /\ op.mrd THEN <<alu_of>> ELSE None
        /\ alu_req' = IF op.alu /\ ~op.mrd THEN <<alu_of>> ELSE None
        /\ alu_res' = alu_req
        /\ slow' = IF op.slow # "no" THEN slow_of ELSE NoSlow
        /\ slow_res' = None
        /\ mexec_busy' = takes_time(op)
        /\ unlk' = [fl |-> op.unlk, pulse |-> FALSE]
        /\ mem_dst'.reg = op.dest
        /\ mem_wait' = IF op.mem \in {"alu", "slow", "fifo"} THEN op.mem ELSE "no"
        /\ lsu_req'.v = (op.mem \in {"read", "imm"})
    BY <1>7, IssueUnits DEF hs
  <2>5. awaits' <=> op.mrd
    BY <2>4 DEF awaits, waits_for
  <2>6. CASE op.jmp = "no"
    <3>1. ~go
      BY <2>6 DEF go
    <3>2. /\ ~jmp'.busy /\ ~jmp'.mem /\ jmp'.cond = jmp.cond /\ ~jmp'.v /\ jmp'.pred = jmp.pred
      BY <1>5, <2>2, <3>1
    <3>3. taken(go) = {jmp.take}
      BY <2>2, <3>1 DEF taken
    <3> QED
      BY <1>4, <1>5, <2>3, <3>1, <3>2, <3>3 DEF Jumps, Leaving
  <2>7. CASE op.jmp # "no"
    <3>1. go
      BY <1>7, <2>7 DEF go
    <3>2. /\ jmp'.busy <=> slow_jump(op)
          /\ jmp'.mem <=> op.jump_mem
          /\ jmp'.cond = op.jmp /\ jmp'.pred = micro.pred
          /\ jmp'.v <=> ~under_way /\ (op.jmp = "cc" \/ (op.jmp = "always" /\ ~op.jump_mem))
      BY <1>5, <2>2, <3>1
    <3>3. op.jmp = "never" => ~jmp'.take /\ ~jmp'.pred
      <4>1. op.jmp = "never" => taken(go) = {FALSE}
        BY <3>1 DEF taken
      <4>2. op.jmp = "never" => ~micro.pred
        BY <1>1, <1>3 DEF OpOK
      <4> QED
        BY <1>5, <3>2, <4>1, <4>2
    <3>4. /\ jmp'.mem => awaits'
          /\ jmp'.busy => "jmp" \in mexec_wait' /\ ~jmp'.v
      BY <1>1, <2>4, <2>5, <2>7, <3>2 DEF OpOK, slow_jump
    <3>5. op.jmp \in {"always", "cc", "cx"} =>
             /\ mexec_busy' /\ unlk'.fl /\ Emptied' /\ (awaits' => mem_dst'.reg = "no")
             /\ jmp'.mem <=> awaits'
      <4> SUFFICES ASSUME op.jmp \in {"always", "cc", "cx"}
                   PROVE  /\ mexec_busy' /\ unlk'.fl /\ Emptied' /\ (awaits' => mem_dst'.reg = "no")
                          /\ jmp'.mem <=> awaits'
        OBVIOUS
      <4>1. op.unlk /\ ~op.alu /\ op.mem = "no" /\ op.slow = "no" /\ op.dest = "no" /\ (op.mrd <=> op.jump_mem)
        BY <1>1 DEF OpOK
      <4>2. mexec_busy' /\ unlk'.fl /\ mem_wait' = "no" /\ ~lsu_req'.v /\ alu_req' = None /\ alu_wait' = None
        BY <2>4, <2>7, <4>1 DEF takes_time
      <4>3. slow'.st = "idle" /\ slow_res' = None
        BY <2>4, <4>1 DEF NoSlow
      <4> QED
        BY <2>4, <2>5, <3>2, <4>1, <4>2, <4>3 DEF Emptied
    <3>6. jmp'.v => ~awaits' /\ alu_res' = None /\ wr' = NoWrites
      <4> SUFFICES ASSUME jmp'.v PROVE ~awaits' /\ alu_res' = None /\ wr' = NoWrites
        OBVIOUS
      <4>1. op_cnt = 0 /\ alu_req = None
        BY <3>2 DEF under_way, op_inc
      <4>2. alu_res = None
        BY <4>1 DEF UnitsAgree, Bit
      <4>3. ~op.mrd /\ ~op.flg
        BY <1>1, <3>2 DEF OpOK
      <4>4. wr' = NoWrites
        BY <2>1, <2>2, <4>2, <4>3, NothingWritten
      <4> QED
        BY <2>4, <2>5, <4>1, <4>3, <4>4
    <3>7. op.jmp \in {"always", "cc", "cx", "never"}
      BY <1>1, <2>7 DEF OpOK
    <3> QED
      BY <2>3, <3>2, <3>3, <3>4, <3>5, <3>6, <3>7 DEF Jumps, Leaving
  <2> QED
    BY <2>6, <2>7
<1>8. CASE ~hs
  <2>1. ~micro_hs(ready) /\ ~go
    BY <1>8 DEF hs, go
  <2>2. /\ mexec_busy' = (mexec_busy /\ ~finishes)
        /\ mexec_wait' = {u \in mexec_wait : \/ u = "fifo" /\ ~rd_hs
                                             \/ u = "slow" /\ slow_res = None
                                             \/ u = "jmp" /\ ~jmp.v}
        /\ unlk' = [fl |-> unlk.fl, pulse |-> finishes /\ unlk.fl]
        /\ mem_dst' = mem_dst
    BY <2>1, WaitUnits
  <2>3. awaits' <=> awaits /\ ~rd_hs
    BY <2>2 DEF awaits
  <2>4. /\ jmp'.busy <=> jmp.busy /\ ~resolved
        /\ jmp'.mem <=> jmp.mem /\ ~rd_valid
        /\ jmp'.cond = jmp.cond /\ jmp'.pred = jmp.pred
        /\ jmp'.v <=> resolved
    BY <1>5, <2>1
  <2>5. Leaving' <=> Leaving
    BY <2>4 DEF Leaving
  <2>6. ~Leaving => ~jmp'.take /\ ~jmp'.pred /\ ~event_jump'
    <3>1. ~Leaving => taken(go) = {FALSE}
      BY <1>3, <1>4, <2>1 DEF taken, Leaving
    <3> QED
      BY <1>2, <1>3, <1>4, <1>5, <2>4, <3>1
  <2>7. resolved => jmp.busy /\ op_cnt = 0 /\ (jmp.mem <=> rd_valid)
    BY <1>3 DEF resolved, rd_valid
  <2>8. /\ jmp'.mem => awaits'
        /\ jmp'.busy => "jmp" \in mexec_wait' /\ ~jmp'.v
    BY <1>4, <1>6, <2>2, <2>3, <2>4
  <2>9. ASSUME Leaving, jmp.busy
        PROVE  /\ mexec_busy' /\ unlk'.fl /\ Emptied' /\ (awaits' => mem_dst'.reg = "no") /\ (jmp'.mem <=> awaits')
               /\ jmp'.v => ~awaits' /\ alu_res' = None /\ wr' = NoWrites
    <3>1. mexec_busy /\ unlk.fl /\ Emptied /\ (awaits => mem_dst.reg = "no") /\ (jmp.mem <=> awaits)
      BY <1>4, <2>9
    <3>2. ~finishes
      BY <1>4, <2>9 DEF finishes
    <3>3. Emptied' /\ alu_res' = None
      BY <2>1, <3>1, StaysEmpty
    <3>4. jmp'.v => ~awaits' /\ wr' = NoWrites
      <4> SUFFICES ASSUME jmp'.v PROVE ~awaits' /\ wr' = NoWrites
        OBVIOUS
      <4>1. op_cnt = 0 /\ (awaits <=> rd_valid)
        BY <2>4, <2>7, <3>1
      <4>2. alu_res = None /\ slow_res = None
        BY <4>1 DEF UnitsAgree, Bit
      <4>3. wr' = NoWrites
        BY <2>1, <3>1, <4>2, NothingWritten
      <4> QED
        BY <1>6, <2>3, <4>1, <4>3
    <3> QED
      BY <1>6, <2>2, <2>3, <2>4, <3>1, <3>2, <3>3, <3>4
  <2>10. jmp'.busy \/ jmp'.v => jmp.busy
    BY <2>4, <2>7
  <2>11. event_jump' => /\ ~micro'.v /\ mexec_wait' = {} /\ Emptied' /\ alu_res' = None /\ wr' = NoWrites
    <3> SUFFICES ASSUME event_jump'
                 PROVE  ~micro'.v /\ mexec_wait' = {} /\ Emptied' /\ alu_res' = None /\ wr' = NoWrites
      OBVIOUS
    <3>1. jmp.v /\ Leaving
      BY <1>2, <1>5, <2>6
    <3>2. mexec_busy /\ unlk.fl /\ Emptied /\ ~awaits /\ alu_res = None
      BY <1>4, <3>1
    <3>3. ~micro.v /\ ~jmp_lock.v
      BY <3>2 DEF JumpLocks
    <3>4. ~micro'.v
      <4>1. ~rr_hs(ready)
        BY <3>3, FrontMoves
      <4> QED
        BY <2>1, <3>3, <4>1, NextOp
    <3>5. mexec_wait' = {}
      <4>1. "slow" \notin mexec_wait /\ "fifo" \notin mexec_wait
        BY <3>2 DEF UnitsAgree, Emptied, awaits
      <4>2. mexec_wait \subseteq {"fifo", "slow", "jmp"}
        BY DEF Types, UnitTypes
      <4> QED
        BY <2>2, <3>1, <4>1, <4>2
    <3>6. Emptied' /\ alu_res' = None
      BY <2>1, <3>2, StaysEmpty
    <3>7. wr' = NoWrites
      <4>1. slow_res = None
        BY <3>2 DEF Emptied
      <4> QED
        BY <2>1, <3>2, <4>1, NothingWritten
    <3> QED
      BY <3>4, <3>5, <3>6, <3>7
  <2> QED
    BY <2>5, <2>6, <2>8, <2>9, <2>10, <2>11 DEF Jumps
<1> QED
  BY <1>7, <1>8

(* A store that waits for a unit gets that unit's next result.             *)
LEMMA StoresStep ==
    ASSUME Types, UnitsAgree, WordsInOrder, Stores,
           NEW ready \in BOOLEAN, NEW answers \in BOOLEAN, NEW offers \in BOOLEAN,
           Clock(ready, answers, offers)
    PROVE  Stores'
<1> SUFFICES ASSUME "xchgm" \notin family' PROVE CarriedValues'
  BY DEF Stores
<1>0. family' = family
  BY DEF Clock
<1>1. CarriedValues
  BY <1>0 DEF Stores
<1>2. OpOK(micro.k, op, prev_of(micro.k, micro.n), micro.cnt) /\ micro.k \in AllKinds /\ micro.n \in 1 .. Len(Ops(micro.k))
  BY OpHere DEF Types
<1>3. micro.v => micro.k # "xchgm"
  BY <1>0 DEF Types, FrontTypes
<1>4. rr_hs(ready) => ~op'.mrd /\ op'.mem # "alu"
  <2>1. rr_hs(ready) => OpOK(rr.k, op', NOP, micro'.cnt)
    BY NextOp
  <2>2. NOP.mem = "no"
    BY DEF NOP
  <2> QED
    BY <2>1, <2>2 DEF OpOK
<1>5. CASE micro_hs(ready)
  <2>1. micro.v
    BY <1>5 DEF micro_hs
  <2>2. /\ alu_wait' = IF op.alu /\ op.mrd THEN <<alu_of>> ELSE None
        /\ alu_req' = IF op.alu /\ ~op.mrd THEN <<alu_of>> ELSE None
        /\ alu_res' = alu_req
        /\ slow' = IF op.slow # "no" THEN slow_of ELSE NoSlow
        /\ slow_res' = None
        /\ mem_dst' = [reg |-> op.dest,
                       want |-> IF op.mrd THEN <<done, "mem", word_of(micro.k, micro.n)>> ELSE None]
        /\ mem_wait' = IF op.mem \in {"alu", "slow", "fifo"} THEN op.mem ELSE "no"
        /\ lsu_req'.v = (op.mem \in {"read", "imm"})
        /\ lsu_req'.data = own(IF op.mem = "read" THEN "mem" ELSE "imm")
        /\ op.mem # "no" => lsu_req'.want = of(done, StoreData(micro.k, micro.n))
    BY <1>5, IssueUnits
  <2>3. op.mem # "no" => lsu_req'.want = IF op.mem = "fifo" THEN <<done, "mem", micro.n - 1>>
                                         ELSE IF op.mem = "read" THEN <<done, "mem", micro.n>>
                                         ELSE <<done, op.mem, micro.n>>
    <3>1. StoreData(micro.k, micro.n) = IF op.mem = "fifo" THEN <<"mem", micro.n - 1>>
                                        ELSE IF op.mem = "read" THEN <<"mem", micro.n>> ELSE <<op.mem, micro.n>>
      BY <1>2, <1>3, <2>1, StoresAre DEF op
    <3> QED
      BY <2>2, <3>1 DEF of
  <2>4. lsu_req'.v => lsu_req'.data = lsu_req'.want
    BY <2>2, <2>3 DEF own
  <2>5. micro'.v /\ op'.mem = "alu" => alu_req' = None /\ alu_wait' = None
    <3>1. micro'.v /\ op'.mem = "alu" => OpOK(micro.k, op', op, micro'.cnt)
      BY <1>4, <1>5, NextOp
    <3>2. micro'.v /\ op'.mem = "alu" => ~op.alu
      BY <1>3, <2>1, <3>1 DEF OpOK
    <3> QED
      BY <2>2, <3>2
  <2>6. mem_wait' = "alu" => /\ alu_wait' # None \/ alu_req' # None \/ alu_res' # None
                             /\ alu_wait' # None => alu_wait'[1].tag = lsu_req'.want /\ alu_res' = None
                             /\ alu_req' # None => alu_req'[1].tag = lsu_req'.want /\ alu_res' = None
                             /\ alu_res' # None => alu_res'[1].tag = lsu_req'.want
                             /\ slow'.st = "idle" /\ slow_res' = None
    <3> SUFFICES ASSUME mem_wait' = "alu"
                 PROVE  /\ alu_wait' = <<alu_of>> /\ alu_of.tag = lsu_req'.want
                        /\ alu_req' = None /\ alu_res' = None /\ slow'.st = "idle" /\ slow_res' = None
      <4>1. <<alu_of>> # None /\ <<alu_of>>[1] = alu_of
        BY DEF None
      <4> QED
        BY <4>1
    <3>1. op.mem = "alu" /\ op.mrd /\ op.alu /\ op.slow = "no"
      BY <1>2, <2>2 DEF OpOK
    <3>2. alu_req = None
      BY <1>1, <2>1, <3>1 DEF CarriedValues
    <3>3. alu_of.tag = <<done, "alu", micro.n>> /\ NoSlow.st = "idle"
      BY DEF alu_of, own, NoSlow
    <3>4. lsu_req'.want = <<done, "alu", micro.n>>
      BY <2>3, <3>1
    <3> QED
      BY <2>2, <3>1, <3>2, <3>3, <3>4
  <2>7. mem_wait' = "slow" => /\ slow'.st # "idle" => slow'.tag = lsu_req'.want
                              /\ slow_res' # None => slow_res'[1].tag = lsu_req'.want
                              /\ slow'.st # "idle" \/ slow_res' # None
    <3> SUFFICES ASSUME mem_wait' = "slow" PROVE slow'.tag = lsu_req'.want /\ slow_res' = None /\ slow'.st # "idle"
      OBVIOUS
    <3>1. op.mem = "slow" /\ op.slow # "no"
      BY <1>2, <2>2 DEF OpOK
    <3> QED
      BY <2>2, <2>3, <3>1 DEF slow_of, own
  <2>8. mem_wait' = "fifo" => lsu_req'.want = mem_dst'.want
    <3> SUFFICES ASSUME mem_wait' = "fifo" PROVE lsu_req'.want = mem_dst'.want
      OBVIOUS
    <3>1. op.mem = "fifo" /\ op.mrd
      BY <1>2, <2>2 DEF OpOK
    <3>2. word_of(micro.k, micro.n) = micro.n - 1
      BY <1>2, <3>1, WordIsTheLastRead DEF op
    <3> QED
      BY <2>2, <2>3, <3>1, <3>2
  <2> QED
    BY <2>4, <2>5, <2>6, <2>7, <2>8 DEF CarriedValues
<1>6. CASE ~micro_hs(ready)
  <2>1. /\ alu_wait' = IF rd_hs THEN None ELSE alu_wait
        /\ alu_req' = IF rd_hs THEN alu_wait ELSE None
        /\ alu_res' = alu_req
        /\ mem_dst' = mem_dst
        /\ mem_wait' = IF \/ mem_wait = "alu" /\ res_valid
                          \/ mem_wait = "slow" /\ slow_res # None
                          \/ mem_wait = "fifo" /\ rd_hs THEN "no" ELSE mem_wait
        /\ lsu_req'.want = lsu_req.want
    BY <1>6, WaitUnits
  <2>2. micro_hs(ready) = FALSE
    BY <1>6 DEF micro_hs, micro_tready
  <2>3. Request(FALSE, ready)
    BY <2>2 DEF Clock
  <2>4. lsu_req'.v => lsu_req'.data = lsu_req'.want
    <3>1. lsu_req'.data = IF mem_wait = "alu" /\ res_valid THEN alu_res[1].tag
                          ELSE IF mem_wait = "slow" /\ slow_res # None THEN slow_res[1].tag
                          ELSE IF mem_wait = "fifo" /\ rd_valid THEN Head(lsu_rd)
                          ELSE lsu_req.data
      BY <2>3 DEF Request
    <3>2. lsu_req'.v => \/ mem_wait = "alu" /\ res_valid
                        \/ mem_wait = "slow" /\ slow_res # None
                        \/ mem_wait = "fifo" /\ rd_valid
                        \/ lsu_req.v
      BY <2>3 DEF Request
    <3>3. mem_wait = "alu" /\ res_valid => alu_res[1].tag = lsu_req.want
      BY <1>1 DEF CarriedValues, res_valid
    <3>4. mem_wait = "slow" /\ slow_res # None => slow_res[1].tag = lsu_req.want
      BY <1>1 DEF CarriedValues
    <3>5. mem_wait = "fifo" /\ rd_valid => Head(lsu_rd) = lsu_req.want
      <4>1. mem_wait = "fifo" /\ rd_valid => rd_hs
        BY DEF UnitsAgree, awaits, rd_hs
      <4>2. mem_wait = "fifo" => lsu_req.want = mem_dst.want
        BY <1>1 DEF CarriedValues
      <4> QED
        BY <4>1, <4>2, HeadIsWanted
    <3>6. lsu_req.v => mem_wait = "no" /\ lsu_req.data = lsu_req.want
      BY <1>1 DEF CarriedValues, UnitsAgree
    <3> QED
      BY <2>1, <3>1, <3>2, <3>3, <3>4, <3>5, <3>6
  <2>5. micro'.v /\ op'.mem = "alu" => alu_req' = None /\ alu_wait' = None
    <3>1. micro'.v /\ op'.mem = "alu" => micro.v /\ op.mem = "alu"
      BY <1>4, <1>6, NextOp
    <3> QED
      BY <1>1, <2>1, <3>1 DEF CarriedValues
  <2>6. mem_wait' = "alu" => /\ alu_wait' # None \/ alu_req' # None \/ alu_res' # None
                             /\ alu_wait' # None => alu_wait'[1].tag = lsu_req'.want /\ alu_res' = None
                             /\ alu_req' # None => alu_req'[1].tag = lsu_req'.want /\ alu_res' = None
                             /\ alu_res' # None => alu_res'[1].tag = lsu_req'.want
                             /\ slow'.st = "idle" /\ slow_res' = None
    <3> SUFFICES ASSUME mem_wait' = "alu"
                 PROVE  /\ alu_wait' # None \/ alu_req' # None \/ alu_res' # None
                        /\ alu_wait' # None => alu_wait'[1].tag = lsu_req'.want /\ alu_res' = None
                        /\ alu_req' # None => alu_req'[1].tag = lsu_req'.want /\ alu_res' = None
                        /\ alu_res' # None => alu_res'[1].tag = lsu_req'.want
                        /\ slow'.st = "idle" /\ slow_res' = None
      OBVIOUS
    <3>1. mem_wait = "alu" /\ alu_res = None
      BY <2>1 DEF res_valid
    <3>2. slow'.st = "idle" /\ slow_res' = None
      <4>1. slow.st = "idle"
        BY <1>1, <3>1 DEF CarriedValues
      <4>2. slow' = NoSlow /\ slow_res' = None
        BY <1>6, <4>1, WaitSlow
      <4> QED
        BY <4>2 DEF NoSlow
    <3>3. alu_wait # None => alu_req = None
      BY DEF UnitsAgree
    <3>4. /\ alu_wait # None \/ alu_req # None
          /\ alu_wait # None => alu_wait[1].tag = lsu_req.want
          /\ alu_req # None => alu_req[1].tag = lsu_req.want
      BY <1>1, <3>1 DEF CarriedValues
    <3> QED
      BY <2>1, <3>2, <3>3, <3>4
  <2>7. mem_wait' = "slow" => /\ slow'.st # "idle" => slow'.tag = lsu_req'.want
                              /\ slow_res' # None => slow_res'[1].tag = lsu_req'.want
                              /\ slow'.st # "idle" \/ slow_res' # None
    <3> SUFFICES ASSUME mem_wait' = "slow"
                 PROVE  /\ slow'.st # "idle" => slow'.tag = lsu_req'.want
                        /\ slow_res' # None => slow_res'[1].tag = lsu_req'.want
                        /\ slow'.st # "idle" \/ slow_res' # None
      OBVIOUS
    <3>1. mem_wait = "slow" /\ slow_res = None
      BY <2>1
    <3>2. slow.st # "idle" /\ slow.tag = lsu_req.want
      BY <1>1, <3>1 DEF CarriedValues
    <3>3. slow \in [st : {"idle", "fifo", "req", "run"}, unit : {"no", "shf", "mul", "bcd"}, cnt : Nat,
                    tag : Tag, wb : SUBSET {"AX"}]
      BY DEF Types, UnitTypes
    <3>4. /\ slow.st = "fifo" => slow' = [slow EXCEPT !.st = IF rd_hs THEN "req" ELSE "fifo"] /\ slow_res' = None
          /\ slow.st = "req" => \/ \E n \in Nat \ {0} : slow' = [slow EXCEPT !.st = "run", !.cnt = n] /\ slow_res' = None
                                \/ slow' = NoSlow /\ slow_res' = <<[tag |-> slow.tag, wb |-> slow.wb]>>
          /\ slow.st = "run" => \/ slow.cnt # 1 /\ slow' = [slow EXCEPT !.cnt = @ - 1] /\ slow_res' = None
                                \/ slow' = NoSlow /\ slow_res' = <<[tag |-> slow.tag, wb |-> slow.wb]>>
      BY <1>6, WaitSlow
    <3>5. CASE slow' = NoSlow /\ slow_res' = <<[tag |-> slow.tag, wb |-> slow.wb]>>
      BY <2>1, <3>2, <3>5 DEF NoSlow, None
    <3>6. CASE slow'.st # "idle" /\ slow'.tag = slow.tag /\ slow_res' = None
      BY <2>1, <3>2, <3>6
    <3>7. CASE slow.st = "fifo"
      BY <3>3, <3>4, <3>6, <3>7
    <3>8. CASE slow.st = "req"
      BY <3>3, <3>4, <3>5, <3>6, <3>8
    <3>9. CASE slow.st = "run"
      BY <3>3, <3>4, <3>5, <3>6, <3>9
    <3> QED
      BY <3>2, <3>3, <3>7, <3>8, <3>9
  <2>8. mem_wait' = "fifo" => lsu_req'.want = mem_dst'.want
    BY <1>1, <2>1 DEF CarriedValues
  <2> QED
    BY <2>4, <2>5, <2>6, <2>7, <2>8 DEF CarriedValues
<1> QED
  BY <1>5, <1>6

-----------------------------------------------------------------------------
(***************************************************************************)
(* The invariant holds of every behaviour, and what follows from it.       *)
(***************************************************************************)
(* The state after reset, or after a jump has emptied the pipeline: nothing    *)
(* is under way, and the registers hold what was last written to them.        *)
Fresh ==
    /\ family \in Families
    /\ instr = NoInstr /\ rr = NoInstr /\ lock = {}
    /\ reg \in [Regs -> [v : BOOLEAN, hs : Nat, val : RealTag]] /\ \A r \in Regs : reg[r].v /\ reg[r].hs = 0
    /\ jmp_lock = [v |-> TRUE, hs |-> 0, val |-> None]
    /\ micro = NoMicro
    /\ mexec_busy = FALSE /\ mexec_wait = {} /\ unlk = [fl |-> FALSE, pulse |-> FALSE]
    /\ op_cnt = 0 /\ alu_wait = None /\ alu_req = None /\ alu_res = None
    /\ slow = NoSlow /\ slow_res = None
    /\ mem_wait = "no" /\ lsu_req = NoRequest /\ mem_reads = <<>> /\ lsu_rd = <<>>
    /\ mem_dst \in [reg : Regs \cup {"no"}, want : Tag]
    /\ wr = NoWrites /\ flags_src \in {"cmd", "mem", "user"}
    /\ jmp = NoJump /\ event_jump = FALSE
    /\ done \in 0 .. MaxInstr /\ last = [r \in Regs |-> reg[r].val]

(* The invariant holds when nothing is under way: after reset and after a  *)
(* jump has emptied the pipeline.                                          *)
LEMMA FreshInv == Fresh => PipeInv
<1> SUFFICES ASSUME Fresh PROVE PipeInv
  OBVIOUS
<1> USE DEF Fresh
<1>1. NoInstr \in [v : BOOLEAN, k : AllKinds, pred : BOOLEAN] /\ ~NoInstr.v /\ ~NoInstr.pred
  BY DEF NoInstr, AllKinds
<1>2. /\ NoMicro \in [v : BOOLEAN, k : AllKinds, n : 1 .. 5, pred : BOOLEAN, cnt : 0 .. 4, busy : BOOLEAN]
      /\ ~NoMicro.v /\ ~NoMicro.pred /\ NoMicro.cnt = 0 /\ NoMicro.n = 1 /\ NoMicro.k = "nop"
  BY DEF NoMicro, AllKinds
<1>3. Len(Ops("nop")) = 1
  <2>1. Ops("nop") = <<NOP>>
    BY DEF Ops, OpsTable, AllKinds, fast_ops
  <2> QED
    BY <2>1
<1>4. ~awaits /\ ~ToRead /\ ~Reading
  BY <1>2 DEF awaits, ToRead, Reading, NoRequest
<1>5. None \in Tag /\ RealTag \subseteq Tag
  BY RealTags DEF Tag
<1>6. FrontTypes
  <2>1. /\ family \subseteq AllKinds /\ family \in Families
        /\ instr \in [v : BOOLEAN, k : AllKinds, pred : BOOLEAN] /\ rr \in [v : BOOLEAN, k : AllKinds, pred : BOOLEAN]
        /\ micro \in [v : BOOLEAN, k : AllKinds, n : 1 .. 5, pred : BOOLEAN, cnt : 0 .. 4, busy : BOOLEAN]
    BY <1>1, <1>2, ExecuteAssumption
  <2>2. done \in Nat /\ done + Bit(rr.v) + Bit(instr.v) <= MaxInstr
    BY <1>1, ExecuteAssumption DEF Bit
  <2>3. micro.n + micro.cnt = Len(Ops(micro.k))
    BY <1>2, <1>3
  <2> QED
    BY <1>1, <1>2, <2>1, <2>2, <2>3 DEF FrontTypes
<1>7. RegTypes
  <2>1. wr \in [Regs -> Tag]
    BY <1>5 DEF NoWrites
  <2>2. reg \in [Regs -> [v : BOOLEAN, hs : Nat, val : RealTag]]
    OBVIOUS
  <2> QED
    BY <2>1, <2>2 DEF RegTypes
<1>8. UnitTypes
  <2>1. One(alu_wait, AluReq) /\ One(alu_req, AluReq) /\ One(alu_res, AluReq) /\ One(slow_res, SlowRes)
    BY DEF One
  <2>2. slow \in [st : {"idle", "fifo", "req", "run"}, unit : {"no", "shf", "mul", "bcd"}, cnt : Nat,
                  tag : Tag, wb : SUBSET {"AX"}] /\ slow.st = "idle"
    BY <1>5 DEF NoSlow
  <2>3. jmp \in [busy : BOOLEAN, mem : BOOLEAN, alu : BOOLEAN, cond : {"no", "always", "cc", "cx", "never"},
                 take : BOOLEAN, v : BOOLEAN, pred : BOOLEAN]
    BY DEF NoJump
  <2> QED
    BY <2>1, <2>2, <2>3 DEF UnitTypes
<1>9. MemTypes
  <2>1. lsu_req \in [v : BOOLEAN, cmd : {"read", "write"}, data : Tag, want : Tag] /\ ~lsu_req.v
    BY <1>5 DEF NoRequest
  <2>2. lsu_rd \in Seq(RealTag) /\ mem_reads \in Seq([tag : RealTag, old : BOOLEAN])
    OBVIOUS
  <2> QED
    BY <2>1, <2>2 DEF MemTypes
<1>10. UnitsAgree
  BY <1>4 DEF UnitsAgree, NoSlow, Bit
<1>11. WordsInOrder
  <2>1. way = 0
    BY <1>4 DEF way, Bit
  <2> QED
    BY <1>4, <2>1 DEF WordsInOrder, Bit
<1>12. WordIsAlone
  BY <1>2, <1>4 DEF WordIsAlone, Careful
<1>13. ASSUME NEW r \in Regs
       PROVE  Early(r) = 0 /\ ~InMicro(r) /\ ~InReader(r) /\ ~FromMem(r) /\ Flying(r) = reg[r].val
  <2>1. /\ ~Moving(alu_res, r) /\ ~Moving(alu_req, r) /\ ~Moving(alu_wait, r) /\ ~Result(slow_res, r)
        /\ ~InSlow(r) /\ ~FromMem(r) /\ wr[r] = None
    BY <1>4 DEF Moving, Result, InSlow, FromMem, NoSlow, NoWrites
  <2>2. ~InMicro(r) /\ ~InReader(r)
    BY <1>1, <1>2 DEF InMicro, InReader
  <2> QED
    BY <2>1, <2>2 DEF Early, Flying, Bit
<1>14. LocksCounted
  <2>1. \A r \in Regs : reg[r].v /\ reg[r].hs = 0
    OBVIOUS
  <2>2. \A r \in Regs : reg[r].hs + Bit(r \in lock) = Early(r) + Bit(InMicro(r)) + Bit(InReader(r))
    BY <1>13, <2>1 DEF Bit
  <2> QED
    BY <2>1, <2>2 DEF LocksCounted
<1>15. WaitsOver
  BY <1>1, <1>2, <1>4, <1>13 DEF WaitsOver, FromMem
<1>16. Values
  BY <1>13 DEF Values, Latest
<1>17. Jumps
  BY DEF Jumps, Leaving, NoJump
<1>18. JumpLocks
  BY <1>2 DEF JumpLocks
<1>19. Stores
  BY <1>2 DEF Stores, CarriedValues, NoRequest
<1> QED
  BY <1>6, <1>7, <1>8, <1>9, <1>10, <1>11, <1>12, <1>14, <1>15, <1>16, <1>17, <1>18, <1>19 DEF PipeInv, Types

LEMMA InitFresh == Init => Fresh
<1> SUFFICES ASSUME Init PROVE Fresh
  OBVIOUS
<1>1. <<0, "init", 0>> \in RealTag
  BY ExecuteAssumption DEF RealTag
<1>2. reg \in [Regs -> [v : BOOLEAN, hs : Nat, val : RealTag]] /\ \A r \in Regs : reg[r].v /\ reg[r].hs = 0
  BY <1>1 DEF Init
<1>3. mem_dst \in [reg : Regs \cup {"no"}, want : Tag]
  BY DEF Init, Tag
<1>4. last = [r \in Regs |-> reg[r].val]
  BY DEF Init
<1>5. 0 \in 0 .. MaxInstr
  BY ExecuteAssumption
<1> QED
  BY <1>2, <1>3, <1>4, <1>5 DEF Init, Fresh

LEMMA FlushFresh ==
    ASSUME PipeInv, Flush
    PROVE  Fresh'
<1>1. event_jump /\ Types /\ UnitsAgree /\ WordsInOrder /\ Values /\ Jumps
  BY DEF PipeInv, Flush
<1>2. ~micro.v /\ mexec_wait = {} /\ Emptied /\ alu_res = None /\ wr = NoWrites
  BY <1>1 DEF Jumps
<1>3. ~awaits /\ ~ToRead /\ ~lsu_req.v
  BY <1>2 DEF awaits, ToRead, Emptied
<1>4. lsu_rd = <<>> /\ mem_reads = <<>>
  <2>1. way = 0
    BY <1>1, <1>3 DEF WordsInOrder, Bit
  <2>2. Len(lsu_rd) \in Nat /\ Len(mem_reads) \in Nat /\ lsu_rd \in Seq(RealTag) /\ mem_reads \in Seq([tag : RealTag, old : BOOLEAN])
    BY <1>1 DEF Types, MemTypes
  <2>3. Len(lsu_rd) = 0 /\ Len(mem_reads) = 0
    BY <1>3, <2>1, <2>2 DEF way, Bit, Reading
  <2> QED
    BY <2>2, <2>3, EmptySeq
<1>5. lsu_rd' = <<>> /\ mem_reads' = <<>>
  <2>1. PICK answers \in BOOLEAN : Memory(TRUE, answers)
    BY DEF Flush
  <2>2. MemTypes
    BY <1>1 DEF Types
  <2>3. ~(Reading /\ TRUE) /\ ~rd_hs
    BY <1>3 DEF Reading, rd_hs, awaits
  <2>4. /\ lsu_rd' = (IF rd_hs THEN Tail(lsu_rd) ELSE lsu_rd)
        /\ mem_reads' = <<>>
    BY <1>4, <2>1, <2>2, <2>3, MemoryEdge
  <2> QED
    BY <1>4, <2>3, <2>4
<1>6. \A r \in Regs : last[r] = reg[r].val
  <2> SUFFICES ASSUME NEW r \in Regs PROVE last[r] = reg[r].val
    OBVIOUS
  <2>1. /\ ~Moving(alu_res, r) /\ ~Moving(alu_req, r) /\ ~Moving(alu_wait, r) /\ ~Result(slow_res, r)
        /\ ~InSlow(r) /\ ~FromMem(r) /\ wr[r] = None /\ ~InMicro(r)
    BY <1>2, <1>3 DEF Emptied, Moving, Result, InSlow, FromMem, NoWrites, InMicro
  <2> QED
    BY <1>1, <2>1 DEF Values, Latest, Flying
<1>7. /\ reg \in [Regs -> [v : BOOLEAN, hs : Nat, val : RealTag]] /\ last \in [Regs -> RealTag]
      /\ mem_dst \in [reg : Regs \cup {"no"}, want : Tag] /\ flags_src \in {"cmd", "mem", "user"}
      /\ family \in Families
  BY <1>1 DEF Types, FrontTypes, RegTypes, UnitTypes, MemTypes
<1>8. done \in 0 .. MaxInstr
  BY <1>1, ExecuteAssumption DEF Types, FrontTypes, Bit
<1>9. /\ reg' \in [Regs -> [v : BOOLEAN, hs : Nat, val : RealTag]] /\ \A r \in Regs : reg'[r].v /\ reg'[r].hs = 0
      /\ \A r \in Regs : reg'[r].val = reg[r].val
  BY <1>7 DEF Flush
<1>10. last' = [r \in Regs |-> reg'[r].val]
  BY <1>6, <1>7, <1>9 DEF Flush
<1> QED
  BY <1>5, <1>7, <1>8, <1>9, <1>10 DEF Flush, Fresh

(* Every edge keeps the invariant.                                         *)
LEMMA ClockStep ==
    ASSUME PipeInv, NEW ready \in BOOLEAN, NEW answers \in BOOLEAN, NEW offers \in BOOLEAN,
           Clock(ready, answers, offers)
    PROVE  PipeInv'
<1> USE DEF PipeInv
<1>1. FrontTypes'
  BY FrontStep
<1>2. RegTypes'
  BY RegTypesStep
<1>3. UnitTypes'
  BY UnitTypesStep
<1>4. MemTypes'
  BY MemTypesStep
<1>5. UnitsAgree'
  BY UnitsStep
<1>6. WordsInOrder'
  BY WordsStep
<1>7. WordIsAlone'
  BY AloneStep
<1>8. LocksCounted'
  BY LockStep
<1>9. WaitsOver'
  BY WaitsStep
<1>10. Values'
  BY ValuesStep
<1>11. Jumps'
  BY JumpsStep
<1>12. JumpLocks'
  BY JumpLocksStep
<1>13. Stores'
  BY StoresStep
<1> QED
  BY <1>1, <1>2, <1>3, <1>4, <1>5, <1>6, <1>7, <1>8, <1>9, <1>10, <1>11, <1>12, <1>13 DEF Types

LEMMA StutterStep ==
    ASSUME PipeInv, UNCHANGED vars
    PROVE  PipeInv'
<1> USE DEF PipeInv, vars, front, unit_vars
<1>1. Types'
  BY DEF Types, FrontTypes, RegTypes, UnitTypes, MemTypes
<1>2. awaits' = awaits /\ Reading' = Reading /\ ToRead' = ToRead /\ op' = op
  BY DEF awaits, Reading, ToRead, op
<1>3. UnitsAgree'
  BY <1>2 DEF UnitsAgree
<1>4. WordsInOrder'
  <2>1. way' = way
    BY <1>2 DEF way
  <2>2. \A i \in 1 .. way : word(i)' = word(i) /\ awaited(i)' = awaited(i)
    BY <1>2 DEF word, awaited
  <2> QED
    BY <1>2, <2>1, <2>2 DEF WordsInOrder
<1>5. WordIsAlone'
  BY <1>2 DEF WordIsAlone, Careful
<1>6. \A r \in Regs : /\ Early(r)' = Early(r) /\ InMicro(r)' = InMicro(r) /\ InReader(r)' = InReader(r)
                      /\ FromMem(r)' = FromMem(r) /\ Latest(r)' = Latest(r)
  BY <1>2 DEF Early, InMicro, InReader, FromMem, Latest, Flying, Moving, Result, InSlow
<1>7. LocksCounted'
  BY <1>6 DEF LocksCounted
<1>8. Values'
  BY <1>6 DEF Values
<1>11. WaitsOver'
  <2>1. /\ rr.v => rr.k \in AllKinds
        /\ micro.v => micro.k \in AllKinds
    BY DEF Types, FrontTypes
  <2>2. "FL" \in Regs
    BY DEF Regs
  <2>3. (rr.v => \A r \in Waits(rr.k) : Early(r) = 0 /\ ~InMicro(r))'
    BY <1>6, <2>1, WaitsAreRegs DEF WaitsOver
  <2>4. (micro.v => \A r \in Waits(micro.k) \ Behind(micro.k, micro.n) : Early(r) = 0)'
    BY <1>6, <2>1, WaitsAreRegs DEF WaitsOver
  <2>5. (\A r \in Regs : FromMem(r) => Early(r) = 1)' /\ (FromMem("FL") => flags_src = "mem")'
    BY <1>6, <2>2 DEF WaitsOver
  <2> QED
    BY <2>3, <2>4, <2>5 DEF WaitsOver
<1>9. Jumps' /\ JumpLocks'
  BY <1>2 DEF Jumps, JumpLocks, Leaving, Emptied
<1>10. Stores'
  BY <1>2 DEF Stores, CarriedValues
<1> QED
  BY <1>1, <1>3, <1>4, <1>5, <1>7, <1>8, <1>9, <1>10, <1>11

(* In every behaviour, for every program, the locks of a register count    *)
(* its writes under way, the value of its last writer is under way to it,  *)
(* and words and results come where they are awaited: the invariant that   *)
(* the theorems below follow from. (cpu86_exec_register_reader.vhd,        *)
(* cpu86_exec_ifeu.vhd, cpu86_exec_mexec.vhd)                              *)
THEOREM PipelineKeepsOrder == Spec => []PipeInv
<1>1. Init => PipeInv
  BY InitFresh, FreshInv
<1>2. PipeInv /\ [Next]_vars => PipeInv'
  <2> SUFFICES ASSUME PipeInv, [Next]_vars PROVE PipeInv'
    OBVIOUS
  <2>1. CASE UNCHANGED vars
    BY <2>1, StutterStep
  <2>2. CASE Flush
    <3>1. Fresh'
      BY <2>2, FlushFresh
    <3>2. Fresh' => PipeInv'
      BY FreshInv, PTL
    <3> QED
      BY <3>1, <3>2
  <2>3. CASE \E ready, answers, offers \in BOOLEAN : Clock(ready, answers, offers)
    BY <2>3, ClockStep
  <2> QED
    BY <2>1, <2>2, <2>3 DEF Next
<1> QED
  BY <1>1, <1>2, PTL DEF Spec

(* Nothing is under way to a register that is unlocked, and what the register *)
(* holds is the value of its last writer.                                    *)
LEMMA ValidIsCurrent ==
    ASSUME PipeInv, NEW r \in Regs, Early(r) = 0, ~InMicro(r)
    PROVE  reg[r].val = last[r]
<1>1. last[r] = Flying(r)
  BY DEF PipeInv, Values, Latest
<1> QED
  BY <1>1, EarlyIs DEF Flying

(* At most four writes to one register are in the units, so that hs_cnt    *)
(* never exceeds six.                                                      *)
LEMMA UnitsBound ==
    ASSUME Types, UnitsAgree, NEW r
    PROVE  Early(r) <= 4
<1>1. Bit(Moving(alu_req, r)) + Bit(Result(slow_res, r)) + Bit(Moving(alu_wait, r)) + Bit(InSlow(r)) <= 1
  <2>1. Moving(alu_req, r) => ~Result(slow_res, r) /\ ~Moving(alu_wait, r) /\ ~InSlow(r)
    BY DEF UnitsAgree, Moving, Result, InSlow
  <2>2. Result(slow_res, r) => ~Moving(alu_wait, r) /\ ~InSlow(r)
    BY DEF UnitsAgree, Moving, Result, InSlow
  <2>3. Moving(alu_wait, r) => ~InSlow(r)
    BY DEF UnitsAgree, Moving, InSlow
  <2> QED
    BY <2>1, <2>2, <2>3 DEF Bit
<1> QED
  BY <1>1 DEF Early, Bit

(* The invariant gives the properties.                                     *)
LEMMA InvTypes == PipeInv => TypeOK
<1> SUFFICES ASSUME PipeInv PROVE TypeOK
  OBVIOUS
<1>1. Types /\ UnitsAgree /\ WordsInOrder /\ LocksCounted
  BY DEF PipeInv
<1>2. \A r \in Regs : reg[r].hs \in 0 .. 7
  <2> SUFFICES ASSUME NEW r \in Regs PROVE reg[r].hs \in 0 .. 7
    OBVIOUS
  <2>1. reg[r].hs \in Nat
    BY <1>1 DEF Types, RegTypes
  <2>2. reg[r].hs + Bit(r \in lock) = Early(r) + Bit(InMicro(r)) + Bit(InReader(r))
    BY <1>1 DEF LocksCounted
  <2>3. Early(r) \in Nat /\ Early(r) <= 4
    BY <1>1, EarlyIs, UnitsBound
  <2> QED
    BY <2>1, <2>2, <2>3 DEF Bit
<1>3. reg \in [Regs -> [v : BOOLEAN, hs : 0 .. 7, val : Tag]]
  <2>1. reg \in [Regs -> [v : BOOLEAN, hs : Nat, val : RealTag]] /\ RealTag \subseteq Tag
    BY <1>1, RealTags DEF Types, RegTypes
  <2>2. \A r \in Regs : reg[r] \in [v : BOOLEAN, hs : 0 .. 7, val : Tag]
    <3> SUFFICES ASSUME NEW r \in Regs PROVE reg[r] \in [v : BOOLEAN, hs : 0 .. 7, val : Tag]
      OBVIOUS
    <3>1. reg[r] \in [v : BOOLEAN, hs : Nat, val : RealTag]
      BY <2>1
    <3>2. reg[r] = [v |-> reg[r].v, hs |-> reg[r].hs, val |-> reg[r].val] /\ reg[r].v \in BOOLEAN /\ reg[r].val \in RealTag
      BY <3>1, Zenon
    <3> QED
      BY <1>2, <2>1, <3>2, Zenon
  <2> QED
    BY <2>1, <2>2
<1>4. micro.n \in 1 .. Len(Ops(micro.k)) /\ micro.cnt \in 0 .. 4
  BY <1>1, OpHere DEF Types, FrontTypes
<1>5. op_cnt \in 0 .. 2
  BY <1>1 DEF UnitsAgree, Bit
<1>6. Len(mem_reads) + Len(lsu_rd) <= 2
  <2>1. Len(lsu_rd) \in Nat /\ Len(mem_reads) \in Nat
    BY <1>1 DEF Types, MemTypes
  <2>2. Len(lsu_rd) + Len(mem_reads) + Bit(Reading) = Bit(awaits) + Bit(ToRead)
    BY <1>1 DEF WordsInOrder, way
  <2> QED
    BY <2>1, <2>2 DEF Bit
<1>7. done \in 0 .. MaxInstr
  BY <1>1, ExecuteAssumption DEF Types, FrontTypes, Bit
<1>8. last \in [Regs -> Tag] /\ lsu_req.data \in Tag
  BY <1>1, RealTags DEF Types, RegTypes, MemTypes
<1>9. /\ family \in Families /\ instr.k \in AllKinds /\ rr.k \in AllKinds /\ lock \subseteq Regs
      /\ jmp_lock \in [v : BOOLEAN, hs : 0 .. 1, val : {None}]
      /\ mexec_wait \subseteq {"fifo", "slow", "jmp"}
      /\ mem_wait \in {"no", "alu", "slow", "fifo"}
      /\ wr \in [Regs -> Tag] /\ event_jump \in BOOLEAN
  BY <1>1 DEF Types, FrontTypes, RegTypes, UnitTypes, MemTypes
<1> QED
  BY <1>3, <1>4, <1>5, <1>6, <1>7, <1>8, <1>9 DEF TypeOK

LEMMA InvOperands == PipeInv => OperandsAreCurrent
<1> SUFFICES ASSUME PipeInv PROVE OperandsAreCurrent
  OBVIOUS
<1>1. Types /\ UnitsAgree /\ WordsInOrder /\ LocksCounted /\ WaitsOver
  BY DEF PipeInv
<1>2. ASSUME instr.v, hazards_resolved(instr.k), NEW r \in Waits(instr.k)
      PROVE  reg[r].val = Expected(r)
  <2>1. r \in Regs
    BY <1>1, WaitsAreRegs DEF Types, FrontTypes
  <2>2. reg[r].v /\ r \notin lock
    BY <1>2 DEF hazards_resolved
  <2>3. 0 = Early(r) + Bit(InMicro(r)) + Bit(InReader(r)) /\ Early(r) \in Nat
    BY <1>1, <2>1, <2>2, EarlyIs DEF LocksCounted, Bit
  <2>4. Early(r) = 0 /\ ~InMicro(r) /\ ~InReader(r)
    BY <2>3 DEF Bit
  <2> QED
    BY <2>1, <2>4, ValidIsCurrent DEF Expected, InReader
<1>3. rd_hs => Head(lsu_rd) = mem_dst.want
  BY <1>1, HeadIsWanted
<1>4. ASSUME micro_hs(TRUE), micro.k = "jcc" PROVE reg["FL"].val = last["FL"]
  <2>1. micro.v
    BY <1>4 DEF micro_hs
  <2>2. micro.k \in AllKinds /\ micro.n \in 1 .. Len(Ops(micro.k)) /\ "FL" \in Regs
    BY <1>1, OpHere DEF Types, Regs
  <2>3. "FL" \in Waits(micro.k) /\ \A s \in 1 .. Len(Ops(micro.k)) : "FL" \notin Writes(Ops(micro.k)[s])
    <3>1. "FL" \in Waits(micro.k) /\ Locks(micro.k) = {} /\ ~Fast(micro.k)
      BY <1>4, <2>2, LocksAreAhead DEF Fast
    <3>2. Ahead(micro.k, 1) = {}
      BY <2>2, <3>1, LocksAreAhead
    <3>3. Len(Ops(micro.k)) \in 1 .. 5
      BY <2>2, OpsShape
    <3> QED
      BY <2>2, <3>1, <3>2, <3>3 DEF Ahead
  <2>4. "FL" \notin Behind(micro.k, micro.n) /\ ~InMicro("FL")
    BY <2>2, <2>3 DEF Behind, InMicro, Ahead
  <2>5. Early("FL") = 0
    BY <1>1, <2>1, <2>3, <2>4 DEF WaitsOver
  <2> QED
    BY <2>2, <2>4, <2>5, ValidIsCurrent
<1> QED
  BY <1>2, <1>3, <1>4, InvTypes DEF OperandsAreCurrent

LEMMA OneFlagsWriter == PipeInv => Cardinality(flags_writers) <= 1
<1> SUFFICES ASSUME PipeInv PROVE Cardinality(flags_writers) <= 1
  OBVIOUS
<1>1. Types /\ UnitsAgree /\ WaitsOver
  BY DEF PipeInv
<1>2. flags_users \subseteq {"alu", "slow"}
  BY DEF flags_users
<1>3. /\ "alu" \in flags_users => alu_res # None /\ Moving(alu_res, "FL")
      /\ "slow" \in flags_users => slow_res # None
  BY DEF flags_users, results, res_valid, Moving
<1>4. /\ Moving(alu_res, "FL") => slow_res = None
      /\ slow_res # None => ~micro_hs(TRUE) /\ alu_res = None
      /\ micro_hs(TRUE) /\ (op.flg \/ op.dest = "FL") => ~Moving(alu_res, "FL")
  BY <1>1, OneWriter DEF Regs
<1>5. PICK x \in {"alu", "slow", "op"} : flags_writers \subseteq {x}
  BY <1>2, <1>3, <1>4 DEF flags_writers
<1>6. flags_writers = {} \/ flags_writers = {x}
  BY <1>5
<1>7. Cardinality({}) = 0 /\ Cardinality({x}) = 1
  BY FS_EmptySet, FS_Singleton
<1>8. Cardinality(flags_writers) \in {0, 1}
  BY <1>6, <1>7
<1> QED
  BY <1>8

LEMMA NoWords ==
    ASSUME PipeInv, ~awaits, ~micro.v
    PROVE  mem_reads = <<>> /\ lsu_rd = <<>>
<1>1. Types /\ WordsInOrder
  BY DEF PipeInv
<1>2. Len(lsu_rd) \in Nat /\ Len(mem_reads) \in Nat /\ lsu_rd \in Seq(RealTag) /\ mem_reads \in Seq([tag : RealTag, old : BOOLEAN])
  BY <1>1 DEF Types, MemTypes
<1>3. Len(lsu_rd) = 0 /\ Len(mem_reads) = 0
  BY <1>1, <1>2 DEF WordsInOrder, way, ToRead, Bit
<1> QED
  BY <1>2, <1>3, EmptySeq

LEMMA InvQuiet ==
    ASSUME PipeInv, Quiet
    PROVE  /\ \A r \in Regs : reg[r] = [v |-> TRUE, hs |-> 0, val |-> last[r]]
           /\ jmp_lock.v /\ op_cnt = 0 /\ mem_reads = <<>> /\ lsu_rd = <<>>
<1>1. Types /\ UnitsAgree /\ LocksCounted /\ JumpLocks
  BY DEF PipeInv
<1>2. /\ ~rr.v /\ lock = {} /\ ~micro.v /\ ~mexec_busy /\ ~unlk.pulse /\ ~event_jump
      /\ alu_req = None /\ alu_res = None /\ slow.st = "idle" /\ slow_res = None /\ wr = NoWrites
  BY DEF Quiet, NoSlow
<1>3. ~awaits /\ alu_wait = None
  BY <1>1, <1>2 DEF UnitsAgree, awaits
<1>4. ASSUME NEW r \in Regs PROVE reg[r] = [v |-> TRUE, hs |-> 0, val |-> last[r]]
  <2>1. ~InMicro(r) /\ ~InReader(r) /\ Early(r) = 0
    BY <1>2, <1>3, EarlyIs DEF InMicro, InReader, Moving, Result, InSlow, FromMem, NoWrites
  <2>2. reg[r] \in [v : BOOLEAN, hs : Nat, val : RealTag]
    BY <1>1 DEF Types, RegTypes
  <2>3. reg[r].hs = 0 /\ reg[r].v
    BY <1>1, <1>2, <2>1, <2>2 DEF LocksCounted, Bit
  <2>4. reg[r].val = last[r]
    BY <2>1, ValidIsCurrent
  <2> QED
    BY <2>2, <2>3, <2>4
<1>5. jmp_lock.v
  BY <1>1, <1>2 DEF JumpLocks
<1>6. op_cnt = 0
  BY <1>1, <1>2 DEF UnitsAgree, Bit
<1> QED
  BY <1>2, <1>3, <1>4, <1>5, <1>6, NoWords

LEMMA InvJump == PipeInv => JumpLosesNothing
<1> SUFFICES ASSUME PipeInv, event_jump
             PROVE  /\ \A r \in Regs : reg[r].val = last[r]
                    /\ wr = NoWrites /\ ~micro.v /\ op_cnt = 0 /\ alu_req = None /\ slow = NoSlow
                    /\ mem_wait = "no" /\ ~lsu_req.v /\ mem_reads = <<>> /\ lsu_rd = <<>>
  BY DEF JumpLosesNothing
<1>1. Types /\ UnitsAgree /\ Jumps
  BY DEF PipeInv
<1>2. ~micro.v /\ mexec_wait = {} /\ Emptied /\ alu_res = None /\ wr = NoWrites
  BY <1>1 DEF Jumps
<1>3. ~awaits
  BY <1>2 DEF awaits
<1>4. ASSUME NEW r \in Regs PROVE reg[r].val = last[r]
  <2>1. ~InMicro(r) /\ Early(r) = 0
    BY <1>2, <1>3, EarlyIs DEF Emptied, InMicro, Moving, Result, InSlow, FromMem, NoWrites
  <2> QED
    BY <2>1, ValidIsCurrent
<1>5. op_cnt = 0 /\ slow = NoSlow
  BY <1>1, <1>2 DEF UnitsAgree, Emptied, Bit
<1> QED
  BY <1>2, <1>3, <1>4, <1>5, NoWords DEF Emptied

LEMMA InvLoss == PipeInv => NothingIsLost
  BY OneFlagsWriter, InvQuiet, InvJump DEF NothingIsLost, AllWritesArrive

LEMMA InvStores ==
    ASSUME \A f \in Families : "xchgm" \notin f
    PROVE  PipeInv => StoreCarriesItsValue
  BY DEF PipeInv, Types, FrontTypes, Stores, CarriedValues, StoreCarriesItsValue

(* An instruction leaves the queue with the values that the instructions   *)
(* before it left in its registers; the word that mexec takes is the one   *)
(* it asked for; a conditional jump looks at the flags of the last writer. *)
(* No register has more writes under way than hs_cnt can count. For every  *)
(* program of these kinds, every number of instructions and every delay of *)
(* memory and units. (hazards_resolved in cpu86_exec_register_reader.vhd,  *)
(* cpu86_exec_reg.vhd)                                                     *)
THEOREM OperandsCurrent == Spec => []OperandsAreCurrent
  BY PipelineKeepsOrder, InvOperands, PTL

(* No two units write the flags on one edge; when the pipeline has come to *)
(* rest every register is unlocked with the value of its last writer and   *)
(* no word is left over; and a jump empties the pipeline only when all     *)
(* that came before it has reached the registers and memory.               *)
(* (cpu86_exec_mexec.vhd: flags writes, jumps)                             *)
THEOREM NothingLost == Spec => []NothingIsLost
  BY PipelineKeepsOrder, InvLoss, PTL

(* A store carries the value that its own micro-operation computes, in     *)
(* every program without XCHG of a register with memory: that one may      *)
(* store the word it has just read, as run ExecuteXchg shows. (the waits   *)
(* of the store and its request in cpu86_exec_mexec.vhd)                   *)
THEOREM StoresCarry ==
    ASSUME \A f \in Families : "xchgm" \notin f
    PROVE  Spec => []StoreCarriesItsValue
  BY PipelineKeepsOrder, InvStores, PTL
=============================================================================
