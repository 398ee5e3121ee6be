----------------------------- MODULE E8086Control -----------------------------
(***************************************************************************)
(* The control transfers, ports and remaining instructions of the          *)
(* reference processor (opcodes.c and e80186.c of                          *)
(* tbs/cpu86/golden_ref/e8086), and the table that finds an instruction by *)
(* its first byte.                                                         *)
(***************************************************************************)
EXTENDS E8086Arith

-----------------------------------------------------------------------------
(***************************************************************************)
(* Jumps, calls and returns.                                               *)
(***************************************************************************)
\* Jcc: a jump by a signed byte from the next instruction.
ShortIf(c, taken) ==
  IF taken THEN Goto(c, c.ip + 2 + ImmSx(c, 1)) ELSE Ret(c, 2)

op_70_77(c) ==
  LET x  == c.pq[0] % 8
      is == CASE x \div 2 = 0 -> Flag(c, FO) [] x \div 2 = 1 -> Flag(c, FC)
              [] x \div 2 = 2 -> Flag(c, FZ)
              [] x \div 2 = 3 -> Flag(c, FZ) \/ Flag(c, FC)
  IN  ShortIf(c, is = (x % 2 = 0))

\* mutant: JL and JGE look at the sign alone.
op_78_7f_signOnly(c) ==
  LET x  == c.pq[0] % 8
      is == CASE x \div 2 = 0 -> Flag(c, FS) [] x \div 2 = 1 -> Flag(c, FP)
              [] x \div 2 = 2 -> Flag(c, FS)
              [] x \div 2 = 3 -> Flag(c, FS) # Flag(c, FO) \/ Flag(c, FZ)
  IN  ShortIf(c, is = (x % 2 = 0))

op_78_7f(c) ==
  LET x  == c.pq[0] % 8
      is == CASE x \div 2 = 0 -> Flag(c, FS) [] x \div 2 = 1 -> Flag(c, FP)
              [] x \div 2 = 2 -> Flag(c, FS) # Flag(c, FO)
              [] x \div 2 = 3 -> Flag(c, FS) # Flag(c, FO) \/ Flag(c, FZ)
  IN  ShortIf(c, is = (x % 2 = 0))

\* LOOPNZ, LOOPZ, LOOP count first; JCXZ only looks.
op_e0_e3(c) ==
  LET d  == IF c.pq[0] = 227 THEN c ELSE CountDown(c)
      cx == d.dreg[CX]
  IN  ShortIf(d, CASE c.pq[0] = 224 -> cx # 0 /\ ~Flag(d, FZ)
                   [] c.pq[0] = 225 -> cx # 0 /\ Flag(d, FZ)
                   [] c.pq[0] = 226 -> cx # 0
                   [] c.pq[0] = 227 -> cx = 0)

\* RET and RET imm16.
op_c2_c3(c) ==
  LET d == SetIp(pop(c), Top(c))
  IN  Goto(IF c.pq[0] = 195 THEN d ELSE SetR16(d, SP, d.dreg[SP] + ImmW(c, 1)), d.ip)

\* RETF and RETF imm16.
op_ca_cb(c) ==
  LET d == pop(c)
      e == pop(d)
  IN  FarGoto(IF c.pq[0] = 203 THEN e ELSE SetR16(e, SP, e.dreg[SP] + ImmW(c, 1)),
              Top(d), Top(c))

\* The software interrupts return behind themselves.
TrapAfter(c, n, len) == Ret(trap(SetIp(c, c.ip + len), n), 0)

op_cc_ce(c) ==
  CASE c.pq[0] = 204 -> TrapAfter(c, 3, 1)
    [] c.pq[0] = 205 -> TrapAfter(c, ImmB(c, 1), 2)
    [] c.pq[0] = 206 -> IF Flag(c, FO) THEN TrapAfter(c, 4, 1) ELSE Ret(c, 1)

\* IRET: all sixteen bits of the flags come from the stack.
op_cf(c) ==
  LET d == pop(c)
      e == pop(d)
  IN  FarGoto(SetFlags(pop(e), Top(e)), Top(d), Top(c))

\* CALL rel16, JMP rel16, JMP seg:ofs, JMP rel8.
op_e8_eb(c) ==
  LET near == c.ip + 3 + ImmW(c, 1)
  IN  CASE c.pq[0] = 232 -> Goto(push(c, (c.ip + 3) % Word), near)
        [] c.pq[0] = 233 -> Goto(c, near)
        [] c.pq[0] = 234 -> FarGoto(c, ImmW(c, 3), ImmW(c, 1))
        [] c.pq[0] = 235 -> ShortIf(c, TRUE)

-----------------------------------------------------------------------------
(***************************************************************************)
(* FE and FF.                                                              *)
(***************************************************************************)
IncDecEa(c, M) ==
  LET e == Ea(c)
      r == IF RegField(c) = 0 THEN add(c.flg, M, GetEa(c, M, e), 1)
                              ELSE sub(c.flg, M, GetEa(c, M, e), 1)
  IN  Ret(SetFlags(SetEa(c, M, e, r.d), KeepCarry(c.flg, r.flg)), e.cnt + 1)

op_fe(c) == IF RegField(c) <= 1 THEN IncDecEa(c, Byte) ELSE op_ud(c)

op_ff_00_01(c) == IncDecEa(c, Word)

\* CALL r/m16: the target is read after the return address is pushed.
op_ff_02(c) ==
  LET e == Ea(c)
      d == push(c, (c.ip + e.cnt + 1) % Word)
  IN  Goto(d, GetEa(d, Word, e))

\* CALL m32; with a register operand it does nothing.
op_ff_03(c) ==
  LET e == Ea(c)
      d == push(push(c, c.sreg[CS]), (c.ip + e.cnt + 1) % Word)
  IN  IF e.is_mem
      THEN FarGoto(d, Mem16(d, e.seg, e.ofs + 2), Mem16(d, e.seg, e.ofs))
      ELSE Ret(c, e.cnt + 1)

\* JMP r/m16 and JMP m32.
op_ff_04_05(c) ==
  LET e == Ea(c)
  IN  IF RegField(c) = 4 THEN Goto(c, GetEa(c, Word, e))
      ELSE IF e.is_mem
           THEN FarGoto(c, Mem16(c, e.seg, e.ofs + 2), Mem16(c, e.seg, e.ofs))
           ELSE Ret(c, e.cnt + 1)

op_ff_06(c) ==
  LET e == Ea(c)
      v == IF e.is_mem THEN GetEa(c, Word, e) ELSE Pushed(c, e.ofs) % Word
  IN  Ret(push(c, v), e.cnt + 1)

op_ff(c) ==
  LET xop == RegField(c)
  IN  CASE xop \in {0, 1} -> op_ff_00_01(c) [] xop = 2 -> op_ff_02(c)
        [] xop = 3 -> op_ff_03(c) [] xop \in {4, 5} -> op_ff_04_05(c)
        [] xop = 6 -> op_ff_06(c) [] xop = 7 -> op_ud(c)

-----------------------------------------------------------------------------
(***************************************************************************)
(* Ports, flags and the halt.                                              *)
(***************************************************************************)
InPort(c, M, port)  == SetReg(c, M, AX, Prt(c, M, port))

OutPort(c, M, port) == SetPrt(c, port, Reg(c, M, AX))

op_e4_e7(c) ==
  LET M == Width(c.pq[0])
  IN  Ret(IF c.pq[0] < 230 THEN InPort(c, M, ImmB(c, 1))
                           ELSE OutPort(c, M, ImmB(c, 1)), 2)

op_ec_ef(c) ==
  LET M == Width(c.pq[0])
  IN  Ret(IF c.pq[0] < 238 THEN InPort(c, M, c.dreg[DX])
                           ELSE OutPort(c, M, c.dreg[DX]), 1)

op_f4_f5(c) ==
  Ret(IF c.pq[0] = 244 THEN [c EXCEPT !.state = HALT]
      ELSE SetFlag(c, FC, ~Flag(c, FC)), 1)

\* CLC, STC, CLI, STI, CLD, STD.
op_f8_fd(c) ==
  LET x == c.pq[0] - 248
  IN  Ret(SetFlag(c, CASE x \div 2 = 0 -> FC [] x \div 2 = 1 -> FI
                       [] x \div 2 = 2 -> FD, x % 2 = 1), 1)

\* INS and OUTS do the whole repetition in one call.
ins(c, M)  == StepDi(SetMem(c, M, c.sreg[ES], c.dreg[DI], Prt(c, M, c.dreg[DX])), M)

outs(c, M) == StepSi(SetPrt(c, c.dreg[DX], AtSi(c, M)), M)

RECURSIVE ins_whileCx(_, _), outs_whileCx(_, _)
ins_whileCx(c, M) ==
  IF c.dreg[CX] = 0 THEN c ELSE ins_whileCx(CountDown(ins(c, M)), M)
outs_whileCx(c, M) ==
  IF c.dreg[CX] = 0 THEN c ELSE outs_whileCx(CountDown(outs(c, M)), M)

op_6c_6d(c) ==
  LET M == Width(c.pq[0])
  IN  Ret(IF Repeats(c) THEN ins_whileCx(c, M) ELSE ins(c, M), 1)

op_6e_6f(c) ==
  LET M == Width(c.pq[0])
  IN  Ret(IF Repeats(c) THEN outs_whileCx(c, M) ELSE outs(c, M), 1)

-----------------------------------------------------------------------------
(***************************************************************************)
(* The stack frames of the 80186.                                          *)
(***************************************************************************)
op_60(c) ==
  LET after(d, x) == push(d, IF x = SP THEN c.dreg[SP] ELSE d.dreg[x])
      d4 == after(after(after(after(c, AX), CX), DX), BX)
  IN  Ret(after(after(after(after(d4, SP), BP), SI), DI), 1)

op_61(c) ==
  LET after(d, x) == SetR16(pop(d), x, Top(d))
      d4 == pop(after(after(after(c, DI), SI), BP))
  IN  Ret(after(after(after(after(d4, BX), DX), CX), AX), 1)

\* BOUND: the upper bound is two below the first index that traps.
op_62(c) ==
  LET e  == Ea(c)
      s1 == Signed(Word, c.dreg[RegField(c)])
      lo == Signed(Word, Mem16(c, e.seg, e.ofs))
      hi == Signed(Word, Mem16(c, e.seg, e.ofs + 2))
  IN  IF e.is_mem /\ s1 \notin lo .. hi + 2 THEN Ret(trap(c, 5), 0)
      ELSE Ret(c, e.cnt + 1)

op_68(c) == Ret(push(c, ImmW(c, 1)), 3)

op_6a(c) == Ret(push(c, ImmSx(c, 1) % Word), 2)

\* ENTER: the display of an outer level is read at BP, with the offset of
\* the new frame as its segment.
op_c8(c) ==
  LET d     == push(c, c.dreg[BP])
      tmp   == d.dreg[SP]
      level == c.pq[3] % 32
      shown[i \in 0 .. level] ==
        IF i <= 1 THEN d
        ELSE push(shown[i - 1], Mem16(shown[i - 1], tmp, d.dreg[BP] - 2 * (i - 1)))
      e     == IF level > 0 THEN push(shown[level], tmp) ELSE d
  IN  Ret(SetR16(SetR16(e, BP, tmp), SP, tmp - ImmW(c, 1)), 4)

op_c9(c) ==
  LET d == SetR16(c, SP, c.dreg[BP]) IN Ret(SetR16(pop(d), BP, Top(d)), 1)

-----------------------------------------------------------------------------
(***************************************************************************)
(* op[]: the table of e86_opcodes with the entries of e86_set_80186.       *)
(***************************************************************************)
\* The instructions the 80186 adds, by opcode.
Added == {96, 97, 98, 104, 105, 106, 107, 108, 109, 110, 111, 192, 193, 200, 201}

op_80186(c) ==
  LET b == c.pq[0]
  IN  CASE b = 96 -> op_60(c) [] b = 97 -> op_61(c) [] b = 98 -> op_62(c)
        [] b = 104 -> op_68(c) [] b = 105 -> op_69(c) [] b = 106 -> op_6a(c)
        [] b = 107 -> op_6b(c) [] b \in {108, 109} -> op_6c_6d(c)
        [] b \in {110, 111} -> op_6e_6f(c) [] b = 192 -> op_c0(c)
        [] b = 193 -> op_c1(c) [] b = 200 -> op_c8(c) [] b = 201 -> op_c9(c)

\* 00-3F: eight rows of six forms and two single bytes.
op_00_3f(c) ==
  LET row == c.pq[0] \div 8
      x   == c.pq[0] % 8
  IN  CASE row = 0 /\ x < 6 -> op_00_05(c) [] row = 0 /\ x > 5 -> op_06_07(c)
        [] row = 1 /\ x < 6 -> op_08_0d(c) [] row = 1 /\ x > 5 -> op_0e_0f(c)
        [] row = 2 /\ x < 6 -> op_10_15(c) [] row = 2 /\ x > 5 -> op_16_17(c)
        [] row = 3 /\ x < 6 -> op_18_1d(c) [] row = 3 /\ x > 5 -> op_1e_1f(c)
        [] row = 4 /\ x < 6 -> op_20_25(c) [] row = 5 /\ x < 6 -> op_28_2d(c)
        [] row = 6 /\ x < 6 -> op_30_35(c) [] row = 7 /\ x < 6 -> op_38_3d(c)
        [] c.pq[0] = 38 -> op_26(c) [] c.pq[0] = 39 -> op_27(c)
        [] c.pq[0] = 46 -> op_2e(c) [] c.pq[0] = 47 -> op_2f(c)
        [] c.pq[0] = 54 -> op_36(c) [] c.pq[0] = 55 -> op_37(c)
        [] c.pq[0] = 62 -> op_3e(c) [] c.pq[0] = 63 -> op_3f(c)

op_40_9f(c) ==
  LET b == c.pq[0]
  IN  CASE b \in 64 .. 79 -> op_40_48(c) [] b \in 80 .. 87 -> op_50(c)
        [] b \in 88 .. 95 -> op_58(c) [] b = 102 -> op_66(c)
        [] b \in 112 .. 119 -> op_70_77(c) [] b \in 120 .. 127 -> op_78_7f(c)
        [] b \in {128, 130} -> op_80(c) [] b = 129 -> op_81(c)
        [] b = 131 -> op_83(c) [] b \in {132, 133} -> op_84_85(c)
        [] b \in {134, 135} -> op_86_87(c) [] b \in 136 .. 139 -> op_88_8b(c)
        [] b = 140 -> op_8c(c) [] b = 141 -> op_8d(c) [] b = 142 -> op_8e(c)
        [] b = 143 -> op_8f(c) [] b \in 144 .. 151 -> op_90(c)
        [] b = 152 -> op_98(c) [] b = 153 -> op_99(c) [] b = 154 -> op_9a(c)
        [] b \in 155 .. 157 -> op_9b_9d(c) [] b \in {158, 159} -> op_9e_9f(c)
        [] OTHER -> op_ud(c)

op_a0_df(c) ==
  LET b == c.pq[0]
  IN  CASE b \in 160 .. 163 -> op_a0_a3(c) [] b \in {164, 165} -> op_a4_a5(c)
        [] b \in {166, 167} -> op_a6_a7(c) [] b \in {168, 169} -> op_a8_a9(c)
        [] b \in {170, 171} -> op_aa_ab(c) [] b \in {172, 173} -> op_ac_ad(c)
        [] b \in {174, 175} -> op_ae_af(c) [] b \in 176 .. 191 -> op_b0_bf(c)
        [] b \in {194, 195} -> op_c2_c3(c) [] b \in {196, 197} -> op_c4_c5(c)
        [] b \in {198, 199} -> op_c6_c7(c) [] b \in {202, 203} -> op_ca_cb(c)
        [] b \in 204 .. 206 -> op_cc_ce(c) [] b = 207 -> op_cf(c)
        [] b = 208 -> op_d0(c) [] b = 209 -> op_d1(c) [] b = 210 -> op_d2(c)
        [] b = 211 -> op_d3(c) [] b = 212 -> op_d4(c) [] b = 213 -> op_d5(c)
        [] b = 214 -> op_d6(c) [] b = 215 -> op_d7(c) [] b \in 216 .. 223 -> op_d8(c)

op_e0_ff(c) ==
  LET b == c.pq[0]
  IN  CASE b \in 224 .. 227 -> op_e0_e3(c) [] b \in 228 .. 231 -> op_e4_e7(c)
        [] b \in 232 .. 235 -> op_e8_eb(c) [] b \in 236 .. 239 -> op_ec_ef(c)
        [] b \in {240, 242, 243} -> op_f0_f3(c) [] b = 241 -> op_ud(c)
        [] b \in {244, 245} -> op_f4_f5(c) [] b = 246 -> op_f6(c)
        [] b = 247 -> op_f7(c) [] b \in 248 .. 253 -> op_f8_fd(c)
        [] b = 254 -> op_fe(c) [] b = 255 -> op_ff(c)

op(c) ==
  CASE c.pq[0] \in Added      -> op_80186(c)
    [] c.pq[0] < 64           -> op_00_3f(c)
    [] c.pq[0] \in (64 .. 159) \ Added  -> op_40_9f(c)
    [] c.pq[0] \in (160 .. 223) \ Added -> op_a0_df(c)
    [] c.pq[0] > 223          -> op_e0_ff(c)
===============================================================================
