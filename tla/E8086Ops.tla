------------------------------- MODULE E8086Ops -------------------------------
(***************************************************************************)
(* The instructions of the reference processor                             *)
(* (tbs/cpu86/golden_ref/e8086/opcodes.c), named after the functions of    *)
(* the code; op_a_b stands for the functions of opcodes a to b.  Each is   *)
(* applied with its first byte in c.pq[0] and yields [cpu, cnt]: the       *)
(* processor after it and the value the function returns, by which IP is   *)
(* to advance (0 when the instruction has set IP itself).                  *)
(*                                                                         *)
(* Where the code repeats one pattern over operand forms and widths, the   *)
(* pattern is an operator and each family an application of it.            *)
(***************************************************************************)
EXTENDS E8086Machine

Ret(c, n) == [cpu |-> c, cnt |-> n]

\* Even opcodes work on bytes, odd ones on words.
Width(op) == IF op % 2 = 0 THEN Byte ELSE Word

Bytes(M) == IF M = Byte THEN 1 ELSE 2

Bits(M) == 8 * Bytes(M)

SetFlags(c, flg) == [c EXCEPT !.flg = flg]

\* A jump within the segment empties the queue.
Goto(c, ip) == Ret(pq_init(SetIp(c, ip)), 0)

FarGoto(c, seg, ip) == Goto(SetSreg(c, CS, seg), ip)

\* INC and DEC leave the carry alone.
KeepCarry(old, new) == Put(new, FC, Has(old, FC))

op_ud(c) == Ret(trap(c, 6), 0)

\* The frame holds the address of the division itself.
divide_error(c) == Ret(trap(c, 0), 0)

-----------------------------------------------------------------------------
(***************************************************************************)
(* The eight operations of 00-3D, 80, 81 and 83 on a and b.                *)
(***************************************************************************)
Res(d, flg) == [d |-> d, flg |-> flg]

add(f, M, a, b)  == Res(a + b, set_flg_add(f, M, a, b, 0))
adc(f, M, a, b)  == LET cf == Bit(Has(f, FC))
                    IN  Res(a + b + cf, set_flg_add(f, M, a, b, cf))
sub(f, M, a, b)  == Res(a - b, set_flg_sub(f, M, a, b, 0))
sbb(f, M, a, b)  == LET cf == Bit(Has(f, FC))
                    IN  Res(a - b - cf, set_flg_sub(f, M, a, b, cf))
or(f, M, a, b)   == Res(OrW(a, b), set_flg_log(f, M, OrW(a, b)))
and(f, M, a, b)  == Res(AndW(a, b), set_flg_log(f, M, AndW(a, b)))
xor(f, M, a, b)  == Res(XorW(a, b), set_flg_log(f, M, XorW(a, b)))

Alu(n, f, M, a, b) ==
  CASE n = 0 -> add(f, M, a, b) [] n = 1 -> or(f, M, a, b)
    [] n = 2 -> adc(f, M, a, b) [] n = 3 -> sbb(f, M, a, b)
    [] n = 4 -> and(f, M, a, b) [] n = 5 -> sub(f, M, a, b)
    [] n = 6 -> xor(f, M, a, b) [] n = 7 -> sub(f, M, a, b)

\* The six operand forms of operation n: r/m, reg; reg, r/m; accumulator,
\* immediate.  A comparison keeps the flags only.
AluForms(c, n) ==
  LET form == (c.pq[0] % 8) \div 2
      M    == Width(c.pq[0])
      e    == Ea(c)
      reg  == Reg(c, M, RegField(c))
      to(r, x) == IF n = 7 THEN SetFlags(c, r.flg) ELSE SetReg(SetFlags(c, r.flg), M, x, r.d)
      toEa(r)  == IF n = 7 THEN SetFlags(c, r.flg) ELSE SetEa(SetFlags(c, r.flg), M, e, r.d)
  IN  CASE form = 0 -> Ret(toEa(Alu(n, c.flg, M, GetEa(c, M, e), reg)), e.cnt + 1)
        [] form = 1 -> Ret(to(Alu(n, c.flg, M, reg, GetEa(c, M, e)), RegField(c)), e.cnt + 1)
        [] form = 2 -> Ret(to(Alu(n, c.flg, M, Reg(c, M, AX), Imm(c, M, 1)), AX), 1 + Bytes(M))

op_00_05(c) == AluForms(c, 0)
op_08_0d(c) == AluForms(c, 1)
op_10_15(c) == AluForms(c, 2)
op_18_1d(c) == AluForms(c, 3)
op_20_25(c) == AluForms(c, 4)
op_28_2d(c) == AluForms(c, 5)
op_30_35(c) == AluForms(c, 6)
op_38_3d(c) == AluForms(c, 7)

\* 80, 81, 83: r/m with the immediate b of n bytes.
AluImmediate(c, M, b, n) ==
  LET e == Ea(c)
      r == Alu(RegField(c), c.flg, M, GetEa(c, M, e), b)
      d == SetFlags(c, r.flg)
  IN  Ret(IF RegField(c) = 7 THEN d ELSE SetEa(d, M, e, r.d), e.cnt + 1 + n)

op_80(c) == AluImmediate(c, Byte, ImmB(c, Ea(c).cnt + 1), 1)
op_81(c) == AluImmediate(c, Word, ImmW(c, Ea(c).cnt + 1), 2)
op_83(c) == AluImmediate(c, Word, ImmSx(c, Ea(c).cnt + 1) % Word, 1)

-----------------------------------------------------------------------------
(***************************************************************************)
(* Segment registers on the stack, and prefixes.                           *)
(***************************************************************************)
PushPopSreg(c, s) ==
  Ret(IF c.pq[0] % 2 = 0 THEN push(c, c.sreg[s]) ELSE SetSreg(pop(c), s, Top(c)), 1)

op_06_07(c) == PushPopSreg(c, ES)

\* POP CS empties the queue and then counts its own byte.
op_0e_0f(c) ==
  LET r == PushPopSreg(c, CS)
  IN  IF c.pq[0] = 14 THEN r ELSE Ret(pq_init(r.cpu), 1)

\* mutant: the shield is forgotten.
Shielded_not(c) == c

\* No interrupt is taken right after the stack segment changes.
Shielded(c) == [c EXCEPT !.save_flags = Put(@, FI, FALSE)]

op_16_17(c) ==
  LET r == PushPopSreg(c, SS)
  IN  IF c.pq[0] = 22 THEN r ELSE Ret(Shielded(r.cpu), 1)

op_1e_1f(c) == PushPopSreg(c, DS)

WithPrefix(c, names) == [c EXCEPT !.prefix = @ \cup {"NEW"} \cup names]

SegPrefix(c, s) ==
  Ret(WithPrefix([c EXCEPT !.seg_override = c.sreg[s]], {"SEG"}), 1)

op_26(c) == SegPrefix(c, ES)
op_2e(c) == SegPrefix(c, CS)
op_36(c) == SegPrefix(c, SS)
op_3e(c) == SegPrefix(c, DS)

op_f0_f3(c) ==
  Ret(WithPrefix(c, CASE c.pq[0] = 240 -> {"LOCK"}
                      [] c.pq[0] = 242 -> {"REPN"} [] c.pq[0] = 243 -> {"REP"}), 1)

\* mutant: the half carry of the operation before is not looked at.
Adjust_digitOnly(c, by) ==
  LET low  == Lo(c.dreg[AX]) % 16 > 9
      al1  == Lo(c.dreg[AX]) + by * (IF low THEN 6 ELSE 0)
      cf   == Flag(c, FC) \/ al1 \notin 0 .. 255
      high == Lo(al1) \div 16 > 9 \/ cf
      al   == al1 + by * (IF high THEN 96 ELSE 0)
      f    == Put(Put(c.flg, FA, low), FC, high)
  IN  Ret(SetFlags(SetR8(c, AX, al), set_flg_szp(f, Byte, al)), 1)

\* DAA and DAS: by is +1 or -1.  A low digit that crosses zero is a carry of
\* the byte, too.
Adjust(c, by) ==
  LET low  == Lo(c.dreg[AX]) % 16 > 9 \/ Flag(c, FA)
      al1  == Lo(c.dreg[AX]) + by * (IF low THEN 6 ELSE 0)
      cf   == Flag(c, FC) \/ al1 \notin 0 .. 255
      high == Lo(al1) \div 16 > 9 \/ cf
      al   == al1 + by * (IF high THEN 96 ELSE 0)
      f    == Put(Put(c.flg, FA, low), FC, high)
  IN  Ret(SetFlags(SetR8(c, AX, al), set_flg_szp(f, Byte, al)), 1)

op_27(c) == Adjust(c, 1)
op_2f(c) == Adjust(c, -1)

\* AAA and AAS.
AsciiAdjust(c, by) ==
  LET over == Lo(c.dreg[AX]) % 16 > 9 \/ Flag(c, FA)
      k    == by * Bit(over)
      ax   == Pair(Lo(Hi(c.dreg[AX]) + k), (Lo(c.dreg[AX]) + 6 * k) % 16)
  IN  Ret(SetFlags(SetR16(c, AX, ax), Put(Put(c.flg, FA, over), FC, over)), 1)

op_37(c) == AsciiAdjust(c, 1)
op_3f(c) == AsciiAdjust(c, -1)

\* AAM: the quotient and remainder of AL by the immediate.
op_d4(c) ==
  LET div == ImmB(c, 1)
      al  == Lo(c.dreg[AX])
      d   == Pair(al \div div, al % div)
  IN  IF div = 0 THEN Ret(trap(c, 0), 0)
      ELSE Ret(SetFlags(SetR16(c, AX, d), set_flg_szp(c.flg, Word, d)), 2)

\* AAD: the flags are those of the sum before it is cut to a byte.
op_d5(c) ==
  LET d == ImmB(c, 1) * Hi(c.dreg[AX]) + Lo(c.dreg[AX])
  IN  Ret(SetFlags(SetR16(c, AX, Lo(d)), set_flg_szp(c.flg, Word, d)), 2)

-----------------------------------------------------------------------------
(***************************************************************************)
(* Registers, moves and the stack.                                         *)
(***************************************************************************)
\* INC and DEC of a register.
op_40_48(c) ==
  LET x == c.pq[0] % 8
      r == IF c.pq[0] < 72 THEN add(c.flg, Word, c.dreg[x], 1)
                           ELSE sub(c.flg, Word, c.dreg[x], 1)
  IN  Ret(SetFlags(SetR16(c, x, r.d), KeepCarry(c.flg, r.flg)), 1)

\* PUSH SP pushes the value SP has after the push.
Pushed(c, x) == IF x = SP THEN c.dreg[SP] - 2 ELSE c.dreg[x]

op_50(c) == Ret(push(c, Pushed(c, c.pq[0] % 8) % Word), 1)

op_58(c) == Ret(SetR16(pop(c), c.pq[0] % 8, Top(c)), 1)

\* 66 66 xx xx calls a hook, which is NULL.
op_66(c) == IF c.pq[1] # 102 THEN op_ud(c) ELSE Ret(c, 4)

Test(c, M, a, b, n) == Ret(SetFlags(c, set_flg_log(c.flg, M, AndW(a, b))), n)

op_84_85(c) ==
  LET M == Width(c.pq[0])
      e == Ea(c)
  IN  Test(c, M, GetEa(c, M, e), Reg(c, M, RegField(c)), e.cnt + 1)

\* XCHG: the memory operand is written first, then the register.
op_86_87(c) ==
  LET M == Width(c.pq[0])
      e == Ea(c)
      d == SetEa(c, M, e, Reg(c, M, RegField(c)))
  IN  Ret(SetReg(d, M, RegField(c), GetEa(c, M, e)), e.cnt + 1)

\* MOV between r/m and a register.
op_88_8b(c) ==
  LET M == Width(c.pq[0])
      e == Ea(c)
  IN  Ret(IF c.pq[0] < 138 THEN SetEa(c, M, e, Reg(c, M, RegField(c)))
                           ELSE SetReg(c, M, RegField(c), GetEa(c, M, e)),
          e.cnt + 1)

op_8c(c) ==
  LET e == Ea(c) IN Ret(SetEa(c, Word, e, c.sreg[RegField(c) % 4]), e.cnt + 1)

op_8d(c) ==
  LET e == Ea(c)
  IN  IF e.is_mem THEN Ret(SetR16(c, RegField(c), e.ofs), e.cnt + 1) ELSE op_ud(c)

op_8e(c) ==
  LET e == Ea(c)
      s == RegField(c) % 4
      d == SetSreg(c, s, GetEa(c, Word, e))
  IN  Ret(CASE s = CS -> pq_init(d) [] s = SS -> Shielded(d) [] OTHER -> d, e.cnt + 1)

\* POP r/m16: the address is formed before SP moves.
op_8f(c) == LET e == Ea(c) IN Ret(SetEa(pop(c), Word, e, Top(c)), e.cnt + 1)

op_90(c) ==
  LET x == c.pq[0] % 8
  IN  Ret(SetR16(SetR16(c, AX, c.dreg[x]), x, c.dreg[AX]), 1)

op_98(c) == Ret(SetR16(c, AX, Signed(Byte, Lo(c.dreg[AX]))), 1)

op_99(c) == Ret(SetR16(c, DX, IF Msb(Word, c.dreg[AX]) THEN 65535 ELSE 0), 1)

\* CALL seg:ofs.
op_9a(c) ==
  FarGoto(push(push(c, c.sreg[CS]), (c.ip + 5) % Word), ImmW(c, 3), ImmW(c, 1))

\* The flags as PUSHF and POPF pass them: & 0x0fd5 | 0xf002.
PlainFlags(f) == AndW(f, 4053) + 61442

op_9b_9d(c) ==
  CASE c.pq[0] = 155 -> Ret(c, 1)
    [] c.pq[0] = 156 -> Ret(push(c, PlainFlags(c.flg)), 1)
    [] c.pq[0] = 157 -> Ret(SetFlags(pop(c), PlainFlags(Top(c))), 1)

\* SAHF and LAHF: & 0xd5 | 0x02.
op_9e_9f(c) ==
  IF c.pq[0] = 158
  THEN Ret(SetFlags(c, Pair(Hi(c.flg), AndW(Hi(c.dreg[AX]), 213) + 2)), 1)
  ELSE Ret(SetR8(c, AH, AndW(c.flg, 213) + 2), 1)

\* MOV between the accumulator and an absolute address.
op_a0_a3(c) ==
  LET M   == Width(c.pq[0])
      seg == GetSeg(c, DS)
  IN  Ret(IF c.pq[0] < 162 THEN SetReg(c, M, AX, Mem(c, M, seg, ImmW(c, 1)))
          ELSE SetMem(c, M, seg, ImmW(c, 1), Reg(c, M, AX)), 3)

op_a8_a9(c) ==
  LET M == Width(c.pq[0])
  IN  Test(c, M, Reg(c, M, AX), Imm(c, M, 1), 1 + Bytes(M))

op_b0_bf(c) ==
  LET M == IF c.pq[0] < 184 THEN Byte ELSE Word
  IN  Ret(SetReg(c, M, c.pq[0] % 8, Imm(c, M, 1)), 1 + Bytes(M))

\* LES and LDS; with a register operand they do nothing.
op_c4_c5(c) ==
  LET e == Ea(c)
      d == SetSreg(SetR16(c, RegField(c), Mem16(c, e.seg, e.ofs)),
                   IF c.pq[0] = 196 THEN ES ELSE DS, Mem16(c, e.seg, e.ofs + 2))
  IN  Ret(IF e.is_mem THEN d ELSE c, e.cnt + 1)

\* mutant: the immediate word is taken for a byte when IP advances.
op_c6_c7_countsByte(c) ==
  LET M == Width(c.pq[0])
      e == Ea(c)
  IN  Ret(SetEa(c, M, e, Imm(c, M, e.cnt + 1)), e.cnt + 2)

op_c6_c7(c) ==
  LET M == Width(c.pq[0])
      e == Ea(c)
  IN  Ret(SetEa(c, M, e, Imm(c, M, e.cnt + 1)), e.cnt + 1 + Bytes(M))

op_d6(c) == Ret(SetR8(c, AX, -Carry(c)), 1)

op_d7(c) ==
  LET ofs == c.dreg[BX] + Lo(c.dreg[AX])
  IN  Ret(SetR8(c, AX, Mem(c, Byte, GetSeg(c, DS), ofs)), 1)

\* ESC only decodes its operand.
op_d8(c) == Ret(c, 1 + Ea(c).cnt)

-----------------------------------------------------------------------------
(***************************************************************************)
(* String instructions.  One call does one element; while a repetition is  *)
(* not finished it returns 0 and leaves KEEP, so that it is called again.  *)
(***************************************************************************)
Next1(c, M) == IF Flag(c, FD) THEN 0 - Bytes(M) ELSE Bytes(M)

StepSi(c, M) == SetR16(c, SI, c.dreg[SI] + Next1(c, M))

StepDi(c, M) == SetR16(c, DI, c.dreg[DI] + Next1(c, M))

AtSi(c, M) == Mem(c, M, GetSeg(c, DS), c.dreg[SI])

AtDi(c, M) == Mem(c, M, c.sreg[ES], c.dreg[DI])

movs(c, M) ==
  StepDi(StepSi(SetMem(c, M, c.sreg[ES], c.dreg[DI], AtSi(c, M)), M), M)

cmps(c, M) ==
  SetFlags(StepDi(StepSi(c, M), M), set_flg_sub(c.flg, M, AtSi(c, M), AtDi(c, M), 0))

stos(c, M) == StepDi(SetMem(c, M, c.sreg[ES], c.dreg[DI], Reg(c, M, AX)), M)

lods(c, M) == StepSi(SetReg(c, M, AX, AtSi(c, M)), M)

scas(c, M) ==
  SetFlags(StepDi(c, M), set_flg_sub(c.flg, M, Reg(c, M, AX), AtDi(c, M), 0))

Repeats(c) == c.prefix \cap {"REP", "REPN"} # {}

CountDown(c) == SetR16(c, CX, c.dreg[CX] - 1)

\* mutant: an unfinished repetition is taken for finished once CX is 1.
Ends_early(d, compares) ==
  \/ d.dreg[CX] <= 1
  \/ compares /\ Flag(d, FZ) # ("REP" \in d.prefix)

\* A repetition ends with CX, or, compares, when ZF is not as the prefix
\* wants it.
Ends(d, compares) ==
  \/ d.dreg[CX] = 0
  \/ compares /\ Flag(d, FZ) # ("REP" \in d.prefix)

\* One element, after which the processor is once.
StringOp(c, once, compares) ==
  LET d == IF c.dreg[CX] = 0 THEN c ELSE CountDown(once)
  IN  IF ~Repeats(c) THEN Ret(once, 1)
      ELSE IF Ends(d, compares) THEN Ret([d EXCEPT !.prefix = @ \ {"KEEP"}], 1)
      ELSE Ret([d EXCEPT !.prefix = @ \cup {"KEEP"}], 0)

op_a4_a5(c) == StringOp(c, movs(c, Width(c.pq[0])), FALSE)
op_a6_a7(c) == StringOp(c, cmps(c, Width(c.pq[0])), TRUE)
op_aa_ab(c) == StringOp(c, stos(c, Width(c.pq[0])), FALSE)
op_ac_ad(c) == StringOp(c, lods(c, Width(c.pq[0])), FALSE)
op_ae_af(c) == StringOp(c, scas(c, Width(c.pq[0])), TRUE)
===============================================================================
