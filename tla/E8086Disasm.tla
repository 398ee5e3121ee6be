----------------------------- MODULE E8086Disasm -----------------------------
(***************************************************************************)
(* The disassembler of the reference processor                             *)
(* (tbs/cpu86/golden_ref/e8086/disasm.c), by which the bench names each    *)
(* instruction before it is executed.  It decodes on its own, from the     *)
(* bytes at CS:IP: here, how many bytes it takes (dat_n), where it says a  *)
(* jump leads (the number it prints as the operand), its flags, and the    *)
(* segment prefix that is still looking for an operand (seg).  The text is *)
(* left out.                                                               *)
(***************************************************************************)
EXTENDS E8086Machine

NoTarget == -1

\* One disassembled instruction.
Dis(n, seg, flags) == [dat_n |-> n, seg |-> seg, flags |-> flags, target |-> NoTarget]

Branch(n, seg, flags, t) == [Dis(n, seg, flags) EXCEPT !.target = t % Word]

\* disasm_ea: the bytes of ModRM and displacement.
disasm_ea(src, i) ==
  LET mod == src[i] \div 64
  IN  CASE mod = 0 -> IF src[i] % 8 = 6 THEN 3 ELSE 1
        [] mod = 1 -> 2 [] mod = 2 -> 3 [] mod = 3 -> 1

\* A memory operand prints the segment prefix and so uses it up.
EaSeg(src, i, seg) == IF src[i] \div 64 = 3 THEN seg ELSE 0

dop_ud(seg) == Dis(1, seg, {})

\* dop_ea8_reg8 .. dop_ea16: an opcode with ModRM and n more bytes.
dop_ea(src, i, seg, n, flags) ==
  Dis(1 + disasm_ea(src, i + 1) + n, EaSeg(src, i + 1, seg), flags)

\* Four forms with ModRM, two with an immediate, two single bytes; also the
\* segment prefixes and adjustments share the last column.
DopRow(src, i, seg) ==
  LET x == src[i] % 8
  IN  CASE x < 4 -> dop_ea(src, i, seg, 0, {})
        [] x = 4 -> Dis(2, seg, {}) [] x = 5 -> Dis(3, seg, {})
        [] x > 5 -> Dis(1, seg, {})

dop_00_0f(src, i, seg) == DopRow(src, i, seg)
dop_10_1f(src, i, seg) == DopRow(src, i, seg)
dop_20_2f(src, i, seg) == DopRow(src, i, seg)
dop_30_3f(src, i, seg) == DopRow(src, i, seg)

\* INC, DEC, PUSH, POP of a register.
dop_40_5f(seg) == Dis(1, seg, {})

dop_60_6f(src, i, seg) ==
  CASE src[i] \in {96, 97, 108, 109, 110, 111} -> Dis(1, seg, {"186"})
    [] src[i] = 98  -> dop_ea(src, i, seg, 0, {"186"})
    [] src[i] = 102 -> IF src[i + 1] = 102 THEN Dis(4, seg, {}) ELSE dop_ud(seg)
    [] src[i] = 104 -> Dis(3, seg, {"186"})
    [] src[i] = 106 -> Dis(2, seg, {"186"})
    [] OTHER        -> dop_ud(seg)

\* A target is counted from the address the instruction was asked for.
Short(src, i, seg, ip, flags) == Branch(2, seg, flags, ip + 2 + Signed(Byte, src[i + 1]))

dop_70(src, i, seg, ip) == Short(src, i, seg, ip, {})

dop_80_8f(src, i, seg) ==
  dop_ea(src, i, seg, CASE src[i] \in {128, 130, 131} -> 1 [] src[i] = 129 -> 2
                        [] OTHER -> 0, {})

dop_90_9f(src, i, seg) ==
  IF src[i] = 154 THEN Dis(5, seg, {"CALL"}) ELSE Dis(1, seg, {})

\* MOVS, CMPS and LODS print the prefix of their source; STOS and SCAS have
\* none.
dop_a0_af(src, i, seg) ==
  CASE src[i] \in 160 .. 163 -> Dis(3, 0, {})
    [] src[i] \in {164, 165, 166, 167, 172, 173} -> Dis(1, 0, {})
    [] src[i] = 168 -> Dis(2, seg, {}) [] src[i] = 169 -> Dis(3, seg, {})
    [] src[i] \in {170, 171, 174, 175} -> Dis(1, seg, {})

dop_b0_bf(src, i, seg) == IF src[i] < 184 THEN Dis(2, seg, {}) ELSE Dis(3, seg, {})

dop_c0_c9(src, i, seg) ==
  CASE src[i] \in {192, 193} -> dop_ea(src, i, seg, 1, {"186"})
    [] src[i] = 194 -> Dis(3, seg, {}) [] src[i] = 195 -> Dis(1, seg, {})
    [] src[i] \in {196, 197} -> dop_ea(src, i, seg, 0, {})
    [] src[i] = 198 -> dop_ea(src, i, seg, 1, {})
    [] src[i] = 199 -> dop_ea(src, i, seg, 2, {})
    [] src[i] = 200 -> Dis(4, seg, {"186"}) [] src[i] = 201 -> Dis(1, seg, {"186"})

dop_ca_cf(src, i, seg) ==
  CASE src[i] = 202 -> Dis(3, seg, {}) [] src[i] \in {203, 207} -> Dis(1, seg, {})
    [] src[i] \in {204, 206} -> Dis(1, seg, {"CALL"})
    [] src[i] = 205 -> Dis(2, seg, {"CALL"})

dop_d0_df(src, i, seg) ==
  CASE src[i] \in 208 .. 211 -> dop_ea(src, i, seg, 0, {})
    [] src[i] \in {212, 213} -> Dis(2, seg, {}) [] src[i] = 215 -> Dis(1, seg, {})
    [] OTHER -> dop_ud(seg)

dop_e0_ef(src, i, seg, ip) ==
  LET near == ip + 3 + Pair(src[i + 2], src[i + 1])
  IN  CASE src[i] < 228  -> Short(src, i, seg, ip, {"LOOP"})
        [] src[i] \in 228 .. 231 -> Dis(2, seg, {})
        [] src[i] = 232 -> Branch(3, seg, {"CALL"}, near)
        [] src[i] = 233 -> Branch(3, seg, {}, near)
        [] src[i] = 234 -> Dis(5, seg, {})
        [] src[i] = 235 -> Short(src, i, seg, ip, {})
        [] src[i] > 235 -> Dis(1, seg, {})

dop_f6_f7(src, i, seg) ==
  LET xop == (src[i + 1] \div 8) % 8
  IN  IF xop = 1 THEN dop_ud(seg)
      ELSE dop_ea(src, i, seg, IF xop = 0 THEN src[i] - 245 ELSE 0, {})

dop_fe_ff(src, i, seg) ==
  LET xop == (src[i + 1] \div 8) % 8
  IN  IF xop = 7 \/ (src[i] = 254 /\ xop > 1) THEN dop_ud(seg)
      ELSE dop_ea(src, i, seg, 0, IF src[i] = 255 /\ xop \in {2, 3} THEN {"CALL"} ELSE {})

RECURSIVE e86_disasm_op(_, _, _, _)

\* A segment prefix is part of an instruction that prints it, and one of its
\* own otherwise.  seg is put back for the prefix before it.
dop_seg_prefix(src, i, seg, ip) ==
  LET s == 1 + ((src[i] \div 8) % 4)
      d == e86_disasm_op(src, i + 1, s, ip)
  IN  IF d.seg = 0 THEN [d EXCEPT !.dat_n = @ + 1, !.seg = seg] ELSE Dis(1, seg, d.flags)

\* LOCK, REPNE, REP: what follows is disassembled anew, as if at the same IP.
dop_f0_f3(src, i, ip) ==
  LET d == e86_disasm_op(src, i + 1, 0, ip) IN [d EXCEPT !.dat_n = @ + 1]

e86_disasm_op(src, i, seg, ip) ==
  LET b == src[i]
  IN  CASE b \in {38, 46, 54, 62}     -> dop_seg_prefix(src, i, seg, ip)
        [] b < 16                     -> dop_00_0f(src, i, seg)
        [] b \in 16 .. 31             -> dop_10_1f(src, i, seg)
        [] b \in (32 .. 47) \ {38, 46} -> dop_20_2f(src, i, seg)
        [] b \in (48 .. 63) \ {54, 62} -> dop_30_3f(src, i, seg)
        [] b \in 64 .. 95             -> dop_40_5f(seg)
        [] b \in 96 .. 111            -> dop_60_6f(src, i, seg)
        [] b \in 112 .. 127           -> dop_70(src, i, seg, ip)
        [] b \in 128 .. 143           -> dop_80_8f(src, i, seg)
        [] b \in 144 .. 159           -> dop_90_9f(src, i, seg)
        [] b \in 160 .. 175           -> dop_a0_af(src, i, seg)
        [] b \in 176 .. 191           -> dop_b0_bf(src, i, seg)
        [] b \in 192 .. 201           -> dop_c0_c9(src, i, seg)
        [] b \in 202 .. 207           -> dop_ca_cf(src, i, seg)
        [] b \in 208 .. 223           -> dop_d0_df(src, i, seg)
        [] b \in 224 .. 239           -> dop_e0_ef(src, i, seg, ip)
        [] b \in {240, 242, 243}      -> dop_f0_f3(src, i, ip)
        [] b = 241                    -> dop_ud(seg)
        [] b \in {246, 247}           -> dop_f6_f7(src, i, seg)
        [] b \in {254, 255}           -> dop_fe_ff(src, i, seg)
        [] b \in {244, 245} \cup 248 .. 253 -> Dis(1, seg, {})

\* e86_disasm_cur: the offset wraps within the segment.
disasm_cur(c) ==
  LET src == [i \in 0 .. 15 |-> Mem(c, Byte, c.sreg[CS], c.ip + i)]
  IN  e86_disasm_op(src, 0, 0, c.ip)
===============================================================================
