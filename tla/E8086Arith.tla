------------------------------ MODULE E8086Arith ------------------------------
(***************************************************************************)
(* The shifts, multiplications and divisions of the reference processor    *)
(* (opcodes.c and e80186.c of tbs/cpu86/golden_ref/e8086).  Products of two *)
(* words and the dividends of words are kept as two words, high and low.   *)
(***************************************************************************)
EXTENDS E8086Ops

-----------------------------------------------------------------------------
(***************************************************************************)
(* Shifts and rotations by k in 1 .. 31, of the operation xop of ModRM.    *)
(***************************************************************************)
\* The n-bit number s turned to the left by k.
RotL(s, n, k) ==
  LET j == k % n
  IN  (s % (2 ^ (n - j))) * 2 ^ j + (s \div (2 ^ (n - j)))

RotR(s, n, k) == RotL(s, n, n - (k % n))

ShiftRes(M, d, f, cf) == Res(d % M, Put(f, FC, cf % 2 = 1))

\* The result and the flags but OF.
rol(f, M, s, k) ==
  LET d == RotL(s, Bits(M), k) IN ShiftRes(M, d, f, d)

ror(f, M, s, k) ==
  LET d == RotR(s, Bits(M), k) IN ShiftRes(M, d, f, d \div (M \div 2))

\* Through the carry, a number one bit wider.
rcl(f, M, s, k) ==
  LET d == RotL(M * Bit(Has(f, FC)) + s, Bits(M) + 1, k)
  IN  ShiftRes(M, d, f, d \div M)

\* mutant: a rotation through the carry is as wide as its operand.
rcr_narrow(f, M, s, k) ==
  LET d == RotR(M * Bit(Has(f, FC)) + s, Bits(M), k)
  IN  ShiftRes(M, d, f, d \div M)

rcr(f, M, s, k) ==
  LET d == RotR(M * Bit(Has(f, FC)) + s, Bits(M) + 1, k)
  IN  ShiftRes(M, d, f, d \div M)

\* mutant: the count is taken for too large one early, and the carry is lost.
shl_countOffByOne(f, M, s, k) ==
  LET n == Bits(M)
      d == IF k >= n THEN 0 ELSE (s % (2 ^ (n - k))) * 2 ^ k
  IN  ShiftRes(M, d, set_flg_szp(f, M, d),
               IF k >= n THEN 0 ELSE s \div (2 ^ (n - k)))

shl(f, M, s, k) ==
  LET n == Bits(M)
      d == IF k > n THEN 0 ELSE (s % (2 ^ (n - k))) * 2 ^ k
  IN  ShiftRes(M, d, set_flg_szp(f, M, d),
               IF k > n THEN 0 ELSE s \div (2 ^ (n - k)))

shr(f, M, s, k) ==
  LET last == IF k > Bits(M) THEN 0 ELSE s \div (2 ^ (k - 1))
      d    == last \div 2
  IN  ShiftRes(M, d, set_flg_szp(f, M, d), last)

sar(f, M, s, k) ==
  LET n    == Bits(M)
      last == Signed(M, s) \div (2 ^ (IF k >= n THEN n - 1 ELSE k - 1))
      d    == last \div 2
  IN  ShiftRes(M, d, set_flg_szp(f, M, d), last)

Shift(xop, f, M, s, k) ==
  CASE xop = 0 -> rol(f, M, s, k) [] xop = 1 -> ror(f, M, s, k)
    [] xop = 2 -> rcl(f, M, s, k) [] xop = 3 -> rcr(f, M, s, k)
    [] xop = 4 -> shl(f, M, s, k) [] xop = 5 -> shr(f, M, s, k)
    [] xop = 7 -> sar(f, M, s, k)

\* D0-D3: OF tells whether the sign changed, for every count.
ShiftEa(c, M, k) ==
  LET e == Ea(c)
      s == GetEa(c, M, e)
      r == Shift(RegField(c), c.flg, M, s, k)
  IN  IF RegField(c) = 6 THEN op_ud(c)
      ELSE Ret(SetEa(SetFlags(c, Put(r.flg, FO, Msb(M, r.d) # Msb(M, s))), M, e, r.d),
               e.cnt + 1)

op_d0(c) == ShiftEa(c, Byte, 1)
op_d1(c) == ShiftEa(c, Word, 1)

\* MASK_SHIFT: five bits of the count are used.
ShiftCl(c, M) ==
  LET k == Lo(c.dreg[CX]) % 32
  IN  IF k = 0 THEN Ret(c, Ea(c).cnt + 1) ELSE ShiftEa(c, M, k)

op_d2(c) == ShiftCl(c, Byte)
op_d3(c) == ShiftCl(c, Word)

\* C0 and C1: the immediate is not counted when it is 0; OF is formed by the
\* operation; operation 6 clears its operand.
ShiftImmediate(c, M) ==
  LET e    == Ea(c)
      xop  == RegField(c)
      s    == GetEa(c, M, e)
      k    == ImmB(c, e.cnt + 1) % 32
      r    == IF xop = 6 THEN Res(0, c.flg) ELSE Shift(xop, c.flg, M, s, k)
      next(x) == Msb(M, 2 * x)
      of   == CASE xop \in {0, 2, 4} -> next(s) # Msb(M, s)
                [] xop \in {1, 3}    -> next(r.d) # Msb(M, s)
                [] xop = 5           -> Msb(M, s)
                [] xop = 6           -> Flag(c, FO)
                [] xop = 7           -> FALSE
  IN  IF k = 0 THEN Ret(c, e.cnt + 1)
      ELSE Ret(SetEa(SetFlags(c, Put(r.flg, FO, of)), M, e, r.d), e.cnt + 2)

op_c0(c) == ShiftImmediate(c, Byte)
op_c1(c) == ShiftImmediate(c, Word)

-----------------------------------------------------------------------------
(***************************************************************************)
(* F6 and F7.                                                              *)
(***************************************************************************)
\* The product of two words, byte by byte, as <<high, low>>.
Product(a, b) ==
  LET upper == Hi(a) * b
      t     == Pair(Lo(upper), Lo(a) * b)
  IN  <<(upper \div 256) + (t \div Word), t % Word>>

\* The quotient and remainder of the words hi, lo by s > hi, byte by byte.
Quotient(hi, lo, s) ==
  LET t1 == Pair(hi, Hi(lo))
      t0 == Pair(t1 % s, Lo(lo))
  IN  [q |-> Pair(t1 \div s, t0 \div s), r |-> t0 % s]

SetCO(c, b) == SetFlag(SetFlag(c, FC, b), FO, b)

\* A product whose upper half only repeats the sign fits.
Fits(M, p) == (p \div (M \div 2)) \in {0, -1}

op_f6_f7_00(c, M) ==
  LET e == Ea(c)
  IN  Test(c, M, GetEa(c, M, e), Imm(c, M, e.cnt + 1), e.cnt + 1 + Bytes(M))

op_f6_f7_02(c, M) ==
  LET e == Ea(c) IN Ret(SetEa(c, M, e, M - 1 - GetEa(c, M, e)), e.cnt + 1)

op_f6_f7_03(c, M) ==
  LET e == Ea(c)
      r == sub(c.flg, M, 0, GetEa(c, M, e))
  IN  Ret(SetFlags(SetEa(c, M, e, r.d), r.flg), e.cnt + 1)

op_f6_04(c) ==
  LET e == Ea(c)
      d == GetEa(c, Byte, e) * Lo(c.dreg[AX])
  IN  Ret(SetFlag(SetCO(SetR16(c, AX, d), d > 255), FZ, d = 0), e.cnt + 1)

op_f6_05(c) ==
  LET e == Ea(c)
      d == Signed(Byte, GetEa(c, Byte, e)) * Signed(Byte, Lo(c.dreg[AX]))
  IN  Ret(SetCO(SetR16(c, AX, d), ~Fits(Byte, d)), e.cnt + 1)

op_f6_06(c) ==
  LET e == Ea(c)
      s == GetEa(c, Byte, e)
      ax == c.dreg[AX]
  IN  IF s = 0 THEN divide_error(c)
      ELSE IF ax \div s > 255 THEN divide_error(c)
      ELSE Ret(SetR16(c, AX, Pair(ax % s, ax \div s)), e.cnt + 1)

\* Signed division works on magnitudes; the quotient may be one larger when
\* it is negative, and the remainder takes the sign of the dividend.
Magnitude(M, x) == IF Msb(M, x) THEN M - x ELSE x

Negated(b, M, x) == IF b THEN (M - x) % M ELSE x

\* mutant: the limit of a negative quotient is that of a positive one.
Limit_positive(M, negative) == (M \div 2) - 1

Limit(M, negative) == (M \div 2) - Bit(~negative)

op_f6_07(c) ==
  LET e     == Ea(c)
      s2    == Signed(Byte, GetEa(c, Byte, e)) % Word
      sign1 == Msb(Word, c.dreg[AX])
      minus == sign1 # Msb(Word, s2)
      d1    == Magnitude(Word, c.dreg[AX]) \div Magnitude(Word, s2)
      d2    == Magnitude(Word, c.dreg[AX]) % Magnitude(Word, s2)
  IN  IF s2 = 0 THEN divide_error(c)
      ELSE IF d1 > Limit(Byte, minus) THEN divide_error(c)
      ELSE Ret(SetR16(c, AX, Pair(Lo(Negated(sign1, Word, d2)),
                                  Lo(Negated(minus, Word, d1)))), e.cnt + 1)

op_f7_04(c) ==
  LET e == Ea(c)
      p == Product(GetEa(c, Word, e), c.dreg[AX])
      d == SetR16(SetR16(c, AX, p[2]), DX, p[1])
  IN  Ret(SetFlag(SetCO(d, p[1] # 0), FZ, p = <<0, 0>>), e.cnt + 1)

op_f7_05(c) ==
  LET e == Ea(c)
      d == Signed(Word, GetEa(c, Word, e)) * Signed(Word, c.dreg[AX])
  IN  Ret(SetCO(SetR16(SetR16(c, AX, d), DX, d \div Word), ~Fits(Word, d)), e.cnt + 1)

op_f7_06(c) ==
  LET e == Ea(c)
      s == GetEa(c, Word, e)
      d == Quotient(c.dreg[DX], c.dreg[AX], s)
  IN  IF s = 0 \/ c.dreg[DX] >= s THEN divide_error(c)
      ELSE Ret(SetR16(SetR16(c, AX, d.q), DX, d.r), e.cnt + 1)

op_f7_07(c) ==
  LET e     == Ea(c)
      s     == GetEa(c, Word, e)
      sign1 == Msb(Word, c.dreg[DX])
      minus == sign1 # Msb(Word, s)
      lo    == Negated(sign1, Word, c.dreg[AX])
      hi    == IF sign1 THEN Word - 1 - c.dreg[DX] + Bit(lo = 0) ELSE c.dreg[DX]
      d     == Quotient(hi, lo, Magnitude(Word, s))
  IN  IF s = 0 \/ hi >= Magnitude(Word, s) THEN divide_error(c)
      ELSE IF d.q > Limit(Word, minus) THEN divide_error(c)
      ELSE Ret(SetR16(SetR16(c, AX, Negated(minus, Word, d.q)),
                      DX, Negated(sign1, Word, d.r)), e.cnt + 1)

op_f6(c) ==
  LET xop == RegField(c)
  IN  CASE xop = 0 -> op_f6_f7_00(c, Byte) [] xop = 1 -> op_ud(c)
        [] xop = 2 -> op_f6_f7_02(c, Byte) [] xop = 3 -> op_f6_f7_03(c, Byte)
        [] xop = 4 -> op_f6_04(c) [] xop = 5 -> op_f6_05(c)
        [] xop = 6 -> op_f6_06(c) [] xop = 7 -> op_f6_07(c)

op_f7(c) ==
  LET xop == RegField(c)
  IN  CASE xop = 0 -> op_f6_f7_00(c, Word) [] xop = 1 -> op_ud(c)
        [] xop = 2 -> op_f6_f7_02(c, Word) [] xop = 3 -> op_f6_f7_03(c, Word)
        [] xop = 4 -> op_f7_04(c) [] xop = 5 -> op_f7_05(c)
        [] xop = 6 -> op_f7_06(c) [] xop = 7 -> op_f7_07(c)

\* 69 and 6B, IMUL with an immediate s2: ZF tells that the product and its
\* sign have no upper bits, not that it is 0.
ImulImmediate(c, s2, n) ==
  LET e == Ea(c)
      d == Signed(Word, GetEa(c, Word, e)) * s2
      p == SetCO(SetR16(c, RegField(c), d), ~Fits(Word, d))
  IN  Ret(SetFlag(p, FZ, d \in 0 .. 32767), e.cnt + 1 + n)

op_69(c) == ImulImmediate(c, Signed(Word, ImmW(c, Ea(c).cnt + 1)), 2)
op_6b(c) == ImulImmediate(c, ImmSx(c, Ea(c).cnt + 1), 1)
===============================================================================
