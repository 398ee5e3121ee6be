------------------------------ MODULE E8086Flags ------------------------------
(***************************************************************************)
(* The flags of the reference processor of the test bench                 *)
(* (tbs/cpu86/golden_ref/e8086/flags.c): how every result moves them.      *)
(*                                                                         *)
(* The flag word is the 16-bit number of the code.  Its functions come in  *)
(* pairs for bytes and words; here one operator serves both, M being the   *)
(* modulus of the width: Byte or Word.                                     *)
(***************************************************************************)
EXTENDS Integers

Byte == 256
Word == 65536

\* The masks E86_FLG_x.
FC == 1
FP == 4
FA == 16
FZ == 64
FS == 128
FT == 256
FI == 512
FD == 1024
FO == 2048

Bit(b) == IF b THEN 1 ELSE 0

\* e86_get_f and e86_set_f, for one flag F of the flag word f.
Has(f, F) == (f \div F) % 2 = 1

Put(f, F, b) == f + F * (Bit(b) - Bit(Has(f, F)))

\* The sign bit of x, and x read as a signed number (e86_mk_sint16 too).
Msb(M, x) == (x \div (M \div 2)) % 2 = 1

Signed(M, x) == IF Msb(M, x) THEN x - M ELSE x

-----------------------------------------------------------------------------
(***************************************************************************)
(* The bitwise operators of C on 16 bits, four bits at a time.             *)
(***************************************************************************)
NibbleAnd ==
  [x \in 0 .. 15, y \in 0 .. 15 |->
     LET both(b) == b * ((x \div b) % 2) * ((y \div b) % 2)
     IN  both(1) + both(2) + both(4) + both(8)]

AndW(x, y) ==
  LET nib(b) == b * NibbleAnd[(x \div b) % 16, (y \div b) % 16]
  IN  nib(1) + nib(16) + nib(256) + nib(4096)

OrW(x, y) == x + y - AndW(x, y)

XorW(x, y) == x + y - 2 * AndW(x, y)

-----------------------------------------------------------------------------
\* parity[]: 1 for an odd number of ones.
parity ==
  LET ones[v \in 0 .. 255] == IF v = 0 THEN 0 ELSE (v % 2) + ones[v \div 2]
  IN  [v \in 0 .. 255 |-> ones[v] % 2]

\* Zero, sign and parity of a result; the parity is that of its low byte.
set_flg_szp(f, M, x) ==
  LET v == x % M
  IN  Put(Put(Put(f, FZ, v = 0), FS, Msb(M, v)), FP, parity[v % 256] = 0)

set_flg_log(f, M, x) == Put(Put(set_flg_szp(f, M, x), FC, FALSE), FO, FALSE)

\* mutant: the half carry of a sum forgets the carry that came in.
Carries_halfCarryOfOperands(f, M, d, s1, s2, overflow) ==
  Put(Put(Put(set_flg_szp(f, M, d), FC, d \notin 0 .. M - 1),
          FA, (s1 % 16) + (s2 % 16) >= 16),
      FO, overflow)

\* Carry, half carry and overflow of a result d of s1 and s2: d is taken
\* before it is cut to the width.
Carries(f, M, d, s1, s2, overflow) ==
  Put(Put(Put(set_flg_szp(f, M, d), FC, d \notin 0 .. M - 1),
          FA, ((s1 \div 16) + (s2 \div 16) + (d \div 16)) % 2 = 1),
      FO, overflow)

\* e86_set_flg_adc_x; with s3 = 0, e86_set_flg_add_x.
set_flg_add(f, M, s1, s2, s3) ==
  LET d == s1 + s2 + s3
  IN  Carries(f, M, d, s1, s2,
              Msb(M, d) # Msb(M, s1) /\ Msb(M, d) # Msb(M, s2))

\* mutant: the overflow of a difference is taken like that of a sum.
set_flg_sub_overflowOfSum(f, M, s1, s2, s3) ==
  LET d == s1 - s2 - s3
  IN  Carries(f, M, d, s1, s2,
              Msb(M, d) # Msb(M, s1) /\ Msb(M, d) # Msb(M, s2))

\* e86_set_flg_sbb_x; with s3 = 0, e86_set_flg_sub_x.
set_flg_sub(f, M, s1, s2, s3) ==
  LET d == s1 - s2 - s3
  IN  Carries(f, M, d, s1, s2,
              Msb(M, s1) # Msb(M, d) /\ Msb(M, s1) # Msb(M, s2))
===============================================================================
