----------------------------- MODULE E8086Checks -----------------------------
(***************************************************************************)
(* What the reference processor and its bench promise.  Each property      *)
(* defines anew what an instruction means (exact integers, digits, single  *)
(* bits, the order of numbers, the run without interrupts) and compares    *)
(* the outcome of the code with it.                                        *)
(***************************************************************************)
EXTENDS E8086, E8086Disasm, FiniteSets

CONSTANT Scratch   \* the addresses that interrupt handlers and frames use

\* The byte at distance i from CS:IP, and the ModRM field of the operation.
CodeAt(c, i) == Mem(c, Byte, c.sreg[CS], c.ip + i)

Field(c) == (CodeAt(c, 1) \div 8) % 8

\* The first instruction of a behaviour is executed in this step.
First ==
  driver = "direct" /\ cpu = start /\ irqs' = irqs /\ cpu.state = RUN /\ ~Flag(cpu, FT)

\* Processor d stands where the trap n of processor c leads.
TrapTaken(c, d, n) ==
  /\ d.sreg[CS] = Mem16(c, 0, 4 * n + 2)
  /\ d.ip = Mem16(c, 0, 4 * n)
  /\ d.dreg[SP] = (c.dreg[SP] - 6) % Word

\* Apart from the registers xs, flags and IP, d is c.
OnlyChanges(c, d, xs) ==
  /\ \A x \in (0 .. 7) \ xs : d.dreg[x] = c.dreg[x]
  /\ d.sreg = c.sreg /\ d.ram = c.ram /\ d.io = c.io
  /\ \A F \in {FT, FI, FD} : Has(d.flg, F) = Has(c.flg, F)

BitOf(x, i) == (x \div (2 ^ i)) % 2

\* Sign, zero and parity of the result v.
TellsOf(f, M, v) ==
  /\ Has(f, FZ) = (v = 0)
  /\ Has(f, FS) = (v >= M \div 2)
  /\ Has(f, FP) = (Cardinality({i \in 0 .. 7 : BitOf(v, i) = 1}) % 2 = 0)

-----------------------------------------------------------------------------
(***************************************************************************)
(* Sums and differences (00-3D, 80, 81, 83) of registers and immediates.   *)
(***************************************************************************)
\* [n, M, a, b, to]: the operation, its operands and the register written.
AluCase(c) ==
  LET b0   == CodeAt(c, 0)
      M    == IF b0 % 2 = 0 THEN Byte ELSE Word
      rm   == CodeAt(c, 1) % 8
      imm8 == IF b0 = 131 THEN Signed(Byte, CodeAt(c, 2)) % Word ELSE CodeAt(c, 2)
      imm(i) == IF M = Byte \/ b0 = 131 THEN CodeAt(c, i)
                ELSE CodeAt(c, i) + 256 * CodeAt(c, i + 1)
      case(n, a, b, to) == [n |-> n, M |-> M, a |-> a, b |-> b, to |-> to]
  IN  CASE b0 \in {128, 129} -> case(Field(c), Reg(c, M, rm), imm(2), rm)
        [] b0 = 131          -> case(Field(c), Reg(c, M, rm), imm8, rm)
        [] b0 < 64 /\ b0 % 8 \in {0, 1} ->
             case(b0 \div 8, Reg(c, M, rm), Reg(c, M, Field(c)), rm)
        [] b0 < 64 /\ b0 % 8 \in {2, 3} ->
             case(b0 \div 8, Reg(c, M, Field(c)), Reg(c, M, rm), Field(c))
        [] b0 < 64 /\ b0 % 8 \in {4, 5} -> case(b0 \div 8, Reg(c, M, AX), imm(1), AX)

IsAlu(c) ==
  LET b0 == CodeAt(c, 0)
  IN  \/ b0 < 64 /\ b0 % 8 \in {4, 5}
      \/ b0 < 64 /\ b0 % 8 < 4 /\ CodeAt(c, 1) >= 192
      \/ b0 \in {128, 129, 131} /\ CodeAt(c, 1) >= 192

\* The sum or difference of two integers, of which only the digits below k
\* are looked at.
Exact(n, a, b, cf) ==
  CASE n = 0 -> a + b [] n = 2 -> a + b + cf [] n = 3 -> a - b - cf [] n \in {5, 7} -> a - b

Logical(n, x, y) ==
  CASE n = 1 -> x = 1 \/ y = 1 [] n = 4 -> x = 1 /\ y = 1 [] n = 6 -> x # y

AluOutcome(c, d) ==
  LET k   == AluCase(c)
      cf  == Carry(c)
      u   == Exact(k.n, k.a, k.b, cf)
      s   == Exact(k.n, Signed(k.M, k.a), Signed(k.M, k.b), cf)
      v   == IF k.n = 7 THEN u % k.M ELSE Reg(d, k.M, k.to)
      same == IF k.n = 7 THEN {} ELSE {IF k.M = Byte THEN k.to % 4 ELSE k.to}
  IN  /\ TellsOf(d.flg, k.M, v)
      /\ OnlyChanges(c, d, same)
      /\ IF k.n \in {1, 4, 6}
         THEN /\ ~Flag(d, FC) /\ ~Flag(d, FO)
              /\ \A i \in 0 .. Bits(k.M) - 1 :
                    (BitOf(v, i) = 1) = Logical(k.n, BitOf(k.a, i), BitOf(k.b, i))
         ELSE /\ v = u % k.M
              /\ Flag(d, FC) = (u \notin 0 .. k.M - 1)
              /\ Flag(d, FO) = (s \notin 0 - (k.M \div 2) .. (k.M \div 2) - 1)
              /\ Flag(d, FA) = (Exact(k.n, k.a % 16, k.b % 16, cf) \notin 0 .. 15)

-----------------------------------------------------------------------------
(***************************************************************************)
(* F6 and F7, /4 to /7, of a register.                                     *)
(***************************************************************************)
IsMulDiv(c) ==
  CodeAt(c, 0) \in {246, 247} /\ CodeAt(c, 1) >= 192 /\ Field(c) \in 4 .. 7

\* The number in AX, or in DX:AX.
Wide(c, M, signed) ==
  IF M = Byte THEN IF signed THEN Signed(Word, c.dreg[AX]) ELSE c.dreg[AX]
  ELSE (IF signed THEN Signed(Word, c.dreg[DX]) ELSE c.dreg[DX]) * Word + c.dreg[AX]

\* TLC counts to 2^31 - 1: larger numbers are not looked at.
Small(c, M, signed) == signed \/ M = Byte \/ c.dreg[DX] < 32768

MulOutcome(c, d, M, s, signed) ==
  LET a == IF signed THEN Signed(M, Reg(c, M, AX)) ELSE Reg(c, M, AX)
  IN  Small(d, M, signed) =>
        /\ Wide(d, M, signed) = a * s
        /\ Flag(d, FC) = (IF signed THEN a * s \notin 0 - (M \div 2) .. (M \div 2) - 1
                                    ELSE a * s >= M)
        /\ Flag(d, FO) = Flag(d, FC)

Absolute(x) == IF x < 0 THEN 0 - x ELSE x

\* A division either gives the quotient rounded towards zero and a remainder
\* with the sign of the dividend, or traps with nothing changed because no
\* quotient fits.
DivOutcome(c, d, M, s, signed) ==
  LET a     == Wide(c, M, signed)
      hi    == IF M = Byte THEN AH ELSE DX
      q     == IF signed THEN Signed(M, Reg(d, M, AX)) ELSE Reg(d, M, AX)
      r     == IF signed THEN Signed(M, Reg(d, M, hi)) ELSE Reg(d, M, hi)
      exact == Absolute(a) \div Absolute(s)
      most  == IF ~signed THEN M - 1
               ELSE IF (a < 0) # (s < 0) THEN M \div 2 ELSE (M \div 2) - 1
  IN  Small(c, M, signed) =>
        IF s = 0 THEN TrapTaken(c, d, 0)
        ELSE IF exact > most THEN TrapTaken(c, d, 0)
        ELSE a = q * s + r /\ Absolute(r) < Absolute(s) /\ (r = 0 \/ (r < 0) = (a < 0))

MulDivOutcome(c, d) ==
  LET M      == IF CodeAt(c, 0) = 246 THEN Byte ELSE Word
      signed == Field(c) \in {5, 7}
      x      == Reg(c, M, CodeAt(c, 1) % 8)
      s      == IF signed THEN Signed(M, x) ELSE x
  IN  IF Field(c) < 6 THEN MulOutcome(c, d, M, s, signed)
                      ELSE DivOutcome(c, d, M, s, signed)

-----------------------------------------------------------------------------
(***************************************************************************)
(* Shifts and rotations: C0, C1, D0-D3 of a register.                      *)
(***************************************************************************)
IsShift(c) ==
  /\ CodeAt(c, 0) \in {192, 193} \cup 208 .. 211
  /\ CodeAt(c, 1) >= 192 /\ Field(c) # 6

Count(c) ==
  CASE CodeAt(c, 0) \in {192, 193} -> CodeAt(c, 2) % 32
    [] CodeAt(c, 0) \in {208, 209} -> 1
    [] CodeAt(c, 0) \in {210, 211} -> Lo(c.dreg[CX]) % 32

\* One place, of d with the carry cf.
OnePlace(x, M, d, cf) ==
  LET top == Bit(d >= M \div 2)
      low == d % 2
      left(b)  == [d |-> (2 * d + b) % M, cf |-> top]
      right(b) == [d |-> (d \div 2) + b * (M \div 2), cf |-> low]
  IN  CASE x = 0 -> left(top) [] x = 1 -> right(low) [] x = 2 -> left(cf)
        [] x = 3 -> right(cf) [] x = 4 -> left(0) [] x = 5 -> right(0) [] x = 7 -> right(top)

ShiftOutcome(c, d) ==
  LET M  == IF CodeAt(c, 0) % 2 = 0 THEN Byte ELSE Word
      rm == CodeAt(c, 1) % 8
      s  == Reg(c, M, rm)
      v  == Reg(d, M, rm)
      places[k \in 0 .. 31, x \in [d : 0 .. M - 1, cf : 0 .. 1]] ==
        IF k = 0 THEN x ELSE places[k - 1, OnePlace(Field(c), M, x.d, x.cf)]
  IN  /\ [d |-> v, cf |-> Carry(d)] = places[Count(c), [d |-> s, cf |-> Carry(c)]]
      /\ OnlyChanges(c, d, {IF M = Byte THEN rm % 4 ELSE rm})
      /\ Count(c) > 0 /\ Field(c) > 3 => TellsOf(d.flg, M, v)
      /\ Count(c) = 1 /\ CodeAt(c, 0) > 207 => Flag(d, FO) = ((v >= M \div 2) # (s >= M \div 2))

(* Sums, differences, products and quotients are those of the integers, and  *)
(* carry, half carry and overflow say exactly when they do not fit, for      *)
(* every pair of operands at a boundary of its width: flags.c derives the    *)
(* flags from the bits of result and operands, and signed division works on  *)
(* magnitudes.  A shift by n places is n shifts by one, result and carry,    *)
(* also when n is larger than the operand, and a shift of one place          *)
(* overflows when it changes the sign: the code has a formula for each       *)
(* operation and width, with counts taken modulo 8, 9, 16 or 17.             *)
(* Overflow is left out for C0 and C1, where the rotations to the right by   *)
(* one place always clear OF, which is wrong (e80186.c:323, 337, 409, 423).  *)
ArithmeticIsExact ==
  [][First => /\ IsAlu(cpu) => AluOutcome(cpu, cpu')
              /\ IsMulDiv(cpu) => MulDivOutcome(cpu, cpu')
              /\ IsShift(cpu) => ShiftOutcome(cpu, cpu')]_vars

-----------------------------------------------------------------------------
(***************************************************************************)
(* Two instructions that only make sense together: AL by BL and then an    *)
(* adjustment, or a comparison of AX with BX (AL with BL) and then a jump. *)
(***************************************************************************)
Second(firsts) ==
  /\ driver = "direct" /\ irqs' = irqs /\ cpu.state = RUN
  /\ cpu.ip = start.ip + 2
  /\ CodeAt(start, 0) \in firsts /\ CodeAt(start, 1) = 216

\* ADD, ADC, SBB and SUB AL, BL.
Sums        == {0, 16}
Differences == {24, 40}

Decimal(x) == 10 * (x \div 16) + (x % 16)

IsPacked(x) == x \div 16 < 10 /\ x % 16 < 10

Borrow == IF CodeAt(start, 0) \in {16, 24} THEN Carry(start) ELSE 0

DigitsOutcome(a, b, d) ==
  LET plus   == CodeAt(start, 0) \in Sums
      packed == CodeAt(start, 2) \in {39, 47}
      of(x)  == IF packed THEN Decimal(x) ELSE x
      limit  == IF packed THEN 100 ELSE 10
      v      == IF plus THEN of(a) + of(b) + Borrow ELSE of(a) - of(b) - Borrow
      out    == Bit(v \notin 0 .. limit - 1)
  IN  /\ IsPacked(R8(d, AX)) /\ of(R8(d, AX)) = v % limit
      /\ Carry(d) = out
      /\ ~packed => R8(d, AH) = (IF plus THEN R8(start, AH) + out
                                         ELSE R8(start, AH) - out) % 256

\* AAM and AAD take their base from the instruction.
BaseOutcome(c, d) ==
  LET base == CodeAt(c, 1)
  IN  IF CodeAt(c, 0) = 213 THEN d.dreg[AX] = (R8(c, AH) * base + R8(c, AX)) % 256
      ELSE IF base = 0 THEN TrapTaken(c, d, 0)
      ELSE R8(d, AH) * base + R8(d, AX) = R8(c, AX) /\ R8(d, AX) < base

\* The adjustments of a sum and of a difference; AAM and AAD.
AdjustsWell(c, d) ==
  /\ Second(Sums) /\ CodeAt(start, 2) \in {39, 55} =>
        DigitsOutcome(R8(start, AX), R8(start, BX), d)
  /\ Second(Differences) /\ CodeAt(start, 2) \in {47, 63} =>
        DigitsOutcome(R8(start, AX), R8(start, BX), d)
  /\ First /\ CodeAt(c, 0) \in {212, 213} => BaseOutcome(c, d)

\* What the condition of an even opcode 70-7E means after a comparison.
Relation(x, M, a, b) ==
  LET sa == Signed(M, a)
      sb == Signed(M, b)
      v  == (a - b) % M
  IN  CASE x = 0 -> sa - sb \notin 0 - (M \div 2) .. (M \div 2) - 1
        [] x = 2 -> a < b [] x = 4 -> a = b [] x = 6 -> a <= b
        [] x = 8 -> v >= M \div 2
        [] x = 10 -> Cardinality({i \in 0 .. 7 : BitOf(v, i) = 1}) % 2 = 0
        [] x = 12 -> sa < sb [] x = 14 -> sa <= sb

DecidesWell(c, d) ==
  LET M  == IF CodeAt(start, 0) = 56 THEN Byte ELSE Word
      x  == CodeAt(c, 0) - 112
      is == Relation(x - (x % 2), M, Reg(start, M, AX), Reg(start, M, BX))
  IN  d.ip = c.ip + 2 + (IF is = (x % 2 = 0) THEN Signed(Byte, CodeAt(c, 1)) ELSE 0)

(* The flags of one instruction and the reading of another fit.  An addition *)
(* or subtraction of decimal digits and its adjustment (DAA, DAS, AAA, AAS)  *)
(* give the decimal result and its carry, for every pair of valid operands   *)
(* at hand: the adjustment sees only the binary result and two flags.  After *)
(* a comparison each of the sixteen conditional jumps decides by the order   *)
(* of the two numbers its name stands for, unsigned or signed.               *)
PairsFit ==
  [][/\ AdjustsWell(cpu, cpu')
     /\ Second({56, 57}) /\ CodeAt(cpu, 0) \in 112 .. 127 => DecidesWell(cpu, cpu')]_vars

-----------------------------------------------------------------------------
(***************************************************************************)
(* Repeated string instructions: F2 or F3, the instruction, HLT.           *)
(***************************************************************************)
IsBlock(c) ==
  /\ CodeAt(c, 0) \in {242, 243} /\ CodeAt(c, 2) = 244
  /\ CodeAt(c, 1) \in 164 .. 167 \cup 170 .. 175

BlockOutcome(c, d) ==
  LET kind  == CodeAt(c, 1) - (CodeAt(c, 1) % 2)
      M     == IF CodeAt(c, 1) % 2 = 0 THEN Byte ELSE Word
      step  == (IF M = Byte THEN 1 ELSE 2) * (IF Flag(c, FD) THEN 0 - 1 ELSE 1)
      n     == c.dreg[CX]
      src(e, i) == Mem(e, M, c.sreg[DS], (c.dreg[SI] + (i - 1) * step) % Word)
      dst(e, i) == Mem(e, M, c.sreg[ES], (c.dreg[DI] + (i - 1) * step) % Word)
      left(i)   == IF kind = 166 THEN src(c, i) ELSE Reg(c, M, AX)
      \* The element at which a comparison stops before the last one.
      stops == {i \in 1 .. n : (left(i) = dst(c, i)) # (CodeAt(c, 0) = 243)}
      done  == IF kind \in {166, 174} /\ stops # {}
               THEN CHOOSE i \in stops : \A j \in stops : i <= j ELSE n
      moved(x, uses) == d.dreg[x] = (c.dreg[x] + (IF uses THEN done * step ELSE 0)) % Word
  IN  /\ d.dreg[CX] = n - done
      /\ moved(SI, kind \in {164, 166, 172}) /\ moved(DI, kind # 172)
      /\ kind = 164 => \A i \in 1 .. n : dst(d, i) = src(d, i)
      /\ kind = 170 => \A i \in 1 .. n : dst(d, i) = Reg(c, M, AX)
      /\ kind = 172 => Reg(d, M, AX) = (IF n = 0 THEN Reg(c, M, AX) ELSE src(c, n))
      /\ IF kind \in {166, 174} /\ n > 0
         THEN /\ Flag(d, FZ) = (left(done) = dst(c, done))
              /\ Flag(d, FC) = (left(done) < dst(c, done))
         ELSE d.flg = c.flg

(* A repeated string instruction is its block operation, up or down, for no, *)
(* one and several elements: a block is copied (onto its own continuation,   *)
(* too, which fills it), filled or loaded to the end, and compared or        *)
(* searched up to the first element that differs, or does not, with CX, SI,  *)
(* DI and ZF left where the program can tell which it was.  Each element is  *)
(* an execution of its own, between which the prefixes are kept.             *)
StringsAreBlocks ==
  driver = "direct" /\ cpu.state = HALT /\ start \notin Disturbed /\ IsBlock(start)
    => BlockOutcome(start, cpu)

-----------------------------------------------------------------------------
(***************************************************************************)
(* Interrupts, single steps and repeated instructions.                     *)
(***************************************************************************)
RECURSIVE RunToHalt(_)
RunToHalt(c) == IF c.state = HALT THEN c ELSE RunToHalt(execute(c))

\* The program by itself: no request and no single steps.
Alone(c) == RunToHalt(SetFlag(c, FT, FALSE))

SameMemory(c, d) ==
  \A a \in (DOMAIN c.ram \cup DOMAIN d.ram) \ Scratch : Ram(c, a) = Ram(d, a)

\* Processor c has ended as the undisturbed end did.
EndsAs(c, end) ==
  /\ c.ip - end.ip \in 0 .. MaxIrqs
  /\ c.dreg = end.dreg /\ c.sreg = end.sreg /\ c.flg = end.flg /\ c.io = end.io
  /\ SameMemory(c, end)

(* A program that was interrupted, at whatever instructions and elements of  *)
(* repeated instructions, or stepped through with the trap flag, halts at    *)
(* the same place (or, woken there by a request, at the next HLT behind it)  *)
(* with the same registers, flags, memory and ports as by itself.  A         *)
(* repetition is resumed with its prefixes, prefixes of one instruction do   *)
(* not leak into a handler, and no interrupt comes between MOV SS and MOV    *)
(* SP, where its frame would destroy memory.                                 *)
InterruptsAreTransparent ==
  driver = "direct" /\ start \in Disturbed /\ cpu.state = HALT => EndsAs(cpu, Alone(start))

(* A request that is raised is taken, or wakes a halted processor, in the    *)
(* end, whatever masks and shields the program passes through, unless the    *)
(* program is stepped through: the trap of each instruction goes before the  *)
(* request, and its handler runs with interrupts disabled.                   *)
RequestsAreServed == cpu.irq /\ ~Flag(start, FT) ~> ~cpu.irq

-----------------------------------------------------------------------------
(***************************************************************************)
(* Lengths and addresses of instructions.                                  *)
(***************************************************************************)
SegPrefixes == {38, 46, 54, 62}
Prefixes    == SegPrefixes \cup {240, 242, 243}

\* How many prefixes stand before the instruction.
RECURSIVE Prefixed(_, _)
Prefixed(c, i) == IF CodeAt(c, i) \in Prefixes THEN Prefixed(c, i + 1) ELSE i

\* What the disassembler does not know, or lists apart: IMUL with an
\* immediate, SALC, ESC, and a segment prefix that the instruction ignores.
Unlisted(c) ==
  LET b == CodeAt(c, Prefixed(c, 0))
  IN  \/ b \in {105, 107, 214} \cup 216 .. 223
      \/ disasm_cur(c).dat_n <= Prefixed(c, 0)

\* C0 and C1 do not count their immediate when it shifts by 0.
ShiftByZero(c) ==
  LET i == Prefixed(c, 0)
      n == disasm_ea([k \in 0 .. 15 |-> CodeAt(c, k)], i + 1)
  IN  CodeAt(c, i) \in {192, 193} /\ CodeAt(c, i + 1 + n) % 32 = 0

\* Instructions that do not go on behind themselves, by their two bytes.
Leaves(b, field) ==
  b \in {154, 194, 195, 202, 203, 204, 205, 206, 207} \cup 232 .. 235 \/
  (b = 255 /\ field \in 2 .. 5)

Calls(b, field) == b \in {154, 204, 205, 206, 232} \/ (b = 255 /\ field \in {2, 3})

\* The return address of a call is on top of the stack, a far one's too.
LengthOutcome(c, d) ==
  LET i     == Prefixed(c, 0)
      b     == CodeAt(c, i)
      field == (CodeAt(c, i + 1) \div 8) % 8
      dis   == disasm_cur(c)
      next  == (c.ip + dis.dat_n) % Word
      fault == \E n \in {0, 5, 6} : TrapTaken(c, d, n)
  IN  \/ ~Leaves(b, field) /\ d.ip = next
      \/ dis.target # NoTarget /\ d.ip = dis.target
      \/ Calls(b, field) /\ d.dreg[SP] # c.dreg[SP] /\ Top(d) = next
      \/ b \in {206, 255} /\ d.ip = next /\ d.dreg[SP] = c.dreg[SP]
      \/ Leaves(b, field) /\ ~Calls(b, field) /\ dis.target = NoTarget
      \/ fault /\ Top(d) = (c.ip + i) % Word

(* The bytes that an instruction takes, summed up anew in every function of  *)
(* opcodes.c, are those the disassembler of the bench counts on its own: the *)
(* next instruction begins behind them, a jump leads where its listing says, *)
(* the return address of a call or software interrupt is the next one, and a *)
(* fault returns to the instruction itself (behind its prefixes).            *)
LengthsAgree ==
  [][First /\ "KEEP" \notin cpu'.prefix /\ ~Unlisted(cpu) /\ ~ShiftByZero(cpu)
       => LengthOutcome(cpu, cpu')]_vars

(* The bytes in the prefetch queue are those of the program at CS:IP, unless *)
(* the program has overwritten them: the queue is shifted by every           *)
(* instruction, refilled across the end of the segment or of the RAM and     *)
(* dropped by every jump and by a new test.  (Offset 0 may be fetched from   *)
(* behind the segment, when a word straddles its end.)                       *)
QueueHoldsTheCode ==
  \A i \in 0 .. cpu.pq_cnt - 1 :
    LET a == Linear(cpu.sreg[CS], cpu.ip + i)
    IN  \/ cpu.pq[i] = Ram(start, a)
        \/ Ram(cpu, a) # Ram(start, a)
        \/ (cpu.ip + i) % Word = 0

-----------------------------------------------------------------------------
(***************************************************************************)
(* The bench.                                                              *)
(***************************************************************************)
(* From its second report on, a test is told registers, flags and address of *)
(* one and the same moment, and each report covers one whole instruction of  *)
(* the program with its prefixes and repetitions: the bench compares the     *)
(* RTL with one report per instruction.                                      *)
ReportsTellOfOneMoment ==
  [][driver = "bench" /\ report.count > 1 /\ report'.count = report.count + 1 =>
       /\ report'.val = Regs(cpu)
       /\ report'.at = report.next
       /\ LengthOutcome(cpu, cpu')]_vars

\* Processor c has computed what the machine end has.
SameOutcome(c, end) ==
  /\ Regs(c) = Regs(end) /\ c.sreg = end.sreg /\ c.ip = end.ip
  /\ c.ram = end.ram /\ c.io = end.io

(* What a test computes does not depend on the tests before it: its outcome  *)
(* is that of a machine just made, whatever was left in queue, prefixes,     *)
(* registers and ports.                                                      *)
TestsAreIndependent ==
  driver = "bench" /\ cpu_halted =>
    SameOutcome(cpu, RunToHalt([Blank EXCEPT !.ram = start.ram]))
===============================================================================
