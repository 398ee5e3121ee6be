----------------------------- MODULE E8086Machine -----------------------------
(***************************************************************************)
(* The state of the reference processor (struct e8086_t of                 *)
(* tbs/cpu86/golden_ref/e8086/e8086.h) and what its instructions are made  *)
(* of: registers, memory and ports, the prefetch queue, effective          *)
(* addresses, the stack and traps.                                         *)
(*                                                                         *)
(* The processor is one record c, and a C function that changes it is an   *)
(* operator from records to records.  The clock counters (delay, clock,    *)
(* opcnt), which only count, and the hooks the bench leaves NULL are left  *)
(* out.  The configuration is the one the bench makes: an 80186 with       *)
(* MASK_SHIFT and INT6, a queue of PqSize bytes and 1 MB of RAM.  Of the   *)
(* RAM only the bytes that differ from their initial value are kept.       *)
(***************************************************************************)
EXTENDS E8086Flags, TLC

\* dreg[]
AX == 0
CX == 1
DX == 2
BX == 3
SP == 4
BP == 5
SI == 6
DI == 7
AH == 4   \* as an 8-bit register

\* sreg[]
ES == 0
CS == 1
SS == 2
DS == 3

PqSize  == 8                     \* pq_size = pq_fill
RamSize == 1048576               \* MEM_SIZE; addr_mask + 1

HALT == "HALT"                   \* c.state: E86_STATE_x, or none
RUN  == "RUN"

-----------------------------------------------------------------------------
(***************************************************************************)
(* Registers.  The two widths share an operator; x is the register number  *)
(* as it stands in the instruction.                                        *)
(***************************************************************************)
Lo(v) == v % 256
Hi(v) == (v \div 256) % 256
Pair(hi, lo) == 256 * hi + lo     \* e86_mk_uint16

R16(c, x) == c.dreg[x % 8]

R8(c, x) == IF x % 8 >= 4 THEN Hi(c.dreg[x % 4]) ELSE Lo(c.dreg[x % 4])

SetR16(c, x, v) == [c EXCEPT !.dreg[x % 8] = v % Word]

SetR8(c, x, v) ==
  [c EXCEPT !.dreg[x % 4] = IF x % 8 >= 4 THEN Pair(Lo(v), Lo(@))
                                          ELSE Pair(Hi(@), Lo(v))]

Reg(c, M, x) == IF M = Byte THEN R8(c, x) ELSE R16(c, x)

SetReg(c, M, x, v) == IF M = Byte THEN SetR8(c, x, v) ELSE SetR16(c, x, v)

SetSreg(c, s, v) == [c EXCEPT !.sreg[s % 4] = v % Word]

SetIp(c, v) == [c EXCEPT !.ip = v % Word]

SetFlag(c, F, b) == [c EXCEPT !.flg = Put(@, F, b)]

Flag(c, F) == Has(c.flg, F)

Carry(c) == Bit(Flag(c, FC))

-----------------------------------------------------------------------------
(***************************************************************************)
(* Memory and ports.  e8086_mem_clear leaves zeros in the interrupt table  *)
(* and HLT above it.  The second byte of a word follows the first in the   *)
(* 20-bit address, also when the first is the last byte of its segment.    *)
(***************************************************************************)
Linear(seg, ofs) == (seg * 16 + (ofs % Word)) % RamSize

Ram(c, a) ==
  IF a \in DOMAIN c.ram THEN c.ram[a] ELSE IF a < 1024 THEN 0 ELSE 244

SetRam(c, a, v) == [c EXCEPT !.ram = (a :> Lo(v)) @@ @]

RamWord(c, a) == Ram(c, a) + 256 * Ram(c, a + 1)

Mem(c, M, seg, ofs) ==
  LET a == Linear(seg, ofs)
  IN  IF M = Byte THEN Ram(c, a) ELSE RamWord(c, a)

SetMem(c, M, seg, ofs, v) ==
  LET a == Linear(seg, ofs)
  IN  IF M = Byte THEN SetRam(c, a, v)
      ELSE SetRam(SetRam(c, a, v), a + 1, v \div 256)

Mem16(c, seg, ofs) == Mem(c, Word, seg, ofs)

\* A port keeps the word last written to it; a byte is widened with zeros.
Prt(c, M, port) == (IF port \in DOMAIN c.io THEN c.io[port] ELSE 0) % M

SetPrt(c, port, v) == [c EXCEPT !.io = (port :> v) @@ @]

-----------------------------------------------------------------------------
(***************************************************************************)
(* The prefetch queue.                                                     *)
(***************************************************************************)
pq_init(c) == [c EXCEPT !.pq_cnt = 0]

\* mutant: every word of the far path starts at the unwrapped address.
pq_fill_noWrap(c) ==
  [c EXCEPT !.pq = [i \in 0 .. PqSize - 1 |->
                      IF i < c.pq_cnt THEN @[i]
                      ELSE Ram(c, Linear(c.sreg[CS], c.ip) + i)],
            !.pq_cnt = PqSize]

\* Only the bytes from pq_cnt on are read.  Near the end of the segment, or of
\* the RAM, they are read as words at CS:IP+i, of which the first wraps and the
\* second follows it (behind the array when the first is its last byte, which
\* RamEnd of MCE8086 avoids).
pq_fill(c) ==
  LET cs     == c.sreg[CS]
      whole  == /\ c.ip + PqSize <= 65535
                /\ Linear(cs, c.ip) + PqSize <= RamSize
      far(i) == IF (i - c.pq_cnt) % 2 = 0 THEN Linear(cs, c.ip + i)
                                          ELSE Linear(cs, c.ip + i - 1) + 1
      at(i)  == IF whole THEN Linear(cs, c.ip) + i ELSE far(i)
  IN  [c EXCEPT !.pq = [i \in 0 .. PqSize - 1 |->
                          IF i < c.pq_cnt THEN @[i] ELSE Ram(c, at(i))],
                !.pq_cnt = PqSize]

\* mutant: the bytes left in the queue are not moved to its front.
pq_adjust_unmoved(c, cnt) ==
  IF cnt >= c.pq_cnt THEN pq_init(c) ELSE [c EXCEPT !.pq_cnt = @ - cnt]

pq_adjust(c, cnt) ==
  IF cnt >= c.pq_cnt THEN pq_init(c)
  ELSE [c EXCEPT !.pq = [i \in 0 .. PqSize - 1 |->
                           IF i < c.pq_cnt - cnt THEN @[i + cnt] ELSE @[i]],
                 !.pq_cnt = @ - cnt]

\* The immediate operands of an instruction, and the middle field of ModRM.
ImmB(c, i)    == c.pq[i]
ImmW(c, i)    == Pair(c.pq[i + 1], c.pq[i])
ImmSx(c, i)   == Signed(Byte, c.pq[i])
Imm(c, M, i)  == IF M = Byte THEN ImmB(c, i) ELSE ImmW(c, i)
RegField(c)   == (c.pq[1] \div 8) % 8

-----------------------------------------------------------------------------
(***************************************************************************)
(* Effective addresses: e86_get_ea_ptr dispatches on mod and r/m.  Every   *)
(* form is [is_mem, seg, ofs, cnt], cnt the bytes of ModRM and displacement.*)
(***************************************************************************)
\* Base and index of the eight r/m fields.
Index(c, rm) ==
  LET r(x) == c.dreg[x]
  IN  CASE rm = 0 -> r(BX) + r(SI) [] rm = 1 -> r(BX) + r(DI)
        [] rm = 2 -> r(BP) + r(SI) [] rm = 3 -> r(BP) + r(DI)
        [] rm = 4 -> r(SI)         [] rm = 5 -> r(DI)
        [] rm = 6 -> r(BP)         [] rm = 7 -> r(BX)

Based(c, rm) == IF rm \in {2, 3, 6} THEN c.sreg[SS] ELSE c.sreg[DS]

MemEa(seg, ofs, cnt) ==
  [is_mem |-> TRUE, seg |-> seg, ofs |-> ofs % Word, cnt |-> cnt]

\* [BX + SI] .. [BX]; r/m 6 is an absolute address of the data segment.
ea_get_00_07(c, rm) ==
  IF rm = 6 THEN MemEa(c.sreg[DS], ImmW(c, 2), 3)
            ELSE MemEa(Based(c, rm), Index(c, rm), 1)

\* With a signed byte of displacement.
ea_get_08_0f(c, rm) == MemEa(Based(c, rm), Index(c, rm) + ImmSx(c, 2), 2)

\* With a word of displacement.
ea_get_10_17(c, rm) == MemEa(Based(c, rm), Index(c, rm) + ImmW(c, 2), 3)

ea_get_18(rm) == [is_mem |-> FALSE, seg |-> 0, ofs |-> rm, cnt |-> 1]

\* In the segment of a prefix.
Overridden(c, e) == IF "SEG" \in c.prefix THEN [e EXCEPT !.seg = c.seg_override] ELSE e

Ea(c) ==
  LET mod == c.pq[1] \div 64
      rm  == c.pq[1] % 8
  IN  Overridden(c, CASE mod = 0 -> ea_get_00_07(c, rm) [] mod = 1 -> ea_get_08_0f(c, rm)
                      [] mod = 2 -> ea_get_10_17(c, rm) [] mod = 3 -> ea_get_18(rm))

GetEa(c, M, e) == IF e.is_mem THEN Mem(c, M, e.seg, e.ofs) ELSE Reg(c, M, e.ofs)

SetEa(c, M, e, v) ==
  IF e.is_mem THEN SetMem(c, M, e.seg, e.ofs, v) ELSE SetReg(c, M, e.ofs, v)

\* e86_get_seg: the source segment of the string instructions and A0-A3.
GetSeg(c, s) == IF "SEG" \in c.prefix THEN c.seg_override ELSE c.sreg[s]

-----------------------------------------------------------------------------
(***************************************************************************)
(* The stack and traps.                                                    *)
(***************************************************************************)
push(c, v) ==
  LET d == SetR16(c, SP, c.dreg[SP] - 2)
  IN  SetMem(d, Word, d.sreg[SS], d.dreg[SP], v)

\* pop is split: the word on top, and the processor without it.
Top(c) == Mem16(c, c.sreg[SS], c.dreg[SP])

pop(c) == SetR16(c, SP, c.dreg[SP] + 2)

\* Through entry n of the interrupt table, with the flags flg.
Vector(c, n, flg) ==
  pq_init([c EXCEPT !.ip = Mem16(c, 0, 4 * Lo(n)),
                    !.sreg[CS] = Mem16(c, 0, 4 * Lo(n) + 2),
                    !.flg = flg, !.save_flags = flg])

\* mutant: the way back leads to the string instruction, past its prefixes.
trap_pastPrefix(c, n) ==
  LET d == push(push(push(c, c.flg), c.sreg[CS]), c.ip)
  IN  Vector([d EXCEPT !.prefix = IF "KEEP" \in @ THEN {} ELSE @], n,
             Put(Put(d.flg, FI, FALSE), FT, FALSE))

\* mutant: the prefixes of the interrupted instruction stay in force.
trap_keepsPrefix(c, n) ==
  LET back == IF "KEEP" \in c.prefix THEN c.cur_ip ELSE c.ip
      d    == push(push(push(c, c.flg), c.sreg[CS]), back)
  IN  Vector(d, n, Put(Put(d.flg, FI, FALSE), FT, FALSE))

\* A repeated string instruction that is not finished (KEEP) is entered
\* again from its first prefix.
trap(c, n) ==
  LET keep == "KEEP" \in c.prefix
      back == IF keep THEN c.cur_ip ELSE c.ip
      d    == push(push(push(c, c.flg), c.sreg[CS]), back)
  IN  Vector([d EXCEPT !.prefix = IF keep THEN {} ELSE @], n,
             Put(Put(d.flg, FI, FALSE), FT, FALSE))

\* e86_irq: the level of the interrupt request line.
irq(c, val) == [c EXCEPT !.irq = val]

\* e86_reset.
reset(c) ==
  [c EXCEPT !.dreg = [x \in 0 .. 7 |-> 0],
            !.sreg = [s \in 0 .. 3 |-> IF s = CS THEN 61440 ELSE 0],
            !.ip = 65520, !.flg = 0, !.save_flags = 0, !.pq_cnt = 0,
            !.irq = FALSE, !.state = RUN, !.prefix = {}]
===============================================================================
