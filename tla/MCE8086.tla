------------------------------- MODULE MCE8086 -------------------------------
(* The reference processor for TLC: families of short programs, each with    *)
(* the operands at which it is delicate.  Machine code is written in         *)
(* hexadecimal.  Programs start at CS:0400 as those of the bench do; memory  *)
(* behind a program is full of HLT.                                          *)
EXTENDS E8086Checks

At(a, code) == [x \in a .. a + Len(code) - 1 |-> code[x - a + 1]]

\* The first n entries of the interrupt table lead to 0:0520.
Vectors(n) == [x \in 0 .. (4 * n) - 1 |->
                 CASE x % 4 = 0 -> \h20 [] x % 4 = 1 -> \h05 [] OTHER -> 0]

Set(c, x, v) == SetR16(c, x, v)

Boot(code) ==
  [Blank EXCEPT !.ram = At(1024, code) @@ Vectors(7),
                !.sreg = [s \in 0 .. 3 |-> 512 * ((s + 3) % 4)],  \* ES 600, CS 0, SS 200, DS 400
                !.dreg[SP] = 256]

Flags(c, cf) == SetFlag(c, FC, cf)

\* Operand a in AX, b in BX.
WithAB(code, a, b, cf) == Flags(Set(Set(Boot(code), AX, a), BX, b), cf)

-----------------------------------------------------------------------------
Edge8  == {0, 1, \h0F, \h10, \h7F, \h80, \hFF}
Edge16 == {0, 1, \h0F, \h7FFF, \h8000, \hFFFF}

\* r/m, reg; reg, r/m; accumulator, immediate; the groups 80, 81 and 83.
Sums8 ==
  {WithAB(<<8 * n, \hD8>>, a, b, cf) :
      n \in 0 .. 7, a \in Edge8, b \in Edge8, cf \in BOOLEAN}

Sums16 ==
  {WithAB(<<8 * n + 1, \hD8>>, a, b, cf) :
      n \in 0 .. 7, a \in Edge16, b \in Edge16, cf \in BOOLEAN}

OtherForms ==
  UNION {{WithAB(<<8 * n + 2, \hC3>>, a, b, cf), WithAB(<<8 * n + 3, \hC3>>, a, b, cf),
          WithAB(<<8 * n + 4, b % 256>>, a, b, cf),
          WithAB(<<8 * n + 5, b % 256, b \div 256>>, a, b, cf),
          WithAB(<<\h80, 192 + (8 * n), b % 256>>, a, b, cf),
          WithAB(<<\h81, 192 + (8 * n), b % 256, b \div 256>>, a, b, cf),
          WithAB(<<\h83, 192 + (8 * n), b % 256>>, a, b, cf)} :
         n \in 0 .. 7, a \in {1, \h7FFF, \h8000}, b \in {1, \h80FF}, cf \in {TRUE}}

Multiplications ==
  {WithAB(<<op1, op2>>, a, b, FALSE) : op1 \in {\hF6, \hF7}, op2 \in {\hE3, \hEB},
     a \in Edge16 \cup {\h80, \hFF}, b \in Edge16 \cup {\h7F, \h80, \hFF}}

Divisions8 ==
  {WithAB(<<\hF6, x>>, a, b, FALSE) : x \in {\hF3, \hFB}, b \in Edge8 \cup {2},
     a \in {0, 1, \h7F, \h80, \h81, \hFF, \h100, \h3F80, \h4000, \h4080, \h7F80, \h8000,
            \hFF7F, \hFF80, \hFFFF}}

Divisions16 ==
  {Set(WithAB(<<\hF7, x>>, a, b, FALSE), DX, d) : x \in {\hF3, \hFB},
     b \in Edge16 \cup {2}, a \in {0, 1, \h7FFF, \h8000, \hFFFF},
     d \in {0, 1, \h3FFF, \h4000, \h7FFF, \h8001, \hC000, \hFFFF}}

Counts == {1, 2, 7, 8, 9, 15, 16, 17, 31}

Shifts ==
  {Set(WithAB(<<op1, 192 + (8 * x) + 3>>, 0, b, cf), CX, k) :
      op1 \in {\hD2, \hD3}, x \in {0, 1, 2, 3, 4, 5, 7}, b \in {1, \h8081, \hA5A5},
      cf \in BOOLEAN, k \in Counts \cup {0}}
  \cup
  {WithAB(<<op1, 192 + (8 * x) + 3, k>>, 0, b, TRUE) :
      op1 \in {\hC0, \hC1, \hD0, \hD1}, x \in {0, 1, 2, 3, 4, 5, 7},
      b \in {1, \h8081, \hA5A5}, k \in Counts}

Digits == {0, 1, 5, 8, 9}
Packed == {0, 1, 9, \h10, \h45, \h50, \h55, \h90, \h99}

Decimals ==
  {WithAB(<<op1, \hD8, IF op1 < 20 THEN \h27 ELSE \h2F>>, a, b, cf) :
      op1 \in Sums \cup Differences, a \in Packed, b \in Packed, cf \in BOOLEAN}
  \cup
  {WithAB(<<op1, \hD8, IF op1 < 20 THEN \h37 ELSE \h3F>>, 256 * h + a, b, TRUE) :
      op1 \in Sums \cup Differences, a \in Digits, b \in Digits, h \in {0, 1, 255}}
  \cup
  {WithAB(<<op1, base>>, ax, 0, FALSE) :
      op1 \in {\hD4, \hD5}, base \in {0, 10, 16}, ax \in {0, 9, 10, 255, \h0905, \hFFFF}}

Comparisons ==
  {WithAB(<<op1, \hD8, \h70 + x, 16>>, a, b, FALSE) :
      op1 \in {\h38, \h39}, x \in 0 .. 15, a \in {0, 1, \h7FFF, \h8000, \hFFFF, \h80},
      b \in {0, 1, \h7FFF, \h8000, \hFFFF}}

-----------------------------------------------------------------------------
\* First bytes and forms of ModRM; groups with each of their operations.
Groups == {\h80, \h81, \h82, \h83, \hC0, \hC1, \hD0, \hD1, \hD2, \hD3, \hF6, \hF7,
           \hFE, \hFF, \h8C, \h8E}

Forms == {<<0, 0>>, <<0, 6>>, <<1, 2>>, <<2, 5>>, <<3, 1>>}

ModRM(form, field) == (64 * form[1]) + (8 * field) + form[2]

\* In a segment of its own, so that every jump ends in a HLT.
Lonely(code) ==
  [Set(Set(Boot(<<>>), CX, 1), BX, 64) EXCEPT
     !.ram = At(67584, code \o <<3, 1, 2, 0, 4, 4>>) @@ Vectors(256),
     !.sreg[CS] = 4096, !.ip = 2048]

Sweep ==
  LET codes == {<<b, ModRM(f, 2)>> : b \in (0 .. 255) \ (Groups \cup Prefixes), f \in Forms}
               \cup {<<b, ModRM(f, x)>> : b \in Groups, f \in Forms, x \in 0 .. 7}
               \cup {<<p, b, ModRM(f, 0)>> : p \in Prefixes, f \in Forms,
                       b \in {\h03, \h87, \h8D, \hA1, \hA4, \hA6, \hAB, \hAC, \hAE, \hC7,
                              \hCD, \hD7, \hF7, \hFF, \h6D, \h6F, \h90, \h2E}}
  IN  {Lonely(code) : code \in codes}

\* Programs that run into the end of the segment, from every distance.
SegmentEnd ==
  LET code == <<\hB8, \h34, \h12, \h05, 1, 0, \h40, \hB3, 7, \h81, \hC3, 5, 6, \h43, \h90, \hB9,
                2, 0, \h41, \h41, \h41, \h41, \h90, \h90>>
      Start(ip) ==
        [Boot(<<>>) EXCEPT !.sreg[CS] = 4096, !.ip = ip,
           !.ram = [a \in {Linear(4096, ip + i) : i \in 0 .. Len(code) - 1} |->
                      code[((a - 65536 - ip) % Word) + 1]]]
  IN  {Start(ip) : ip \in \hFFE6 .. \hFFFF}

\* Programs that run past the end of the RAM, which ends at F001:FFF0, from
\* every even distance: instructions of an even number of bytes, so that no
\* word straddles the end.
RamEnd ==
  LET code == <<\hB3, 7, 4, 1, \h81, \hC3, 5, 6, \h2C, 3, \h81, \hEB, 1, 2, \hB5, 9,
                \h81, \hC1, \h34, \h12, \hF4, \hF4>>
      Start(ip) ==
        LET a0 == Linear(\hF001, ip)
        IN  [Boot(<<>>) EXCEPT !.sreg[CS] = \hF001, !.ip = ip,
               !.ram = [a \in {(a0 + i) % RamSize : i \in 0 .. Len(code) - 1} |->
                          code[((a - a0) % RamSize) + 1]]]
  IN  {Start(\hFFF0 - 2 * k) : k \in 1 .. 14}

-----------------------------------------------------------------------------
\* Programs under interrupts.  The request (vector 20h), the single step and
\* the other traps have handlers that count and return; that of the division
\* mends the divisor.
Entry(n, ip) == At(4 * n, <<ip % 256, ip \div 256, 0, 0>>)

Handlers ==
  Entry(0, \h540) @@ Entry(1, \h510) @@ Entry(\h20, \h500) @@ Entry(\h21, \h550)
  @@ At(\h500, <<\h2E, \hFE, 6, 0, 7, \hCF>>) @@ At(\h510, <<\h2E, \hFE, 6, 1, 7, \hCF>>)
  @@ At(\h540, <<\hBB, 3, 0, \hCF>>)
  @@ At(\h550, <<\h60, \hFC, \hB9, 2, 0, \hF3, \hAB, \h61, \hCF>>)

StackPrograms ==
  {<<\h8E, \hD0, \h89, \hDC, \h51, \hF4>>,                       \* MOV SS, AX; MOV SP, BX; PUSH CX
   <<\h50, \h17, \h89, \hDC, \h51, \hF4>>,                       \* PUSH AX; POP SS; ...
   <<\h60, \h31, \hC0, \h61, \h50, \hF4>>,                       \* PUSHA; XOR AX, AX; POPA; PUSH AX
   <<\hC8, 4, 0, 1, \h50, \hC9, \h50, \hF4>>,                    \* ENTER 4, 1; PUSH AX; LEAVE; ...
   <<\hE8, 3, 0, \hF4, \hF4, \hF4, \h42, \hC3>>,                 \* CALL; HLT; ...; INC DX; RET
   <<\hFA, \h40, \h9C, \hFB, \h40, \h9D, \hFB, \h40, \hF4>>,      \* CLI ... PUSHF; STI; POPF; STI
   <<\hCD, \h21, \h40, \hF4>>,                                   \* INT 21h
   <<\h31, \hD2, \h31, \hDB, \hF7, \hF3, \hF4>>}                 \* a division by zero, mended

StringPrograms ==
  {<<\hF3, \h2E, \hA4, \hF4>>, <<\h2E, \hF3, \hA5, \hF4>>,       \* REP CS: MOVSB; CS: REP MOVSW
   <<\hF3, \h26, \hA6, \h40, \hF4>>, <<\hF2, \hAF, \h40, \hF4>>,  \* REPE ES: CMPSB; REPNE SCASW
   <<\h26, \h8B, 7, \hF3, \hAA, \h36, \hFF, 7, \hF4>>,            \* MOV AX, ES:[BX]; REP STOSB; INC SS:[BX]
   <<\hFD, \hF3, \hAD, \hF0, \h40, \hFC, \hAC, \hF4>>}            \* STD; REP LODSW; LOCK INC AX; CLD; LODSB

Guest(code) ==
  LET c == Set(Set(Set(Boot(code), SI, 1024), DI, 64), CX, 3)
  IN  [Set(Set(c, AX, \h500), BX, 128) EXCEPT !.ram = Handlers @@ @]

\* Single-stepped programs clear the trap flag by a POPF before they halt.
Stepped(code) ==
  SetFlag(Guest(<<\h40>> \o SubSeq(code, 1, Len(code) - 1) \o <<\h68, 2, \hF2, \h9D, \hF4>>),
          FT, TRUE)

MCDisturbed ==
  {Guest(code) : code \in StackPrograms \cup StringPrograms}
  \cup {Stepped(code) : code \in StringPrograms}

\* Repeated strings, with data that differ late, early or not at all; DS is
\* 400; ES is 600, or DI points to the element after SI's.
Block(rep, b, down, n, by) ==
  LET c == SetFlag(Boot(<<rep, b, \hF4>>), FD, down)
      di == IF by = 0 THEN 64 ELSE IF down THEN 64 - by ELSE 64 + by
  IN  [Set(Set(Set(Set(c, AX, \h0707), CX, n), SI, 64), DI, di)
         EXCEPT !.sreg[ES] = IF by = 0 THEN 1536 ELSE 1024,
                !.ram = At(16384 + 56, <<1, 1, 2, 2, 7, 7, 3, 3, 7, 7, 7, 7, 7, 9, 9>>)
                        @@ At(24576 + 56, <<1, 1, 2, 2, 7, 8, 3, 3, 7, 7, 7, 7, 6, 6, 7>>) @@ @]

Blocks ==
  {Block(rep, b, down, n, by) :
     rep \in {\hF2, \hF3}, b \in {\hA4, \hA6, \hAA, \hAC, \hAE}, down \in BOOLEAN,
     n \in {0, 1, 3}, by \in {0, 1}}
  \cup
  {Block(rep, b, down, n, by) :
     rep \in {\hF2, \hF3}, b \in {\hA5, \hA7, \hAB, \hAD, \hAF}, down \in BOOLEAN,
     n \in {0, 1, 3}, by \in {0, 2}}

MCMachines ==
  Sums8 \cup Sums16 \cup OtherForms \cup Multiplications \cup Divisions8 \cup Divisions16
  \cup Shifts \cup Decimals \cup Comparisons \cup Sweep \cup SegmentEnd \cup RamEnd \cup Blocks \cup MCDisturbed

\* The counters of the handlers, and the frames below the stack pointers in
\* use: 0200:0100, and 0500:0080 for the programs that change the stack.
MCScratch == \h700 .. \h701 \cup (8192 + 216) .. (8192 + 255)
             \cup (20480 + 88) .. (20480 + 127)

\* The bench: a repeated move and a jump, ports, a program that halts with
\* bytes in the queue, one that leaves registers and a request for nothing.
MCPrograms ==
  {At(1024, <<\hBE, 0, 4, \hBF, 0, \h30, \hB9, 3, 0, \hF3, \hA4, \hEB, 1, \h40, \h43, \hF4>>),
   At(1024, <<\hE4, \h10, \h40, \hE7, \h10, \hF4, \h42, \h42>>),
   At(1024, <<\h68, 5, 0, \h5B, \h01, \hDB, \hF4>>)}
===============================================================================
