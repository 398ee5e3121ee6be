---------------------------- MODULE MCInterrupts ----------------------------
(* Interrupts with two lines (timer and keyboard, the ones the SoC connects), *)
(* one of which the program may mask; with one line and every instruction;   *)
(* with one line and a program that does not clear IF by CLI or POPF; and    *)
(* with repeated string instructions.                                        *)
EXTENDS Interrupts

MCTwoLines == [kinds |-> {"alu", "popf"}, masks |-> {{1}}, lines |-> {0, 1}]
MCOneLine == [kinds |-> AllKinds \ {"mov", "sti", "rep", "cmps"}, masks |-> {}, lines |-> {0}]
MCKeepsIF == [kinds |-> {"alu", "hlt", "iret", "branch", "prefix"}, masks |-> {}, lines |-> {0}]
MCStrings == [kinds |-> {"rep", "cmps", "alu", "branch"}, masks |-> {}, lines |-> {0}]
MCPrograms == {MCTwoLines, MCOneLine, MCKeepsIF, MCStrings}

(* The programs of the two runs in which somebody waits for ever.            *)
MCRepOnly == {[kinds |-> {"rep", "cmps", "alu"}, masks |-> {}, lines |-> {}]}
MCCliOnly == {[kinds |-> {"alu", "cli"}, masks |-> {}, lines |-> {0}]}
=============================================================================
