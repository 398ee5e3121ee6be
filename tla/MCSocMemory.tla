---------------------------- MODULE MCSocMemory ----------------------------
(* SocMemory in three scenes: the CPU alone uses both memories, or two banks   *)
(* of the SDRAM, or shares the SDRAM with the video controller.              *)
EXTENDS SocMemory

MCAt(b, r, w, p) == [wr |-> w, bank |-> b, row |-> r, col |-> "col0", port |-> p]
MCBram(w) == <<"bram", [wr |-> w]>>
MCSdram(b, w) == <<"sdram", MCAt(b, "row0", w, "ps")>>

MCBoth == [cpu |-> {MCBram(FALSE), MCBram(TRUE), MCSdram(0, FALSE)}, video |-> {}]
MCBanks == [cpu |-> {MCSdram(0, FALSE), MCSdram(1, TRUE)}, video |-> {}]
MCShared == [cpu |-> {MCSdram(0, FALSE), MCSdram(0, TRUE)}, video |-> {MCAt(0, "row1", FALSE, "video")}]
MCScenes == {MCBoth, MCBanks, MCShared}
MCBothScene == {MCBoth}
=============================================================================
