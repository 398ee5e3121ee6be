----------------------------- MODULE MCExecute ------------------------------
(* Programs of three instructions, from families of kinds that share          *)
(* registers and units: data, stack, jumps.                                  *)
EXTENDS Execute

MCData == {"movi", "xchg", "add", "shl", "mul", "daa", "clc", "load", "store", "addr", "addm", "shlm", "mulm", "les"}
MCStack == {"add", "shlm", "popr", "popf", "popm", "pushr", "pushm", "leave", "les", "callp"}
MCJumps == {"jcc", "loop", "jcxz", "jmpr", "jmpm", "callm", "callf", "ret", "retn", "iret", "add", "popr", "store"}
MCFamilies == {MCData, MCStack, MCJumps}

MCXchg == {{"xchgm", "store"}}
=============================================================================
