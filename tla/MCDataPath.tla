----------------------------- MODULE MCDataPath -----------------------------
(* DataPath with two memory cells and two cache lines.                       *)
EXTENDS DataPath

MCAll == [cmd : {"read", "write"}, addr : {1, 2, 3, 4}, w : BOOLEAN]
MCNoOddWordWrites == {r \in MCAll : ~(r.cmd = "write" /\ r.w /\ odd(r.addr))}
=============================================================================
