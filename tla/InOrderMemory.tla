---------------------------- MODULE InOrderMemory ----------------------------
(***************************************************************************)
(* What the prefetcher is promised by whatever answers its requests: the     *)
(* instruction cache, or the memory interconnect when the cache is switched  *)
(* off.  Every request is answered once, in the order of the requests, after *)
(* any delay but no sooner than two clock edges.  The word stored at an      *)
(* address is abstracted to the address itself.                              *)
(***************************************************************************)
EXTENDS Naturals, Sequences

CONSTANT Word                 \* word addresses, and the words stored there

VARIABLES pending,            \* requests not answered, oldest first
          recent,             \* how many of them came at the last edge
          rd                  \* the answer on the data wires, if any

vars == <<pending, recent, rd>>

Port == {<<>>} \cup {<<w>> : w \in Word}

Init == pending = <<>> /\ recent = 0 /\ rd = <<>>

(* One edge: "ask" is the request accepted at it.                            *)
Step(ask) ==
    /\ pending' = (IF rd # <<>> THEN Tail(pending) ELSE pending) \o ask
    /\ recent' = Len(ask)
    /\ rd' \in {<<>>} \cup (IF Len(pending') > recent' THEN {<<Head(pending')>>} ELSE {})

Next == \E ask \in Port : Step(ask)

Spec == Init /\ [][Next]_vars
=============================================================================
