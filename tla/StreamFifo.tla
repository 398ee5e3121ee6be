----------------------------- MODULE StreamFifo -----------------------------
(***************************************************************************)
(* What every stream buffer of the design promises (axis_reg, the axis_fifo *)
(* family, async_axis_fifo): a bounded first-in first-out queue between two *)
(* valid/ready ports.  A word is in the queue from the clock edge at which  *)
(* the sink port fires until the edge at which the source port fires.       *)
(*                                                                          *)
(* "in" and "out" are what an observer of the two ports saw at the last     *)
(* clock edge: the empty sequence when the port did not fire, the one-word  *)
(* sequence when it did.  They are the interface; "queue" is internal.      *)
(***************************************************************************)
EXTENDS Naturals, Sequences

CONSTANTS Data,       \* the words
          Capacity    \* the most words the buffer may hold

VARIABLES queue, in, out

vars == <<queue, in, out>>

\* A port at one clock edge: idle, or carrying one word.
Port == {<<>>} \cup {<<d>> : d \in Data}

Init == queue = <<>> /\ in = <<>> /\ out = <<>>

(* One clock edge of the write side, the read side, or both at once.  Only  *)
(* the oldest word may leave, and a word cannot leave at the edge it enters.*)
Transfer ==
    /\ in' \in Port /\ out' \in Port
    /\ Len(out') <= Len(queue)
    /\ out' \o queue' = queue \o in'
    /\ Len(queue') <= Capacity

\* Synchronous reset: whatever is stored is dropped.
Flush == queue' = <<>> /\ in' = <<>> /\ out' = <<>>

Next == Transfer \/ Flush

Spec == Init /\ [][Next]_vars
=============================================================================
