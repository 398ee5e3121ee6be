------------------------------ MODULE MCSnake ------------------------------
(* Snake on a board of three by three squares, with a ring of two bytes and  *)
(* the keys of the number block and the space bar.                           *)
EXTENDS Snake

\* Up with its prefix; the other arrows; the space bar, pressed and released.
MCKeystrokes == {<<224, 117>>, <<107>>, <<114>>, <<116>>, <<41, 240, 41>>}
=============================================================================
