------------------------------ MODULE MCDesktop ------------------------------
(* A small desktop with two windows, for TLC. *)
EXTENDS Desktop

\* In bytes of four bits: no movement, one pixel forwards and one backwards.
MCMoves == {0, 4, 12}

\* One window lies across the desktop, the other stands at its right.
MCFirstPlace == <<[x |-> 0, y |-> 0], [x |-> 1, y |-> 0]>>
MCSize == <<[w |-> 2, h |-> 1], [w |-> 1, h |-> 2]>>
=============================================================================
