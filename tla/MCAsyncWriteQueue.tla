------------------------- MODULE MCAsyncWriteQueue -------------------------
(* Instances of AsyncWriteQueue for TLC. *)
EXTENDS AsyncWriteQueue, TLC

CONSTANTS c1, c2, d1, d2, x1, x2

\* The two contents differ and are close.
X1X2Similar == {<<x1, x2>>, <<x2, x1>>}

ProcessSymmetry == Permutations(Clients) \cup Permutations(Drains)
=============================================================================
