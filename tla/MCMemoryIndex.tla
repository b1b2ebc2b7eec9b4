--------------------------- MODULE MCMemoryIndex ---------------------------
(* Instances of MemoryIndex for TLC. *)
EXTENDS MemoryIndex, TLC

CONSTANTS c1, x1, x2, x3, x4

DistinctHash == [x \in Contents |-> x]
=============================================================================
