--------------------------- MODULE MCMemoryStore ---------------------------
(* Instances of MemoryStore for TLC. *)
EXTENDS MemoryStore, TLC

CONSTANTS t1, t2, c1, c2, x1, x2

OneTenant == [c \in Clients |-> t1]
TwoTenants == [c \in Clients |-> IF c = c1 THEN t1 ELSE t2]
Nobody == {}
T1ReadsT2 == {<<t1, t2>>}
NoneSimilar == {}
X1X2Similar == {<<x1, x2>>, <<x2, x1>>}

ClientSymmetry == Permutations(Clients)
=============================================================================
