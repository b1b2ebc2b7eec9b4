----------------------------- MODULE MCSignups -----------------------------
(* Instances of Signups for TLC. *)
EXTENDS Signups, TLC

CONSTANTS e1, s1, s2, r1, r2, c1, c2

MCEmailOf == [s \in Subs |-> e1]
=============================================================================
