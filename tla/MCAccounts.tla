---------------------------- MODULE MCAccounts ----------------------------
(* Instances of Accounts for TLC. *)
EXTENDS Accounts, TLC

CONSTANTS e1, e2, s1, s2, r1, r2, c1, c2, k1, k2

\* Two users with an e-mail each.
MCEmailOf == [s \in Subs |-> IF s = s1 THEN e1 ELSE e2]

\* Reconcilers run the same job.
ReconcilerSymmetry == Permutations(Reconcilers)
=============================================================================
