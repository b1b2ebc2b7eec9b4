---------------------------- MODULE MCTeamAccess ----------------------------
(* Instances of TeamAccess for TLC. *)
EXTENDS TeamAccess, TLC

CONSTANTS u1, u2, t1, t2, t3, c1, c2

\* One user has founded two of the teams.
TwoFounded == [t \in {t1, t2} |-> u1]
=============================================================================
