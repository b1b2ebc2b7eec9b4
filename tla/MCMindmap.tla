----------------------------- MODULE MCMindmap -----------------------------
(* Instances of Mindmap for TLC. *)
EXTENDS Mindmap, TLC

CONSTANTS a1, a2, a3, w1, s1

\* Agents run the same calls.
AgentSymmetry == Permutations(Clients \ Web)
=============================================================================
