---------------------------- MODULE MCAgentRuns ----------------------------
(* AgentRuns for TLC: the cancelling requests are interchangeable. *)
EXTENDS AgentRuns, TLC

CancellerSymmetry == Permutations(Cancellers)
=============================================================================
