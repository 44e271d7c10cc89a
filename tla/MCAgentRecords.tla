--------------------------- MODULE MCAgentRecords ---------------------------
(* AgentRecords for TLC: the requests are interchangeable, and so are keys and definitions. *)
EXTENDS AgentRecords, TLC

CONSTANTS r1, r2, r3, d1, d2, k1, k2

MCSymmetry == Permutations({r1, r2, r3}) \cup Permutations({d1, d2}) \cup Permutations({k1, k2})
=============================================================================
