---------------------------- MODULE MCPlanExecutor ----------------------------
(* PlanExecutor for TLC: three calls, two of them for the same run. *)
EXTENDS PlanExecutor, TLC

CONSTANTS c1, c2, c3, r1, r2

MCRunOf == (c1 :> r1) @@ (c2 :> r1) @@ (c3 :> r2)
=============================================================================
