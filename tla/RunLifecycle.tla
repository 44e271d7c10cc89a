---------------------------- MODULE RunLifecycle ----------------------------
(***************************************************************************)
(* What the lifecycle of an agent run promises: the status of a run starts *)
(* at "requested" and every change of it follows the table of policies.py. *)
(* AgentRuns implements this specification when no two requests write the  *)
(* same run.                                                               *)
(***************************************************************************)

VARIABLE status     \* the status column of the run, "absent" before the row exists

\* The members of AgentRunStatus.
RunStatuses ==
  {"requested", "validating", "queued", "running", "waiting_for_approval",
   "succeeded", "failed", "cancelled", "retriable"}

\* The table of the legal changes of a run's status.
RUN_STATUS_TRANSITIONS ==
  [requested            |-> {"validating", "cancelled"},
   validating           |-> {"queued", "failed", "cancelled"},
   queued               |-> {"running", "cancelled"},
   running              |-> {"waiting_for_approval", "succeeded", "failed",
                             "cancelled", "retriable"},
   waiting_for_approval |-> {"running", "failed", "cancelled"},
   succeeded            |-> {},
   failed               |-> {"retriable"},
   cancelled            |-> {},
   retriable            |-> {"queued", "cancelled"}]

\* validate_status_transition accepts exactly these pairs.
LegalTransition(current, goal) ==
  /\ current \in RunStatuses
  /\ goal \in RUN_STATUS_TRANSITIONS[current]

-----------------------------------------------------------------------------

Init == status = "absent"

\* The run is inserted; the column defaults to "requested".
Create ==
  /\ status = "absent"
  /\ status' = "requested"

\* One legal change of the status.
Transition ==
  \E goal \in RunStatuses :
    /\ LegalTransition(status, goal)
    /\ status' = goal

Next == Create \/ Transition

Spec == Init /\ [][Next]_status
=============================================================================
