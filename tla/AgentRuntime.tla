----------------------------- MODULE AgentRuntime -----------------------------
(***************************************************************************)
(* LifecycleAgentRuntime: one instance that executes runs through an       *)
(* injected backend, on one event loop.  execute gives the loop away only  *)
(* while it awaits the backend, so everything before that await and        *)
(* everything after it is one action here, exceptions included; a call of  *)
(* cancel fits only in between.                                            *)
(*                                                                         *)
(* An operator on a lifecycle record stands for a method of                *)
(* RuntimeLifecycle: it returns the record the method leaves, with the     *)
(* exception it raised in the field "raised", and a record that carries an *)
(* exception already is returned as it is.                                 *)
(*                                                                         *)
(* RuntimeLifecycle._cancel_requested and RuntimeContext.cancellation_event*)
(* are one flag: only cancel sets them, both at once, and the lifecycle    *)
(* and the context of a call live equally long.  Left out of the data:     *)
(* ids, texts, metadata and timestamps.                                    *)
(***************************************************************************)
EXTENDS Naturals, Sequences, FiniteSets

CONSTANTS
  Calls,        \* calls of execute
  NoCall,       \* no call
  Runs,         \* agent runs
  RunOf,        \* the run each call executes
  MaxEvents     \* configuration.max_events

ASSUME CallsAssumption == NoCall \notin Calls
ASSUME RunOfAssumption == RunOf \in [Calls -> Runs]
ASSUME LimitAssumption == MaxEvents \in Nat \ {0}

VARIABLES
  active,       \* _active: the call whose lifecycle a run has, or NoCall
  pc,           \* where each call of execute is
  lifecycle     \* its RuntimeLifecycle

runtimeVars == <<active, pc, lifecycle>>

\* A call waits for the backend; afterwards it has "returned" a result or
\* "raised" an exception.  A call that is "refused" never had a lifecycle.
Positions == {"idle", "awaiting", "returned", "raised", "refused"}

RuntimeStatuses ==
  {"requested", "validating", "queued", "running", "waiting_for_approval",
   "succeeded", "failed", "cancelled", "retriable"}

RUNTIME_STATUS_TRANSITIONS ==
  [requested            |-> {"validating", "cancelled"},
   validating           |-> {"queued", "failed", "cancelled"},
   queued               |-> {"running", "cancelled"},
   running              |-> {"waiting_for_approval", "succeeded", "failed", "cancelled", "retriable"},
   waiting_for_approval |-> {"running", "failed", "cancelled"},
   succeeded            |-> {},
   failed               |-> {"retriable"},
   cancelled            |-> {},
   retriable            |-> {"queued", "cancelled"}]

TERMINAL_RUNTIME_STATUSES == {"succeeded", "failed", "cancelled"}

\* The exceptions execute handles: AgentCancelledError, AgentTimeoutError and
\* the other AgentRuntimeErrors, by what they say of a retry.  It leaves
\* validation and lifecycle errors to its caller.
Handled == {"cancelled", "timeout", "retryable", "runtime", "limit"}
Exceptions == Handled \cup {"validation", "lifecycle"}

\* A backend event has a name of its own, a status change the status.
EventNames == RuntimeStatuses \cup {"backend"}

Lifecycles ==
  [status : RuntimeStatuses, events : Seq(EventNames), cancelled : BOOLEAN,
   raised : Exceptions \cup {"none"}, error : Exceptions \cup {"none"}, retryable : BOOLEAN]

RuntimeTypeOK ==
  /\ active \in [Runs -> Calls \cup {NoCall}]
  /\ pc \in [Calls -> Positions]
  /\ lifecycle \in [Calls -> Lifecycles]

-----------------------------------------------------------------------------
(* The methods of RuntimeLifecycle and the helpers of execute. *)

\* transition: refused by the table first, then by the limit.
Transition(lc, goal) ==
  IF lc.raised # "none" THEN lc
  ELSE IF goal \notin RUNTIME_STATUS_TRANSITIONS[lc.status] THEN [lc EXCEPT !.raised = "lifecycle"]
  ELSE IF Len(lc.events) >= MaxEvents THEN [lc EXCEPT !.raised = "limit"]
  ELSE [lc EXCEPT !.status = goal, !.events = Append(@, goal)]

\* record, once for each event of the backend, until the limit is reached.
RecordBackend(lc, count) ==
  LET room == IF count <= MaxEvents - Len(lc.events) THEN count ELSE MaxEvents - Len(lc.events)
  IN  IF lc.raised # "none" THEN lc
      ELSE [lc EXCEPT !.events = @ \o [i \in 1 .. room |-> "backend"],
                      !.raised = IF room < count THEN "limit" ELSE "none"]

\* _check_cancelled.
CheckCancelled(lc) ==
  IF lc.raised = "none" /\ lc.cancelled THEN [lc EXCEPT !.raised = "cancelled"] ELSE lc

\* validate_execution, on the number of events and on the metadata.
ValidateExecution(lc, count, valid) ==
  IF lc.raised # "none" THEN lc
  ELSE IF ~ valid THEN [lc EXCEPT !.raised = "validation"]
  ELSE IF count > MaxEvents THEN [lc EXCEPT !.raised = "limit"]
  ELSE lc

\* Mutant: a new lifecycle starts in a status the table does not have.
NewLifecyclePending ==
  [status |-> "pending", events |-> <<"requested">>, cancelled |-> FALSE,
   raised |-> "none", error |-> "none", retryable |-> FALSE]

\* __init__: the lifecycle of a new execution.
NewLifecycle ==
  [status |-> "requested", events |-> <<"requested">>, cancelled |-> FALSE,
   raised |-> "none", error |-> "none", retryable |-> FALSE]

\* The status the handler of an exception asks for.
FailureStatus(exception) ==
  CASE exception = "cancelled"               -> "cancelled"
    [] exception \in {"timeout", "retryable"} -> "retriable"
    [] OTHER                                 -> "failed"

\* _failure_result: a retriable run has failed first.  What this raises in
\* turn leaves execute.
FailureResult(lc) ==
  LET goal   == FailureStatus(lc.raised)
      caught == [lc EXCEPT !.error = lc.raised, !.raised = "none", !.retryable = (goal = "retriable")]
      failed == IF goal = "retriable" /\ lc.status # "failed" THEN Transition(caught, "failed") ELSE caught
  IN  IF lc.status \in TERMINAL_RUNTIME_STATUSES THEN caught ELSE Transition(failed, goal)

-----------------------------------------------------------------------------

RuntimeInit ==
  /\ active = [r \in Runs |-> NoCall]
  /\ pc = [c \in Calls |-> "idle"]
  /\ lifecycle = [c \in Calls |-> NewLifecycle]

\* The end of the try statement: an exception it handles becomes a failure
\* result, and the run is no longer active whatever happened.
Leave(c, lc) ==
  LET final == IF lc.raised \in Handled THEN FailureResult(lc) ELSE lc
  IN  /\ lifecycle' = [lifecycle EXCEPT ![c] = final]
      /\ pc' = [pc EXCEPT ![c] = IF final.raised = "none" THEN "returned" ELSE "raised"]
      /\ active' = [active EXCEPT ![RunOf[c]] = NoCall]

\* execute, up to the await of the backend.
Execute(c) ==
  /\ pc[c] = "idle"
  /\ active[RunOf[c]] = NoCall
  /\ LET validating == CheckCancelled(Transition(NewLifecycle, "validating"))
         queued     == CheckCancelled(Transition(validating, "queued"))
         running    == CheckCancelled(Transition(queued, "running"))
     IN  IF running.raised # "none"
           THEN Leave(c, running)
           ELSE /\ lifecycle' = [lifecycle EXCEPT ![c] = running]
                /\ pc' = [pc EXCEPT ![c] = "awaiting"]
                /\ active' = [active EXCEPT ![RunOf[c]] = c]

\* execute refuses a definition or a context its validator objects to, and a
\* run that is active.
RefuseRequest(c) ==
  /\ pc[c] = "idle"
  /\ pc' = [pc EXCEPT ![c] = "refused"]
  /\ UNCHANGED <<active, lifecycle>>

\* Mutant: the cancellation is not checked after the await.
BackendReturnsUnchecked(c) ==
  /\ pc[c] = "awaiting"
  /\ \E count \in 0 .. MaxEvents + 1, valid \in BOOLEAN :
       LET checked == ValidateExecution(lifecycle[c], count, valid)
       IN  Leave(c, Transition(RecordBackend(checked, count), "succeeded"))

\* The backend answers.  Its events are recorded after the last check of a
\* cancellation, with no await in between.
BackendReturns(c) ==
  /\ pc[c] = "awaiting"
  /\ \E count \in 0 .. MaxEvents + 1, valid \in BOOLEAN :
       LET checked == CheckCancelled(ValidateExecution(lifecycle[c], count, valid))
       IN  Leave(c, Transition(RecordBackend(checked, count), "succeeded"))

\* The backend raises an error, which is a runtime error or is made one; no
\* backend is configured; or the task that executes is cancelled, which ends up
\* as a cancelled result too.
BackendFails(c) ==
  /\ pc[c] = "awaiting"
  /\ \E exception \in {"runtime", "retryable", "cancelled"} :
       Leave(c, [lifecycle[c] EXCEPT !.raised = exception])

\* The backend takes too long: wait_for gives it up, and the run may be retried.
TimesOut(c) ==
  /\ pc[c] = "awaiting"
  /\ Leave(c, [lifecycle[c] EXCEPT !.raised = "timeout"])

\* cancel, for a run that is active.
Cancel(r) ==
  /\ active[r] # NoCall
  /\ lifecycle' = [lifecycle EXCEPT ![active[r]].cancelled = TRUE]
  /\ UNCHANGED <<active, pc>>

RuntimeNext ==
  \/ \E c \in Calls : Execute(c) \/ RefuseRequest(c) \/ BackendReturns(c) \/ BackendFails(c) \/ TimesOut(c)
  \/ \E r \in Runs : Cancel(r)

RuntimeSpec == RuntimeInit /\ [][RuntimeNext]_runtimeVars

-----------------------------------------------------------------------------

\* A run is active exactly while one call executes it: two calls never execute
\* the same run, and a call that is refused or fails neither leaves its run
\* active nor ends another call's.
ActiveIsTheOneExecuting ==
  \A r \in Runs : \A c \in Calls :
    active[r] = c <=> pc[c] = "awaiting" /\ RunOf[c] = r

\* No run succeeds once cancel has answered that it was active.
CancelledNeverSucceeds ==
  \A c \in Calls : lifecycle[c].cancelled => lifecycle[c].status # "succeeded"

\* What a result says about a retry is what its status says, and its events
\* end with that status: the caller counts retries by the one and stores the
\* other.
RetryMatchesStatus ==
  \A c \in Calls : pc[c] = "returned" =>
    /\ lifecycle[c].retryable <=> lifecycle[c].status = "retriable"
    /\ lifecycle[c].error = "none" <=> lifecycle[c].status = "succeeded"
    /\ lifecycle[c].events[Len(lifecycle[c].events)] = lifecycle[c].status

\* "Stable result returned by every runtime execution attempt" (class
\* RuntimeResult).  An attempt with valid backend output goes without one only
\* when the backend's own events have filled the log, so that not even the
\* failure could be recorded; the table never refuses a transition.
OnlyAFullLogCostsTheResult ==
  \A c \in Calls : pc[c] = "raised" /\ lifecycle[c].raised # "validation" =>
    /\ lifecycle[c].raised = "limit"
    /\ Len(lifecycle[c].events) = MaxEvents
    /\ \E i \in 1 .. MaxEvents : lifecycle[c].events[i] = "backend"

\* What the caller of an attempt sees is what happened in it, however calls of
\* execute and cancel, the backend and its timeout race.
AttemptsAreSound ==
  /\ ActiveIsTheOneExecuting
  /\ CancelledNeverSucceeds
  /\ RetryMatchesStatus
  /\ OnlyAFullLogCostsTheResult
=============================================================================
