----------------------------- MODULE PlanExecutor -----------------------------
(***************************************************************************)
(* DeterministicExecutor: one instance coordinating the plans of several   *)
(* runs on one event loop.  execute gives the loop away only at its        *)
(* asyncio.sleep(0) calls, before and after every step of the plan, so     *)
(* everything it does between two of them is one action here, exceptions   *)
(* included; a call of cancel fits only between them.                      *)
(*                                                                         *)
(* An operator on a lifecycle record stands for a method of                *)
(* _ExecutionLifecycle: it returns the record the method leaves, with the  *)
(* code of the exception it raised in the field "raised", and a record     *)
(* that carries an exception already is returned as it is.                 *)
(*                                                                         *)
(* Left out of the data: ids, texts, metadata and timestamps, and with     *)
(* them the byte limit of a result; a plan is the sequence of its step     *)
(* types, and a plan validate_plan refuses is the action RefuseRequest.    *)
(***************************************************************************)
EXTENDS Naturals, Sequences, FiniteSets

CONSTANTS
  Calls,        \* calls of execute
  NoCall,       \* no call
  Runs,         \* agent runs
  RunOf,        \* the run each call executes
  MaxSteps,     \* limits.max_steps
  MaxEvents,    \* limits.max_events
  DeniedTypes   \* the step types the policies refuse

ASSUME CallsAssumption == NoCall \notin Calls
ASSUME RunOfAssumption == RunOf \in [Calls -> Runs]
ASSUME LimitsAssumption == MaxSteps \in Nat \ {0} /\ MaxEvents \in Nat \ {0}

StepTypes == {"instruction", "tool"}

ASSUME PolicyAssumption == DeniedTypes \subseteq StepTypes

VARIABLES
  active,       \* _active: the call whose lifecycle a run has, or NoCall
  pc,           \* where each call of execute is
  plan,         \* the plan it coordinates
  position,     \* the step it is at
  lifecycle     \* its _ExecutionLifecycle

vars == <<active, pc, plan, position, lifecycle>>

\* A call sleeps before and after a step; afterwards it has "returned" a
\* result, "raised" an exception or was "dropped" with its task.  A call that
\* is "refused" never had a lifecycle.
Sleeping == {"before", "after"}
Positions == {"idle", "returned", "raised", "dropped", "refused"} \cup Sleeping

ExecutionStatuses ==
  {"requested", "validating", "running", "waiting_for_approval",
   "succeeded", "failed", "cancelled"}

StepStatuses == {"pending", "running", "completed", "deferred", "failed", "cancelled"}

EXECUTION_STATUS_TRANSITIONS ==
  [requested            |-> {"validating", "cancelled"},
   validating           |-> {"running", "failed", "cancelled"},
   running              |-> {"waiting_for_approval", "succeeded", "failed", "cancelled"},
   waiting_for_approval |-> {"running", "failed", "cancelled"},
   succeeded            |-> {},
   failed               |-> {},
   cancelled            |-> {}]

TERMINAL_EXECUTION_STATUSES == {"succeeded", "failed", "cancelled"}

Codes == {"none", "executor_validation", "executor_limit", "executor_policy", "executor_cancelled"}

EventNames == ExecutionStatuses \cup {"step.started", "step.deferred", "step.completed"}

Lifecycles ==
  [status : ExecutionStatuses, steps : Seq(StepStatuses), events : Seq(EventNames),
   cancelled : BOOLEAN, raised : Codes, error : Codes]

Plans == UNION {[1 .. n -> StepTypes] : n \in 1 .. MaxSteps}

TypeOK ==
  /\ active \in [Runs -> Calls \cup {NoCall}]
  /\ pc \in [Calls -> Positions]
  /\ plan \in [Calls -> Plans \cup {<<>>}]
  /\ position \in [Calls -> 0 .. MaxSteps]
  /\ lifecycle \in [Calls -> Lifecycles]

-----------------------------------------------------------------------------
(* The methods of _ExecutionLifecycle and the helpers of execute. *)

\* record: one more event, unless the limit is reached.
Record(lc, name) ==
  IF lc.raised # "none" THEN lc
  ELSE IF Len(lc.events) >= MaxEvents THEN [lc EXCEPT !.raised = "executor_limit"]
  ELSE [lc EXCEPT !.events = Append(@, name)]

\* transition: the status is set before the event that says so is recorded.
Transition(lc, goal) ==
  IF lc.raised # "none" THEN lc
  ELSE IF goal \notin EXECUTION_STATUS_TRANSITIONS[lc.status]
    THEN [lc EXCEPT !.raised = "executor_validation"]
  ELSE Record([lc EXCEPT !.status = goal], goal)

\* set_step_status.
SetStep(lc, i, value) == IF lc.raised # "none" THEN lc ELSE [lc EXCEPT !.steps[i] = value]

\* _check_cancelled.
CheckCancelled(lc) ==
  IF lc.raised = "none" /\ lc.cancelled
    THEN [lc EXCEPT !.raised = "executor_cancelled"] ELSE lc

\* _validate_policies.
ValidatePolicies(lc, types) ==
  IF lc.raised = "none" /\ \E i \in DOMAIN types : types[i] \in DeniedTypes
    THEN [lc EXCEPT !.raised = "executor_policy"] ELSE lc

\* Mutant: a tool step gets a status of its own.
OutcomeSkipped(type) == IF type = "tool" THEN "skipped" ELSE "completed"

\* _progress_step: nothing is executed, a tool step is deferred.
Outcome(type) == IF type = "tool" THEN "deferred" ELSE "completed"

ProgressStep(lc, i, type) ==
  LET started == Record(SetStep(lc, i, "running"), "step.started")
      name    == IF type = "tool" THEN "step.deferred" ELSE "step.completed"
  IN  Record(SetStep(started, i, Outcome(type)), name)

\* __init__: the lifecycle of a new execution.
NewLifecycle(types) ==
  [status |-> "requested", steps |-> [i \in DOMAIN types |-> "pending"], events |-> <<"requested">>,
   cancelled |-> FALSE, raised |-> "none", error |-> "none"]

\* Mutant: only the step that was running gets the outcome.
FailureResultKeepsPending(lc) ==
  LET goal    == IF lc.raised = "executor_cancelled" THEN "cancelled" ELSE "failed"
      closed  == [i \in DOMAIN lc.steps |-> IF lc.steps[i] = "running" THEN goal ELSE lc.steps[i]]
      settled == [lc EXCEPT !.steps = closed, !.error = lc.raised, !.raised = "none"]
  IN  IF lc.status \in TERMINAL_EXECUTION_STATUSES THEN settled ELSE Transition(settled, goal)

\* _failure_result: the exception becomes the result's error code, the steps
\* that are not done get its outcome, and the status follows unless it is
\* terminal already.  What this raises in turn leaves execute.
FailureResult(lc) ==
  LET goal    == IF lc.raised = "executor_cancelled" THEN "cancelled" ELSE "failed"
      closed  == [i \in DOMAIN lc.steps |->
                    IF lc.steps[i] \in {"pending", "running"} THEN goal ELSE lc.steps[i]]
      settled == [lc EXCEPT !.steps = closed, !.error = lc.raised, !.raised = "none"]
  IN  IF lc.status \in TERMINAL_EXECUTION_STATUSES THEN settled ELSE Transition(settled, goal)

-----------------------------------------------------------------------------

Init ==
  /\ active = [r \in Runs |-> NoCall]
  /\ pc = [c \in Calls |-> "idle"]
  /\ plan = [c \in Calls |-> <<>>]
  /\ position = [c \in Calls |-> 0]
  /\ lifecycle = [c \in Calls |-> NewLifecycle(<<>>)]

\* The end of the try statement: an exception becomes a failure result, and
\* the run is no longer active whatever happened.
Leave(c, lc) ==
  LET final == IF lc.raised = "none" THEN lc ELSE FailureResult(lc)
  IN  /\ lifecycle' = [lifecycle EXCEPT ![c] = final]
      /\ pc' = [pc EXCEPT ![c] = IF final.raised = "none" THEN "returned" ELSE "raised"]
      /\ active' = [active EXCEPT ![RunOf[c]] = NoCall]

\* Goes on to the next sleep, or leaves with the exception in flight.
SleepOrLeave(c, lc, where) ==
  IF lc.raised # "none"
    THEN Leave(c, lc)
    ELSE /\ lifecycle' = [lifecycle EXCEPT ![c] = lc]
         /\ pc' = [pc EXCEPT ![c] = where]
         /\ active' = [active EXCEPT ![RunOf[c]] = c]

\* execute, up to the first sleep.
Execute(c) ==
  /\ pc[c] = "idle"
  /\ active[RunOf[c]] = NoCall
  /\ \E types \in Plans :
       /\ plan' = [plan EXCEPT ![c] = types]
       /\ LET validated == CheckCancelled(Transition(NewLifecycle(types), "validating"))
          IN  SleepOrLeave(c, Transition(ValidatePolicies(validated, types), "running"), "before")
  /\ position' = [position EXCEPT ![c] = 1]

\* execute refuses a request its validator or the tool registry objects to,
\* and one for a run that is active.
RefuseRequest(c) ==
  /\ pc[c] = "idle"
  /\ pc' = [pc EXCEPT ![c] = "refused"]
  /\ UNCHANGED <<active, plan, position, lifecycle>>

\* Mutant: the cancellation is not checked before a step.
CoordinateUnchecked(c) ==
  /\ pc[c] = "before"
  /\ SleepOrLeave(c, ProgressStep(lifecycle[c], position[c], plan[c][position[c]]), "after")
  /\ UNCHANGED <<plan, position>>

\* The sleep before a step is over.
Coordinate(c) ==
  /\ pc[c] = "before"
  /\ SleepOrLeave(c, ProgressStep(CheckCancelled(lifecycle[c]), position[c], plan[c][position[c]]), "after")
  /\ UNCHANGED <<plan, position>>

\* Mutant: a step that was deferred is waited for.
AdvanceWaitsForTools(c) ==
  /\ pc[c] = "after"
  /\ lifecycle[c].steps[position[c]] = "completed"
  /\ LET checked == CheckCancelled(lifecycle[c])
     IN  IF position[c] < Len(plan[c])
           THEN /\ SleepOrLeave(c, checked, "before")
                /\ position' = [position EXCEPT ![c] = IF checked.raised = "none" THEN @ + 1 ELSE @]
           ELSE /\ Leave(c, Transition(checked, "succeeded"))
                /\ UNCHANGED position
  /\ UNCHANGED plan

\* The sleep after a step is over: on to the next step, or to the end.
Advance(c) ==
  /\ pc[c] = "after"
  /\ LET checked == CheckCancelled(lifecycle[c])
     IN  IF position[c] < Len(plan[c])
           THEN /\ SleepOrLeave(c, checked, "before")
                /\ position' = [position EXCEPT ![c] = IF checked.raised = "none" THEN @ + 1 ELSE @]
           ELSE /\ Leave(c, Transition(checked, "succeeded"))
                /\ UNCHANGED position
  /\ UNCHANGED plan

\* cancel, for a run that is active: request_cancel.
Cancel(r) ==
  /\ active[r] # NoCall
  /\ lifecycle[active[r]].status \notin TERMINAL_EXECUTION_STATUSES
  /\ lifecycle' = [lifecycle EXCEPT ![active[r]].cancelled = TRUE]
  /\ UNCHANGED <<active, pc, plan, position>>

\* The task that executes is cancelled at one of its sleeps: CancelledError is
\* no AgentExecutorError, so only the finally clause runs.
Drop(c) ==
  /\ pc[c] \in Sleeping
  /\ pc' = [pc EXCEPT ![c] = "dropped"]
  /\ active' = [active EXCEPT ![RunOf[c]] = NoCall]
  /\ UNCHANGED <<plan, position, lifecycle>>

Step(c) == Coordinate(c) \/ Advance(c)

Next ==
  \/ \E c \in Calls : Execute(c) \/ RefuseRequest(c) \/ Step(c) \/ Drop(c)
  \/ \E r \in Runs : Cancel(r)

Spec == Init /\ [][Next]_vars

\* asyncio runs every task that is ready.
FairSpec == Spec /\ \A c \in Calls : WF_vars(Step(c))

-----------------------------------------------------------------------------

\* A run is active exactly while one call coordinates it: two calls never
\* coordinate the same run, and a call that is refused, fails or is dropped
\* neither leaves its run active nor ends another call's.
ActiveIsTheOneCoordinating ==
  \A r \in Runs : \A c \in Calls :
    active[r] = c <=> pc[c] \in Sleeping /\ RunOf[c] = r

\* A cancellation the executor acknowledged, at whatever point of the plan, is
\* never lost: no result of that execution says anything else.
AcknowledgedCancelIsFinal ==
  \A c \in Calls : pc[c] = "returned" /\ lifecycle[c].cancelled =>
    /\ lifecycle[c].status = "cancelled"
    /\ lifecycle[c].error = "executor_cancelled"

\* The places of the event log where a step was started.
StepsStarted(events) == {i \in DOMAIN events : events[i] = "step.started"}

\* Once a cancellation is requested no further step is started.
NoStepAfterCancel ==
  [][ \A c \in Calls : lifecycle[c].cancelled =>
        StepsStarted(lifecycle'[c].events) = StepsStarted(lifecycle[c].events) ]_vars

\* A result without an error has coordinated the whole plan in order, one that
\* has an error a prefix of it; the steps after the prefix share its outcome.
StepsFollowPlan ==
  \A c \in Calls : pc[c] = "returned" =>
    LET steps == lifecycle[c].steps
    IN  \E k \in 0 .. Len(plan[c]) :
          /\ \A i \in 1 .. k : steps[i] = Outcome(plan[c][i])
          /\ \A i \in k + 1 .. Len(plan[c]) :
               steps[i] = IF lifecycle[c].error = "executor_cancelled" THEN "cancelled" ELSE "failed"
          /\ lifecycle[c].error = "none" => k = Len(plan[c])

\* The events of a result tell its status, unless the event limit cut them.
ResultIsLogged ==
  \A c \in Calls : pc[c] = "returned" /\ lifecycle[c].error # "executor_limit" =>
    lifecycle[c].events[Len(lifecycle[c].events)] = lifecycle[c].status

\* "Failures are represented through typed results and events"
\* (docs/phase-6-agent-framework.md, Executor).  A failure is raised to the
\* caller, or returned with the status succeeded, only when the event log is
\* full to the limit; and no path asks for a transition the table refuses.
OnlyAFullLogHidesAFailure ==
  \A c \in Calls :
    \/ pc[c] = "raised"
    \/ pc[c] = "returned" /\ lifecycle[c].error # "none" /\ lifecycle[c].status = "succeeded"
    => /\ Len(lifecycle[c].events) = MaxEvents
       /\ "executor_limit" \in {lifecycle[c].raised, lifecycle[c].error}

\* What the caller of an execution sees is what happened in it, however calls
\* of execute and cancel interleave and wherever the event limit is met.
ExecutionsAreSound ==
  /\ ActiveIsTheOneCoordinating
  /\ AcknowledgedCancelIsFinal
  /\ StepsFollowPlan
  /\ ResultIsLogged
  /\ OnlyAFullLogHidesAFailure

\* Every execution that has begun ends.
ExecutionEnds == <>[](\A c \in Calls : pc[c] \notin Sleeping)
=============================================================================
