-------------------------- MODULE PlanExecutorProofs --------------------------
(***************************************************************************)
(* What DeterministicExecutor keeps, for any number of calls and runs, any *)
(* plans and any limits.  ExecutorInv is inductive: it says how far a call *)
(* has come in its plan at each of its sleeps, and what its lifecycle can  *)
(* have become once execute is left.  Every exception is taken through     *)
(* FailureResult from a lifecycle that Failing describes.                  *)
(***************************************************************************)
EXTENDS PlanExecutor, SequenceTheorems, TLAPS

\* The first k steps have their outcome.
Done(steps, types, k) ==
  /\ Len(steps) = Len(types)
  /\ \A i \in 1 .. k : steps[i] = Outcome(types[i])

\* At a sleep: k steps are done and the others pending.
Underway(lc, types, k) ==
  /\ lc \in Lifecycles
  /\ lc.status = "running" /\ lc.raised = "none" /\ lc.error = "none"
  /\ Len(lc.events) \in 1 .. MaxEvents
  /\ k \in 0 .. Len(types)
  /\ Done(lc.steps, types, k)
  /\ \A i \in k + 1 .. Len(types) : lc.steps[i] = "pending"

\* With an exception in flight that execute will handle.
Failing(lc, types) ==
  /\ lc \in Lifecycles
  /\ lc.raised \in {"executor_limit", "executor_policy", "executor_cancelled"} /\ lc.error = "none"
  /\ lc.cancelled => lc.raised = "executor_cancelled"
  /\ Len(lc.events) \in 1 .. MaxEvents
  /\ lc.raised = "executor_limit" => Len(lc.events) = MaxEvents
  /\ \/ lc.status \in {"validating", "running"}
     \/ lc.status = "succeeded" /\ lc.raised = "executor_limit"
  /\ \E k \in 0 .. Len(types) :
       /\ Done(lc.steps, types, k)
       /\ \A i \in k + 1 .. Len(types) : lc.steps[i] \in {"pending", "running"}

\* A result.
Returned(lc, types) ==
  /\ lc.cancelled => lc.status = "cancelled" /\ lc.error = "executor_cancelled"
  /\ \E k \in 0 .. Len(types) :
       /\ \A i \in 1 .. k : lc.steps[i] = Outcome(types[i])
       /\ \A i \in k + 1 .. Len(types) :
            lc.steps[i] = IF lc.error = "executor_cancelled" THEN "cancelled" ELSE "failed"
       /\ lc.error = "none" => k = Len(types)
  /\ lc.error # "executor_limit" => lc.events[Len(lc.events)] = lc.status
  /\ lc.error # "none" /\ lc.status = "succeeded" =>
       lc.error = "executor_limit" /\ Len(lc.events) = MaxEvents

\* An execution without a result.
Cut(lc) == lc.raised = "executor_limit" /\ Len(lc.events) = MaxEvents

CallInv(c) ==
  /\ pc[c] \in Sleeping => plan[c] \in Plans /\ position[c] \in 1 .. Len(plan[c])
  /\ pc[c] = "before" => Underway(lifecycle[c], plan[c], position[c] - 1)
  /\ pc[c] = "after" => Underway(lifecycle[c], plan[c], position[c])
  /\ pc[c] = "returned" => Returned(lifecycle[c], plan[c])
  /\ pc[c] = "raised" => Cut(lifecycle[c])

ExecutorInv ==
  /\ TypeOK
  /\ ActiveIsTheOneCoordinating
  /\ \A c \in Calls : CallInv(c)

-----------------------------------------------------------------------------
(* The methods of a lifecycle. *)

LEMMA PlansAreSequences ==
  ASSUME NEW types \in Plans
  PROVE  types \in Seq(StepTypes) /\ Len(types) \in 1 .. MaxSteps /\ DOMAIN types = 1 .. Len(types)
BY LimitsAssumption DEF Plans

LEMMA Parts ==
  ASSUME NEW lc \in Lifecycles
  PROVE  /\ lc.status \in ExecutionStatuses /\ lc.steps \in Seq(StepStatuses)
         /\ lc.events \in Seq(EventNames) /\ lc.cancelled \in BOOLEAN
         /\ lc.raised \in Codes /\ lc.error \in Codes
         /\ Len(lc.events) \in Nat /\ Len(lc.steps) \in Nat
BY DEF Lifecycles

\* An event is recorded, unless the log is full.
LEMMA RecordFields ==
  ASSUME NEW lc \in Lifecycles, NEW name \in EventNames, lc.raised = "none",
         NEW new, new = Record(lc, name)
  PROVE  /\ new \in Lifecycles
         /\ new.status = lc.status /\ new.steps = lc.steps /\ new.error = lc.error
         /\ new.cancelled <=> lc.cancelled
         /\ Len(lc.events) >= MaxEvents => new.raised = "executor_limit" /\ new.events = lc.events
         /\ Len(lc.events) < MaxEvents => new.raised = "none" /\ new.events = Append(lc.events, name)
<1>1. CASE Len(lc.events) >= MaxEvents
  <2>1. new = [lc EXCEPT !.raised = "executor_limit"]
    BY <1>1 DEF Record
  <2> QED BY <1>1, <2>1, Parts, LimitsAssumption DEF Lifecycles, Codes
<1>2. CASE Len(lc.events) < MaxEvents
  <2>1. PICK events : events = Append(lc.events, name)
    OBVIOUS
  <2>2. events \in Seq(EventNames)
    BY <2>1, Parts
  <2>3. new = [lc EXCEPT !.events = events]
    BY <1>2, <2>1, Parts, LimitsAssumption DEF Record
  <2>4. new \in Lifecycles
    BY <2>2, <2>3 DEF Lifecycles
  <2>5. /\ new.status = lc.status /\ new.steps = lc.steps /\ new.error = lc.error
        /\ new.cancelled = lc.cancelled /\ new.raised = lc.raised /\ new.events = events
    BY <2>3 DEF Lifecycles
  <2> QED BY <1>2, <2>1, <2>4, <2>5, Parts, LimitsAssumption
<1> QED BY <1>1, <1>2, Parts, LimitsAssumption

\* A transition the table allows sets the status first.
LEMMA TransitionFields ==
  ASSUME NEW lc \in Lifecycles, NEW goal \in ExecutionStatuses, lc.raised = "none",
         goal \in EXECUTION_STATUS_TRANSITIONS[lc.status],
         NEW new, new = Transition(lc, goal)
  PROVE  /\ new \in Lifecycles
         /\ new.status = goal /\ new.steps = lc.steps /\ new.error = lc.error
         /\ new.cancelled <=> lc.cancelled
         /\ Len(lc.events) >= MaxEvents => new.raised = "executor_limit" /\ new.events = lc.events
         /\ Len(lc.events) < MaxEvents => new.raised = "none" /\ new.events = Append(lc.events, goal)
<1>1. PICK set : set = [lc EXCEPT !.status = goal]
  OBVIOUS
<1>2. set \in Lifecycles
  BY <1>1 DEF Lifecycles
<1>3. /\ set.status = goal /\ set.steps = lc.steps /\ set.error = lc.error /\ set.raised = "none"
      /\ set.cancelled = lc.cancelled /\ set.events = lc.events
  BY <1>1 DEF Lifecycles
<1>4. new = Record(set, goal)
  BY <1>1 DEF Transition
<1>5. goal \in EventNames
  BY DEF EventNames
<1> QED BY <1>2, <1>3, <1>4, <1>5, RecordFields

LEMMA SetStepFields ==
  ASSUME NEW lc \in Lifecycles, NEW i \in 1 .. Len(lc.steps), NEW value \in StepStatuses,
         lc.raised = "none", NEW new, new = SetStep(lc, i, value)
  PROVE  /\ new \in Lifecycles
         /\ new.status = lc.status /\ new.error = lc.error /\ new.raised = "none"
         /\ new.cancelled <=> lc.cancelled
         /\ new.events = lc.events
         /\ Len(new.steps) = Len(lc.steps)
         /\ \A j \in 1 .. Len(lc.steps) : new.steps[j] = IF j = i THEN value ELSE lc.steps[j]
<1>1. PICK steps : steps = [lc.steps EXCEPT ![i] = value]
  OBVIOUS
<1>2. /\ steps \in Seq(StepStatuses) /\ Len(steps) = Len(lc.steps)
      /\ \A j \in 1 .. Len(lc.steps) : steps[j] = IF j = i THEN value ELSE lc.steps[j]
  BY <1>1, Parts
<1>3. new = [lc EXCEPT !.steps = steps]
  BY <1>1 DEF SetStep
<1>4. new \in Lifecycles
  BY <1>2, <1>3 DEF Lifecycles
<1>5. /\ new.status = lc.status /\ new.error = lc.error /\ new.raised = lc.raised
      /\ new.cancelled = lc.cancelled /\ new.events = lc.events /\ new.steps = steps
  BY <1>3 DEF Lifecycles
<1> QED BY <1>2, <1>4, <1>5

\* An exception in flight passes through the methods.
LEMMA RaisedPasses ==
  ASSUME NEW lc, lc.raised # "none", NEW i, NEW type, NEW goal
  PROVE  ProgressStep(lc, i, type) = lc /\ Transition(lc, goal) = lc /\ CheckCancelled(lc) = lc
BY DEF ProgressStep, Record, SetStep, Transition, CheckCancelled

LEMMA OutcomeType ==
  ASSUME NEW type \in StepTypes
  PROVE  Outcome(type) \in StepStatuses /\ Outcome(type) \notin {"pending", "running"}
BY DEF Outcome, StepStatuses

\* What _failure_result makes of an exception.
LEMMA FailureLeaves ==
  ASSUME NEW types \in Plans, NEW lc, Failing(lc, types), NEW final, final = FailureResult(lc)
  PROVE  /\ final \in Lifecycles
         /\ final.raised = "none" => Returned(final, types)
         /\ final.raised # "none" => Cut(final)
<1>1. PICK goal : goal = IF lc.raised = "executor_cancelled" THEN "cancelled" ELSE "failed"
  OBVIOUS
<1>2. PICK closed :
        closed = [i \in DOMAIN lc.steps |->
                    IF lc.steps[i] \in {"pending", "running"} THEN goal ELSE lc.steps[i]]
  OBVIOUS
<1>3. PICK settled : settled = [lc EXCEPT !.steps = closed, !.error = lc.raised, !.raised = "none"]
  OBVIOUS
<1>4. lc \in Lifecycles /\ goal \in {"cancelled", "failed"}
  BY <1>1 DEF Failing
<1>5. PICK k \in 0 .. Len(types) :
        /\ Done(lc.steps, types, k)
        /\ \A i \in k + 1 .. Len(types) : lc.steps[i] \in {"pending", "running"}
  BY DEF Failing
<1>6. Len(lc.steps) = Len(types) /\ Len(types) \in Nat /\ DOMAIN lc.steps = 1 .. Len(types)
  BY <1>4, <1>5, Parts, PlansAreSequences DEF Done
<1>7. closed \in Seq(StepStatuses)
  <2>1. \A i \in 1 .. Len(types) : lc.steps[i] \in StepStatuses
    BY <1>4, <1>6, Parts
  <2> QED BY <1>2, <1>4, <1>6, <2>1 DEF StepStatuses
<1>8. /\ \A i \in 1 .. k : closed[i] = Outcome(types[i])
      /\ \A i \in k + 1 .. Len(types) : closed[i] = goal
  <2>1. \A i \in 1 .. k : i \in 1 .. Len(types) /\ types[i] \in StepTypes
    BY <1>6, PlansAreSequences
  <2> QED BY <1>2, <1>5, <1>6, <2>1, OutcomeType DEF Done
<1>9. settled \in Lifecycles
  BY <1>3, <1>4, <1>7 DEF Lifecycles, Codes
<1>10. /\ settled.status = lc.status /\ settled.steps = closed /\ settled.error = lc.raised
       /\ settled.raised = "none" /\ settled.events = lc.events /\ settled.cancelled = lc.cancelled
  BY <1>3, <1>4 DEF Lifecycles
<1>11. final = IF lc.status \in TERMINAL_EXECUTION_STATUSES THEN settled ELSE Transition(settled, goal)
  BY <1>1, <1>2, <1>3 DEF FailureResult
<1>12. Len(lc.events) \in 1 .. MaxEvents /\ lc.events \in Seq(EventNames) /\ MaxEvents \in Nat
  BY <1>4, Parts, LimitsAssumption DEF Failing
<1>13. goal = IF lc.raised = "executor_cancelled" THEN "cancelled" ELSE "failed"
  BY <1>1
<1>14. CASE lc.status = "succeeded" /\ lc.raised = "executor_limit"
  <2>1. final = settled
    BY <1>11, <1>14 DEF TERMINAL_EXECUTION_STATUSES
  <2>2. ~ lc.cancelled /\ Len(lc.events) = MaxEvents
    BY <1>14 DEF Failing
  <2>3. Returned(settled, types)
    BY <1>5, <1>8, <1>10, <1>13, <1>14, <2>2 DEF Returned
  <2> QED BY <1>9, <1>10, <2>1, <2>3
<1>15. CASE lc.status \in {"validating", "running"}
  <2>1. final = Transition(settled, goal)
    BY <1>11, <1>15 DEF TERMINAL_EXECUTION_STATUSES
  <2>2. goal \in ExecutionStatuses /\ goal \in EXECUTION_STATUS_TRANSITIONS[settled.status]
    BY <1>4, <1>10, <1>15 DEF ExecutionStatuses, EXECUTION_STATUS_TRANSITIONS
  <2>3. /\ final \in Lifecycles /\ final.status = goal /\ final.steps = closed
        /\ final.error = lc.raised /\ (final.cancelled <=> lc.cancelled)
        /\ Len(lc.events) >= MaxEvents => final.raised = "executor_limit" /\ final.events = lc.events
        /\ Len(lc.events) < MaxEvents => final.raised = "none" /\ final.events = Append(lc.events, goal)
    BY <1>9, <1>10, <2>1, <2>2, TransitionFields
  <2>4. CASE Len(lc.events) >= MaxEvents
    BY <1>12, <2>3, <2>4 DEF Cut
  <2>5. CASE Len(lc.events) < MaxEvents
    <3>1. final.events[Len(final.events)] = goal
      BY <1>12, <2>3, <2>5
    <3>2. /\ final.cancelled => goal = "cancelled" /\ final.error = "executor_cancelled"
          /\ goal # "succeeded" /\ final.error # "none"
      BY <1>4, <1>13, <2>3 DEF Failing
    <3>3. Returned(final, types)
      BY <1>5, <1>8, <1>13, <2>3, <3>1, <3>2 DEF Returned
    <3> QED BY <2>3, <2>5, <3>3
  <2> QED BY <1>12, <2>4, <2>5
<1> QED BY <1>14, <1>15 DEF Failing

\* A step is coordinated, or the log is full in the middle of it.
LEMMA ProgressLeads ==
  ASSUME NEW types \in Plans, NEW k \in 1 .. Len(types),
         NEW lc, Underway(lc, types, k - 1), ~ lc.cancelled,
         NEW new, new = ProgressStep(lc, k, types[k])
  PROVE  \/ new.raised = "none" /\ Underway(new, types, k)
         \/ new.raised # "none" /\ Failing(new, types)
<1>1. /\ lc \in Lifecycles /\ lc.status = "running" /\ lc.raised = "none" /\ lc.error = "none"
      /\ Len(lc.events) \in 1 .. MaxEvents /\ Len(lc.steps) = Len(types)
      /\ \A i \in 1 .. k - 1 : lc.steps[i] = Outcome(types[i])
      /\ \A i \in k .. Len(types) : lc.steps[i] = "pending"
  BY DEF Underway, Done
<1>2. /\ types[k] \in StepTypes /\ Len(types) \in Nat /\ MaxEvents \in Nat
      /\ lc.events \in Seq(EventNames)
  BY <1>1, PlansAreSequences, Parts, LimitsAssumption
<1>3. /\ "running" \in StepStatuses /\ Outcome(types[k]) \in StepStatuses
      /\ {"step.started", "step.deferred", "step.completed"} \subseteq EventNames
  BY <1>2, OutcomeType DEF StepStatuses, EventNames
<1>4. PICK begun : begun = SetStep(lc, k, "running")
  OBVIOUS
<1>5. /\ begun \in Lifecycles /\ begun.status = "running" /\ begun.raised = "none"
      /\ begun.error = "none" /\ ~ begun.cancelled /\ begun.events = lc.events
      /\ Len(begun.steps) = Len(types)
      /\ \A i \in 1 .. k - 1 : begun.steps[i] = Outcome(types[i])
      /\ begun.steps[k] = "running"
      /\ \A i \in k + 1 .. Len(types) : begun.steps[i] = "pending"
  <2>1. k \in 1 .. Len(lc.steps)
    BY <1>1
  <2>2. /\ begun \in Lifecycles /\ begun.status = lc.status /\ begun.raised = "none"
        /\ begun.error = lc.error /\ (begun.cancelled <=> lc.cancelled) /\ begun.events = lc.events
        /\ Len(begun.steps) = Len(lc.steps)
        /\ \A j \in 1 .. Len(lc.steps) : begun.steps[j] = IF j = k THEN "running" ELSE lc.steps[j]
    BY <1>1, <1>3, <1>4, <2>1, SetStepFields
  <2> QED BY <1>1, <1>2, <2>2
<1>6. PICK started : started = Record(begun, "step.started")
  OBVIOUS
<1>7. /\ started \in Lifecycles /\ started.status = "running" /\ started.error = "none"
      /\ ~ started.cancelled /\ started.steps = begun.steps
      /\ Len(lc.events) >= MaxEvents => started.raised = "executor_limit" /\ started.events = lc.events
      /\ Len(lc.events) < MaxEvents =>
           started.raised = "none" /\ started.events = Append(lc.events, "step.started")
  BY <1>3, <1>5, <1>6, RecordFields
<1>8. PICK name \in EventNames : name = IF types[k] = "tool" THEN "step.deferred" ELSE "step.completed"
  BY <1>3
<1>9. PICK ended : ended = SetStep(started, k, Outcome(types[k]))
  OBVIOUS
<1>10. new = Record(ended, name)
  BY <1>4, <1>6, <1>8, <1>9 DEF ProgressStep
<1>11. CASE Len(lc.events) >= MaxEvents
  <2>1. started.raised # "none"
    BY <1>7, <1>11
  <2>2. new = started
    BY <1>9, <1>10, <2>1 DEF SetStep, Record
  <2>3. Done(started.steps, types, k - 1)
    BY <1>5, <1>7 DEF Done
  <2>4. \A i \in (k - 1) + 1 .. Len(types) : started.steps[i] \in {"pending", "running"}
    BY <1>2, <1>5, <1>7
  <2>5. k - 1 \in 0 .. Len(types)
    BY <1>2
  <2> QED BY <1>1, <1>2, <1>7, <1>11, <2>2, <2>3, <2>4, <2>5 DEF Failing
<1>12. CASE Len(lc.events) < MaxEvents
  <2>1. started.raised = "none" /\ Len(started.events) \in 1 .. MaxEvents /\ started.events \in Seq(EventNames)
    <3>1. started.raised = "none" /\ started.events = Append(lc.events, "step.started")
      BY <1>7, <1>12
    <3>2. "step.started" \in EventNames
      BY DEF EventNames
    <3>3. /\ Append(lc.events, "step.started") \in Seq(EventNames)
          /\ Len(Append(lc.events, "step.started")) = Len(lc.events) + 1
      BY <1>2, <3>2
    <3> QED BY <1>1, <1>2, <1>12, <3>1, <3>3
  <2>2. k \in 1 .. Len(started.steps)
    BY <1>5, <1>7
  <2>3. /\ ended \in Lifecycles /\ ended.status = "running" /\ ended.raised = "none"
        /\ ended.error = "none" /\ ~ ended.cancelled /\ ended.events = started.events
        /\ Len(ended.steps) = Len(started.steps)
        /\ \A j \in 1 .. Len(started.steps) :
             ended.steps[j] = IF j = k THEN Outcome(types[k]) ELSE started.steps[j]
    BY <1>3, <1>7, <1>9, <2>1, <2>2, SetStepFields
  <2>4. /\ Done(ended.steps, types, k)
        /\ \A i \in k + 1 .. Len(types) : ended.steps[i] = "pending"
    BY <1>2, <1>5, <1>7, <2>3 DEF Done
  <2>5. /\ new \in Lifecycles /\ new.status = "running" /\ new.error = "none"
        /\ ~ new.cancelled /\ new.steps = ended.steps
        /\ Len(started.events) >= MaxEvents => new.raised = "executor_limit" /\ new.events = started.events
        /\ Len(started.events) < MaxEvents =>
             new.raised = "none" /\ new.events = Append(started.events, name)
    BY <1>8, <1>10, <2>3, RecordFields
  <2>6. k \in 0 .. Len(types)
    BY <1>2
  <2>7. CASE Len(started.events) >= MaxEvents
    BY <1>2, <2>1, <2>4, <2>5, <2>6, <2>7 DEF Failing
  <2>8. CASE Len(started.events) < MaxEvents
    <3>1. Len(new.events) \in 1 .. MaxEvents
      BY <1>2, <2>1, <2>5, <2>8
    <3> QED BY <2>4, <2>5, <2>6, <2>8, <3>1 DEF Underway
  <2> QED BY <1>2, <2>1, <2>7, <2>8
<1> QED BY <1>1, <1>2, <1>11, <1>12

\* A cancelled execution at a sleep is one that fails.
LEMMA CancelledFails ==
  ASSUME NEW types \in Plans, NEW k, NEW lc, Underway(lc, types, k), lc.cancelled,
         NEW new, new = CheckCancelled(lc)
  PROVE  new.raised # "none" /\ Failing(new, types)
<1>1. new = [lc EXCEPT !.raised = "executor_cancelled"] /\ lc \in Lifecycles
  BY DEF CheckCancelled, Underway
<1>2. /\ new \in Lifecycles /\ new.raised = "executor_cancelled" /\ new.status = lc.status
      /\ new.error = lc.error /\ new.events = lc.events /\ new.steps = lc.steps
  BY <1>1 DEF Lifecycles, Codes
<1> QED BY <1>2 DEF Underway, Failing

-----------------------------------------------------------------------------
(* Going on and leaving. *)

\* Where a call may come from.
MayGo(c) == pc[c] \in Sleeping \/ (pc[c] = "idle" /\ active[RunOf[c]] = NoCall)

\* Others keep their part of ExecutorInv when one call moves.
LEMMA OthersKeep ==
  ASSUME ExecutorInv, NEW c \in Calls, NEW d \in Calls, d # c,
         NEW lc, lifecycle' = [lifecycle EXCEPT ![c] = lc],
         NEW place, pc' = [pc EXCEPT ![c] = place],
         NEW types, plan' = [plan EXCEPT ![c] = types],
         NEW n, position' = [position EXCEPT ![c] = n]
  PROVE  CallInv(d)'
BY DEF ExecutorInv, TypeOK, CallInv

LEMMA Leaves ==
  ASSUME ExecutorInv, NEW c \in Calls, MayGo(c), NEW lc \in Lifecycles, Leave(c, lc),
         NEW types \in Plans, plan' = [plan EXCEPT ![c] = types],
         NEW n \in 0 .. MaxSteps, position' = [position EXCEPT ![c] = n],
         \/ lc.raised = "none" /\ Returned(lc, types)
         \/ lc.raised # "none" /\ Failing(lc, types)
  PROVE  ExecutorInv'
<1>1. PICK final : final = IF lc.raised = "none" THEN lc ELSE FailureResult(lc)
  OBVIOUS
<1>2. PICK place : place = IF final.raised = "none" THEN "returned" ELSE "raised"
  OBVIOUS
<1>3. /\ lifecycle' = [lifecycle EXCEPT ![c] = final]
      /\ pc' = [pc EXCEPT ![c] = place]
      /\ active' = [active EXCEPT ![RunOf[c]] = NoCall]
  BY <1>1, <1>2 DEF Leave
<1>4. /\ final \in Lifecycles
      /\ place = "returned" => Returned(final, types)
      /\ place = "raised" => Cut(final)
  BY <1>1, <1>2, FailureLeaves
<1>5. place \in {"returned", "raised"}
  BY <1>2
<1>6. TypeOK'
  BY <1>3, <1>4, <1>5, RunOfAssumption DEF ExecutorInv, TypeOK, Positions
<1>7. ActiveIsTheOneCoordinating'
  BY <1>3, <1>5, CallsAssumption, RunOfAssumption
  DEF ExecutorInv, TypeOK, Sleeping, ActiveIsTheOneCoordinating, MayGo
<1>8. CallInv(c)'
  BY <1>3, <1>4, <1>5 DEF ExecutorInv, TypeOK, CallInv, Sleeping
<1>9. \A d \in Calls : CallInv(d)'
  BY <1>3, <1>8, OthersKeep
<1> QED BY <1>6, <1>7, <1>9 DEF ExecutorInv

LEMMA Sleeps ==
  ASSUME ExecutorInv, NEW c \in Calls, MayGo(c), NEW types \in Plans,
         NEW n \in 1 .. Len(types), NEW where \in Sleeping, NEW lc,
         Underway(lc, types, IF where = "before" THEN n - 1 ELSE n),
         lifecycle' = [lifecycle EXCEPT ![c] = lc],
         pc' = [pc EXCEPT ![c] = where],
         active' = [active EXCEPT ![RunOf[c]] = c],
         plan' = [plan EXCEPT ![c] = types],
         position' = [position EXCEPT ![c] = n]
  PROVE  ExecutorInv'
<1>1. lc \in Lifecycles /\ where \in Positions
  BY DEF Underway, Positions
<1>2. n \in 0 .. MaxSteps
  BY PlansAreSequences, LimitsAssumption
<1>3. TypeOK'
  BY <1>1, <1>2, RunOfAssumption DEF ExecutorInv, TypeOK
<1>4. ActiveIsTheOneCoordinating'
  BY CallsAssumption, RunOfAssumption
  DEF ExecutorInv, TypeOK, Sleeping, ActiveIsTheOneCoordinating, MayGo
<1>5. CallInv(c)'
  <2>1. lifecycle'[c] = lc /\ pc'[c] = where /\ plan'[c] = types /\ position'[c] = n
    BY DEF ExecutorInv, TypeOK
  <2> QED BY <2>1 DEF CallInv, Sleeping
<1>6. \A d \in Calls : CallInv(d)'
  BY <1>5, OthersKeep
<1> QED BY <1>3, <1>4, <1>6 DEF ExecutorInv

-----------------------------------------------------------------------------
(* Every step keeps the invariant. *)

LEMMA InitExecutorInv == Init => ExecutorInv
<1> SUFFICES ASSUME Init PROVE ExecutorInv
  OBVIOUS
<1>1. NewLifecycle(<<>>) \in Lifecycles
  BY DEF NewLifecycle, Lifecycles, ExecutionStatuses, EventNames, Codes, StepStatuses
<1>2. TypeOK
  BY <1>1, LimitsAssumption DEF Init, TypeOK, Positions
<1>3. ActiveIsTheOneCoordinating
  BY CallsAssumption DEF Init, ActiveIsTheOneCoordinating, Sleeping
<1>4. \A c \in Calls : CallInv(c)
  BY DEF Init, CallInv, Sleeping
<1> QED BY <1>2, <1>3, <1>4 DEF ExecutorInv

\* Where execute is when it has validated its request.
LEMMA StartLeads ==
  ASSUME NEW types \in Plans, NEW new,
         new = Transition(ValidatePolicies(CheckCancelled(Transition(NewLifecycle(types), "validating")), types),
                          "running")
  PROVE  \/ new.raised = "none" /\ Underway(new, types, 0)
         \/ new.raised # "none" /\ Failing(new, types)
<1>1. PICK lc : lc = NewLifecycle(types)
  OBVIOUS
<1>2. types \in Seq(StepTypes) /\ Len(types) \in 1 .. MaxSteps /\ DOMAIN types = 1 .. Len(types)
  BY PlansAreSequences
<1>3. PICK steps : steps = [i \in 1 .. Len(types) |-> "pending"]
  OBVIOUS
<1>4. /\ steps \in Seq(StepStatuses) /\ Len(steps) = Len(types)
      /\ \A i \in 1 .. Len(types) : steps[i] = "pending"
  <2>1. "pending" \in StepStatuses
    BY DEF StepStatuses
  <2> QED BY <1>2, <1>3, <2>1
<1>5. PICK events : events = <<"requested">>
  OBVIOUS
<1>6. "requested" \in ExecutionStatuses /\ "requested" \in EventNames /\ "none" \in Codes
  BY DEF ExecutionStatuses, EventNames, Codes
<1>7. events \in Seq(EventNames) /\ Len(events) = 1
  BY <1>5, <1>6
<1>8. lc = [status |-> "requested", steps |-> steps, events |-> events,
            cancelled |-> FALSE, raised |-> "none", error |-> "none"]
  BY <1>1, <1>2, <1>3, <1>5 DEF NewLifecycle
<1>9. /\ lc \in Lifecycles /\ lc.status = "requested" /\ lc.raised = "none" /\ lc.error = "none"
      /\ ~ lc.cancelled /\ lc.steps = steps /\ lc.events = events
  BY <1>4, <1>6, <1>7, <1>8 DEF Lifecycles
<1>10. PICK first : first = Transition(lc, "validating")
  OBVIOUS
<1>11. "validating" \in ExecutionStatuses /\ "validating" \in EXECUTION_STATUS_TRANSITIONS[lc.status]
  BY <1>9 DEF ExecutionStatuses, EXECUTION_STATUS_TRANSITIONS
<1>12. /\ first \in Lifecycles /\ first.status = "validating" /\ first.steps = steps
       /\ first.error = "none" /\ ~ first.cancelled
       /\ Len(events) >= MaxEvents => first.raised = "executor_limit" /\ first.events = events
       /\ Len(events) < MaxEvents => first.raised = "none" /\ first.events = Append(events, "validating")
  BY <1>9, <1>10, <1>11, TransitionFields
<1>13. PICK second : second = ValidatePolicies(first, types)
  OBVIOUS
<1>14. new = Transition(second, "running")
  BY <1>1, <1>10, <1>12, <1>13 DEF CheckCancelled
<1>15. /\ Done(steps, types, 0) /\ 0 \in 0 .. Len(types)
       /\ \A i \in 0 + 1 .. Len(types) : steps[i] = "pending"
       /\ \E k \in 0 .. Len(types) :
            /\ Done(steps, types, k)
            /\ \A i \in k + 1 .. Len(types) : steps[i] \in {"pending", "running"}
  <2>1. /\ Done(steps, types, 0) /\ 0 \in 0 .. Len(types)
        /\ \A i \in 0 + 1 .. Len(types) : steps[i] = "pending"
    BY <1>2, <1>4 DEF Done
  <2> QED BY <2>1
<1>16. MaxEvents \in Nat /\ MaxEvents >= 1
  BY LimitsAssumption
<1>17. CASE Len(events) >= MaxEvents
  <2>1. first.raised = "executor_limit" /\ first.events = events
    BY <1>12, <1>17
  <2>2. second = first
    BY <1>13, <2>1 DEF ValidatePolicies
  <2>3. new = first
    BY <1>14, <2>1, <2>2 DEF Transition
  <2>4. Len(events) \in 1 .. MaxEvents /\ Len(events) = MaxEvents
    BY <1>7, <1>16, <1>17
  <2> QED BY <1>12, <1>15, <2>1, <2>3, <2>4 DEF Failing
<1>18. CASE Len(events) < MaxEvents
  <2>1. first.raised = "none" /\ Len(first.events) = 2 /\ Len(first.events) \in 1 .. MaxEvents
    <3>1. first.raised = "none" /\ first.events = Append(events, "validating")
      BY <1>12, <1>18
    <3>2. "validating" \in EventNames
      BY <1>11 DEF EventNames
    <3>3. Len(Append(events, "validating")) = Len(events) + 1
      BY <1>7, <3>2, AppendProperties
    <3>4. Len(first.events) = 2
      BY <1>7, <3>1, <3>3
    <3> QED BY <1>7, <1>16, <1>18, <3>1, <3>4
  <2>2. CASE \E i \in DOMAIN types : types[i] \in DeniedTypes
    <3>1. second = [first EXCEPT !.raised = "executor_policy"]
      BY <1>13, <2>1, <2>2 DEF ValidatePolicies
    <3>2. /\ second \in Lifecycles /\ second.raised = "executor_policy"
          /\ second.status = "validating" /\ second.steps = steps /\ second.error = "none"
          /\ (second.cancelled <=> first.cancelled) /\ second.events = first.events
      BY <1>12, <3>1 DEF Lifecycles, Codes
    <3>3. new = second
      BY <1>14, <3>2 DEF Transition
    <3> QED BY <1>12, <1>15, <2>1, <3>2, <3>3 DEF Failing
  <2>3. CASE ~ \E i \in DOMAIN types : types[i] \in DeniedTypes
    <3>1. second = first
      BY <1>13, <2>3 DEF ValidatePolicies
    <3>2. "running" \in ExecutionStatuses /\ "running" \in EXECUTION_STATUS_TRANSITIONS[first.status]
      BY <1>12 DEF ExecutionStatuses, EXECUTION_STATUS_TRANSITIONS
    <3>3. new = Transition(first, "running") /\ first \in Lifecycles /\ first.raised = "none"
      BY <1>12, <1>14, <2>1, <3>1
    <3>4. /\ new \in Lifecycles /\ new.status = "running" /\ new.steps = first.steps
          /\ new.error = first.error /\ (new.cancelled <=> first.cancelled)
          /\ Len(first.events) >= MaxEvents => new.raised = "executor_limit" /\ new.events = first.events
          /\ Len(first.events) < MaxEvents => new.raised = "none" /\ new.events = Append(first.events, "running")
      BY <3>2, <3>3, TransitionFields
    <3>5. /\ new \in Lifecycles /\ new.status = "running" /\ new.steps = steps
          /\ new.error = "none" /\ ~ new.cancelled
          /\ Len(first.events) >= MaxEvents => new.raised = "executor_limit" /\ new.events = first.events
          /\ Len(first.events) < MaxEvents => new.raised = "none" /\ new.events = Append(first.events, "running")
      BY <1>12, <3>4
    <3>6. CASE Len(first.events) >= MaxEvents
      <4>1. Len(first.events) = MaxEvents /\ new.raised = "executor_limit" /\ new.events = first.events
        BY <1>16, <2>1, <3>5, <3>6
      <4> QED BY <1>12, <1>15, <2>1, <3>5, <4>1 DEF Failing
    <3>7. CASE Len(first.events) < MaxEvents
      <4>1. first.events \in Seq(EventNames) /\ "running" \in EventNames
        BY <1>12, <3>2, Parts DEF EventNames
      <4>2. Len(new.events) = Len(first.events) + 1
        BY <3>7, <3>4, <4>1, AppendProperties
      <4>3. Len(new.events) = 3 /\ 3 \in 1 .. MaxEvents
        BY <1>16, <2>1, <3>7, <4>2
      <4> QED BY <1>15, <3>5, <3>7, <4>3 DEF Underway
    <3> QED BY <1>16, <2>1, <3>6, <3>7
  <2> QED BY <2>2, <2>3
<1> QED BY <1>7, <1>16, <1>17, <1>18

LEMMA ExecuteKeeps ==
  ASSUME ExecutorInv, NEW c \in Calls, Execute(c)
  PROVE  ExecutorInv'
<1>1. PICK types \in Plans :
        /\ plan' = [plan EXCEPT ![c] = types]
        /\ LET validated == CheckCancelled(Transition(NewLifecycle(types), "validating"))
           IN  SleepOrLeave(c, Transition(ValidatePolicies(validated, types), "running"), "before")
  BY DEF Execute
<1>2. PICK lc :
        lc = Transition(ValidatePolicies(CheckCancelled(Transition(NewLifecycle(types), "validating")), types),
                        "running")
  OBVIOUS
<1>3. /\ SleepOrLeave(c, lc, "before") /\ position' = [position EXCEPT ![c] = 1]
      /\ MayGo(c) /\ plan' = [plan EXCEPT ![c] = types]
  BY <1>1, <1>2 DEF Execute, MayGo
<1>4. \/ lc.raised = "none" /\ Underway(lc, types, 0)
      \/ lc.raised # "none" /\ Failing(lc, types)
  BY <1>2, StartLeads
<1>5. 1 \in 1 .. Len(types) /\ 1 \in 0 .. MaxSteps /\ 1 - 1 = 0
  BY PlansAreSequences, LimitsAssumption
<1>6. CASE lc.raised = "none" /\ Underway(lc, types, 0)
  <2>1. /\ lifecycle' = [lifecycle EXCEPT ![c] = lc]
        /\ pc' = [pc EXCEPT ![c] = "before"]
        /\ active' = [active EXCEPT ![RunOf[c]] = c]
    BY <1>3, <1>6 DEF SleepOrLeave
  <2>2. "before" \in Sleeping
    BY DEF Sleeping
  <2>3. Underway(lc, types, IF "before" = "before" THEN 1 - 1 ELSE 1)
    BY <1>5, <1>6
  <2> QED BY <1>3, <1>5, <2>1, <2>2, <2>3, Sleeps
<1>7. CASE lc.raised # "none" /\ Failing(lc, types)
  <2>1. Leave(c, lc) /\ lc \in Lifecycles
    BY <1>3, <1>7 DEF SleepOrLeave, Failing
  <2> QED BY <1>3, <1>5, <1>7, <2>1, Leaves
<1> QED BY <1>4, <1>6, <1>7

LEMMA RefuseKeeps ==
  ASSUME ExecutorInv, NEW c \in Calls, RefuseRequest(c)
  PROVE  ExecutorInv'
<1>1. TypeOK'
  BY DEF ExecutorInv, TypeOK, RefuseRequest, Positions
<1>2. ActiveIsTheOneCoordinating'
  BY DEF ExecutorInv, TypeOK, RefuseRequest, ActiveIsTheOneCoordinating, Sleeping
<1>3. \A d \in Calls : CallInv(d)'
  BY DEF ExecutorInv, TypeOK, RefuseRequest, CallInv, Sleeping
<1> QED BY <1>1, <1>2, <1>3 DEF ExecutorInv

\* What is known of a call at a sleep.
LEMMA AtSleep ==
  ASSUME ExecutorInv, NEW c \in Calls, pc[c] \in Sleeping
  PROVE  /\ MayGo(c)
         /\ plan[c] \in Plans /\ plan = [plan EXCEPT ![c] = plan[c]]
         /\ position[c] \in 1 .. Len(plan[c]) /\ position[c] \in 0 .. MaxSteps
         /\ position = [position EXCEPT ![c] = position[c]]
         /\ lifecycle[c] \in Lifecycles
BY DEF ExecutorInv, TypeOK, CallInv, MayGo

LEMMA CoordinateKeeps ==
  ASSUME ExecutorInv, NEW c \in Calls, Coordinate(c)
  PROVE  ExecutorInv'
<1>1. PICK checked : checked = CheckCancelled(lifecycle[c])
  OBVIOUS
<1>2. PICK lc : lc = ProgressStep(checked, position[c], plan[c][position[c]])
  OBVIOUS
<1>3. /\ pc[c] \in Sleeping /\ SleepOrLeave(c, lc, "after")
      /\ plan' = plan /\ position' = position
      /\ Underway(lifecycle[c], plan[c], position[c] - 1)
  BY <1>1, <1>2 DEF Coordinate, Sleeping, ExecutorInv, CallInv
<1>4. /\ MayGo(c)
      /\ plan[c] \in Plans /\ plan' = [plan EXCEPT ![c] = plan[c]]
      /\ position[c] \in 1 .. Len(plan[c]) /\ position[c] \in 0 .. MaxSteps
      /\ position' = [position EXCEPT ![c] = position[c]]
  BY <1>3, AtSleep
<1>5. \/ lc.raised = "none" /\ Underway(lc, plan[c], position[c])
      \/ lc.raised # "none" /\ Failing(lc, plan[c])
  <2>1. CASE lifecycle[c].cancelled
    <3>1. checked.raised # "none" /\ Failing(checked, plan[c])
      BY <1>1, <1>3, <1>4, <2>1, CancelledFails
    <3>2. lc = checked
      BY <1>2, <3>1, RaisedPasses
    <3> QED BY <3>1, <3>2
  <2>2. CASE ~ lifecycle[c].cancelled
    <3>1. checked = lifecycle[c]
      BY <1>1, <2>2 DEF CheckCancelled
    <3> QED BY <1>2, <1>3, <1>4, <2>2, <3>1, ProgressLeads
  <2> QED BY <2>1, <2>2
<1>6. CASE lc.raised = "none" /\ Underway(lc, plan[c], position[c])
  <2>1. /\ lifecycle' = [lifecycle EXCEPT ![c] = lc]
        /\ pc' = [pc EXCEPT ![c] = "after"]
        /\ active' = [active EXCEPT ![RunOf[c]] = c]
    BY <1>3, <1>6 DEF SleepOrLeave
  <2>2. "after" \in Sleeping
    BY DEF Sleeping
  <2>3. Underway(lc, plan[c], IF "after" = "before" THEN position[c] - 1 ELSE position[c])
    BY <1>6
  <2> QED BY <1>4, <2>1, <2>2, <2>3, Sleeps
<1>7. CASE lc.raised # "none" /\ Failing(lc, plan[c])
  <2>1. Leave(c, lc) /\ lc \in Lifecycles
    BY <1>3, <1>7 DEF SleepOrLeave, Failing
  <2> QED BY <1>4, <1>7, <2>1, Leaves
<1> QED BY <1>5, <1>6, <1>7

\* The whole plan is coordinated: the execution succeeds, or the log is full.
LEMMA SuccessLeads ==
  ASSUME NEW types \in Plans, NEW lc, Underway(lc, types, Len(types)), ~ lc.cancelled,
         NEW new, new = Transition(lc, "succeeded")
  PROVE  /\ new \in Lifecycles
         /\ \/ new.raised = "none" /\ Returned(new, types)
            \/ new.raised # "none" /\ Failing(new, types)
<1>1. /\ lc \in Lifecycles /\ lc.status = "running" /\ lc.raised = "none" /\ lc.error = "none"
      /\ Len(lc.events) \in 1 .. MaxEvents /\ Done(lc.steps, types, Len(types))
  BY DEF Underway
<1>2. "succeeded" \in ExecutionStatuses /\ "succeeded" \in EXECUTION_STATUS_TRANSITIONS[lc.status]
  BY <1>1 DEF ExecutionStatuses, EXECUTION_STATUS_TRANSITIONS
<1>3. /\ new \in Lifecycles /\ new.status = "succeeded" /\ new.steps = lc.steps
      /\ new.error = lc.error /\ (new.cancelled <=> lc.cancelled)
      /\ Len(lc.events) >= MaxEvents => new.raised = "executor_limit" /\ new.events = lc.events
      /\ Len(lc.events) < MaxEvents =>
           new.raised = "none" /\ new.events = Append(lc.events, "succeeded")
  BY <1>1, <1>2, TransitionFields
<1>4. /\ Len(types) \in 0 .. Len(types) /\ Len(types) \in Nat /\ MaxEvents \in Nat
      /\ \A i \in Len(types) + 1 .. Len(types) : FALSE
  BY PlansAreSequences, LimitsAssumption
<1>5. CASE Len(lc.events) >= MaxEvents
  <2>1. Len(lc.events) = MaxEvents
    BY <1>1, <1>4, <1>5
  <2> QED BY <1>1, <1>3, <1>4, <1>5, <2>1 DEF Failing
<1>6. CASE Len(lc.events) < MaxEvents
  <2>1. lc.events \in Seq(EventNames) /\ "succeeded" \in EventNames
    BY <1>1, <1>2, Parts DEF EventNames
  <2>2. new.events[Len(new.events)] = "succeeded"
    BY <1>3, <1>6, <2>1, AppendProperties
  <2> QED BY <1>1, <1>3, <1>4, <1>6, <2>2 DEF Returned, Done
<1> QED BY <1>1, <1>4, <1>5, <1>6

LEMMA AdvanceKeeps ==
  ASSUME ExecutorInv, NEW c \in Calls, Advance(c)
  PROVE  ExecutorInv'
<1>1. PICK checked : checked = CheckCancelled(lifecycle[c])
  OBVIOUS
<1>2. pc[c] \in Sleeping /\ plan' = plan /\ Underway(lifecycle[c], plan[c], position[c])
  BY DEF Advance, Sleeping, ExecutorInv, CallInv
<1>3. /\ MayGo(c)
      /\ plan[c] \in Plans /\ plan' = [plan EXCEPT ![c] = plan[c]]
      /\ position[c] \in 1 .. Len(plan[c]) /\ position[c] \in 0 .. MaxSteps
      /\ position = [position EXCEPT ![c] = position[c]]
      /\ Len(plan[c]) \in 1 .. MaxSteps /\ MaxSteps \in Nat
  BY <1>2, AtSleep, PlansAreSequences, LimitsAssumption
<1>4. CASE lifecycle[c].cancelled
  <2>1. checked.raised # "none" /\ Failing(checked, plan[c]) /\ checked \in Lifecycles
    BY <1>1, <1>2, <1>3, <1>4, CancelledFails DEF Failing
  <2>2. Transition(checked, "succeeded") = checked
    BY <2>1 DEF Transition
  <2>3. Leave(c, checked)
    BY <1>1, <2>1, <2>2 DEF Advance, SleepOrLeave
  <2>4. position' = position
    BY <1>1, <1>3, <2>1 DEF Advance
  <2> QED BY <1>3, <2>1, <2>3, <2>4, Leaves
<1>5. CASE ~ lifecycle[c].cancelled
  <2>1. checked = lifecycle[c] /\ checked.raised = "none"
    BY <1>1, <1>2, <1>5 DEF CheckCancelled, Underway
  <2>2. CASE position[c] < Len(plan[c])
    <3>1. /\ lifecycle' = [lifecycle EXCEPT ![c] = checked]
          /\ pc' = [pc EXCEPT ![c] = "before"]
          /\ active' = [active EXCEPT ![RunOf[c]] = c]
      BY <1>1, <2>1, <2>2 DEF Advance, SleepOrLeave
    <3>2. position' = [position EXCEPT ![c] = position[c] + 1]
      BY <1>1, <1>3, <2>1, <2>2 DEF Advance
    <3>3. position[c] + 1 \in 1 .. Len(plan[c]) /\ (position[c] + 1) - 1 = position[c]
      BY <1>3, <2>2
    <3>4. Underway(checked, plan[c],
                   IF "before" = "before" THEN (position[c] + 1) - 1 ELSE position[c] + 1)
      BY <1>2, <2>1, <3>3
    <3>5. "before" \in Sleeping
      BY DEF Sleeping
    <3> QED BY <1>3, <3>1, <3>2, <3>3, <3>4, <3>5, Sleeps
  <2>3. CASE ~ position[c] < Len(plan[c])
    <3>1. PICK lc : lc = Transition(checked, "succeeded")
      OBVIOUS
    <3>2. Leave(c, lc) /\ position' = position
      BY <1>1, <2>3, <3>1 DEF Advance
    <3>3. position[c] = Len(plan[c])
      BY <1>3, <2>3
    <3>4. /\ lc \in Lifecycles
          /\ \/ lc.raised = "none" /\ Returned(lc, plan[c])
             \/ lc.raised # "none" /\ Failing(lc, plan[c])
      BY <1>2, <1>3, <1>5, <2>1, <3>1, <3>3, SuccessLeads
    <3> QED BY <1>3, <3>2, <3>4, Leaves
  <2> QED BY <2>2, <2>3
<1> QED BY <1>4, <1>5

LEMMA CancelKeeps ==
  ASSUME ExecutorInv, NEW r \in Runs, Cancel(r)
  PROVE  ExecutorInv'
<1>1. PICK c \in Calls : c = active[r] /\ pc[c] \in Sleeping
  BY CallsAssumption DEF Cancel, ExecutorInv, TypeOK, ActiveIsTheOneCoordinating
<1>2. PICK lc : lc = [lifecycle[c] EXCEPT !.cancelled = TRUE]
  OBVIOUS
<1>3. lifecycle' = [lifecycle EXCEPT ![c] = lc] /\ UNCHANGED <<active, pc, plan, position>>
  BY <1>1, <1>2 DEF Cancel
<1>4. lifecycle[c] \in Lifecycles
  BY DEF ExecutorInv, TypeOK
<1>5. /\ lc \in Lifecycles /\ lc.status = lifecycle[c].status /\ lc.raised = lifecycle[c].raised
      /\ lc.error = lifecycle[c].error /\ lc.events = lifecycle[c].events
      /\ lc.steps = lifecycle[c].steps
  BY <1>2, <1>4 DEF Lifecycles
<1>6. TypeOK'
  BY <1>3, <1>5 DEF ExecutorInv, TypeOK
<1>7. ActiveIsTheOneCoordinating'
  BY <1>3 DEF ExecutorInv, ActiveIsTheOneCoordinating
<1>8. CallInv(c)'
  <2>1. CallInv(c) /\ lifecycle'[c] = lc /\ pc[c] \in {"before", "after"}
    BY <1>1, <1>3 DEF ExecutorInv, TypeOK, Sleeping
  <2> QED BY <1>3, <1>5, <2>1 DEF CallInv, Underway, Sleeping
<1>9. \A d \in Calls : CallInv(d)'
  BY <1>3, <1>8 DEF ExecutorInv, TypeOK, CallInv
<1> QED BY <1>6, <1>7, <1>9 DEF ExecutorInv

LEMMA DropKeeps ==
  ASSUME ExecutorInv, NEW c \in Calls, Drop(c)
  PROVE  ExecutorInv'
<1>1. TypeOK'
  BY RunOfAssumption DEF ExecutorInv, TypeOK, Drop, Positions
<1>2. ActiveIsTheOneCoordinating'
  BY CallsAssumption, RunOfAssumption
  DEF ExecutorInv, TypeOK, Drop, ActiveIsTheOneCoordinating, Sleeping
<1>3. \A d \in Calls : CallInv(d)'
  BY DEF ExecutorInv, TypeOK, Drop, CallInv, Sleeping
<1> QED BY <1>1, <1>2, <1>3 DEF ExecutorInv

LEMMA StepKeepsExecutorInv == ExecutorInv /\ [Next]_vars => ExecutorInv'
<1> SUFFICES ASSUME ExecutorInv, [Next]_vars PROVE ExecutorInv'
  OBVIOUS
<1>1. CASE UNCHANGED vars
  <2>1. UNCHANGED <<active, pc, plan, position, lifecycle>>
    BY <1>1 DEF vars
  <2>2. TypeOK'
    BY <2>1 DEF ExecutorInv, TypeOK
  <2>3. ActiveIsTheOneCoordinating'
    BY <2>1 DEF ExecutorInv, ActiveIsTheOneCoordinating
  <2>4. \A c \in Calls : CallInv(c)'
    BY <2>1 DEF ExecutorInv, CallInv
  <2> QED BY <2>2, <2>3, <2>4 DEF ExecutorInv
<1>2. CASE Next
  <2>1. ASSUME NEW c \in Calls, Execute(c) PROVE ExecutorInv'
    BY <2>1, ExecuteKeeps
  <2>2. ASSUME NEW c \in Calls, RefuseRequest(c) PROVE ExecutorInv'
    BY <2>2, RefuseKeeps
  <2>3. ASSUME NEW c \in Calls, Coordinate(c) PROVE ExecutorInv'
    BY <2>3, CoordinateKeeps
  <2>4. ASSUME NEW c \in Calls, Advance(c) PROVE ExecutorInv'
    BY <2>4, AdvanceKeeps
  <2>5. ASSUME NEW c \in Calls, Drop(c) PROVE ExecutorInv'
    BY <2>5, DropKeeps
  <2>6. ASSUME NEW r \in Runs, Cancel(r) PROVE ExecutorInv'
    BY <2>6, CancelKeeps
  <2> QED BY <1>2, <2>1, <2>2, <2>3, <2>4, <2>5, <2>6 DEF Next, Step
<1> QED BY <1>1, <1>2

-----------------------------------------------------------------------------
(* What a cancelled execution still records. *)

\* Only an execution that is active is ever cancelled.
IdleInv == \A c \in Calls : pc[c] = "idle" => ~ lifecycle[c].cancelled

LEMMA IdleStays ==
  ASSUME ExecutorInv, IdleInv, [Next]_vars
  PROVE  IdleInv'
<1> SUFFICES ASSUME NEW c \in Calls, pc'[c] = "idle" PROVE ~ lifecycle'[c].cancelled
  BY DEF IdleInv
<1>0. pc \in [Calls -> Positions] /\ lifecycle \in [Calls -> Lifecycles]
  BY DEF ExecutorInv, TypeOK
<1>1. ASSUME pc[c] = "idle", lifecycle'[c] = lifecycle[c] PROVE ~ lifecycle'[c].cancelled
  BY <1>1 DEF IdleInv
<1>2. ASSUME NEW d \in Calls, NEW lc, NEW where \in Sleeping, SleepOrLeave(d, lc, where) \/ Leave(d, lc)
      PROVE  pc[c] = "idle" /\ lifecycle'[c] = lifecycle[c]
  <2>1. PICK place \in {"before", "after", "returned", "raised"} : \E new :
          lifecycle' = [lifecycle EXCEPT ![d] = new] /\ pc' = [pc EXCEPT ![d] = place]
    <3>1. CASE Leave(d, lc)
      <4>1. PICK final : final = IF lc.raised = "none" THEN lc ELSE FailureResult(lc)
        OBVIOUS
      <4>2. PICK place \in {"returned", "raised"} :
              place = IF final.raised = "none" THEN "returned" ELSE "raised"
        OBVIOUS
      <4>3. lifecycle' = [lifecycle EXCEPT ![d] = final] /\ pc' = [pc EXCEPT ![d] = place]
        BY <3>1, <4>1, <4>2 DEF Leave
      <4> QED BY <4>3
    <3>2. CASE ~ Leave(d, lc)
      <4>1. /\ lifecycle' = [lifecycle EXCEPT ![d] = lc] /\ pc' = [pc EXCEPT ![d] = where]
            /\ where \in {"before", "after"}
        BY <1>2, <3>2 DEF SleepOrLeave, Sleeping
      <4> QED BY <4>1
    <3> QED BY <3>1, <3>2
  <2> QED BY <1>0, <2>1
<1>3. "before" \in Sleeping /\ "after" \in Sleeping
  BY DEF Sleeping
<1>4. ASSUME NEW d \in Calls, Execute(d) PROVE ~ lifecycle'[c].cancelled
  BY <1>1, <1>2, <1>3, <1>4 DEF Execute
<1>5. ASSUME NEW d \in Calls, Coordinate(d) PROVE ~ lifecycle'[c].cancelled
  BY <1>1, <1>2, <1>3, <1>5 DEF Coordinate
<1>6. ASSUME NEW d \in Calls, Advance(d) PROVE ~ lifecycle'[c].cancelled
  <2>1. \/ SleepOrLeave(d, CheckCancelled(lifecycle[d]), "before")
        \/ Leave(d, Transition(CheckCancelled(lifecycle[d]), "succeeded"))
    BY <1>6 DEF Advance
  <2> QED BY <1>1, <1>2, <1>3, <2>1
<1>7. ASSUME NEW d \in Calls, RefuseRequest(d) \/ Drop(d) PROVE ~ lifecycle'[c].cancelled
  BY <1>0, <1>1, <1>7 DEF RefuseRequest, Drop
<1>8. ASSUME NEW r \in Runs, Cancel(r) PROVE ~ lifecycle'[c].cancelled
  <2>1. PICK d \in Calls : d = active[r] /\ pc[d] \in Sleeping
    BY <1>8, CallsAssumption DEF Cancel, ExecutorInv, TypeOK, ActiveIsTheOneCoordinating
  <2>2. pc[c] = "idle" /\ c # d
    BY <1>8, <2>1 DEF Cancel, Sleeping
  <2> QED BY <1>0, <1>1, <1>8, <2>1, <2>2 DEF Cancel
<1>9. CASE UNCHANGED vars
  BY <1>1, <1>9 DEF vars
<1> QED BY <1>4, <1>5, <1>6, <1>7, <1>8, <1>9 DEF Next, Step

\* A cancelled execution that comes to a sleep's end leaves with one more
\* event at most, which starts no step.
LEMMA CancelledStartsNothing ==
  ASSUME NEW types, NEW k, NEW lc, Underway(lc, types, k), lc.cancelled,
         NEW final, final = FailureResult(CheckCancelled(lc))
  PROVE  StepsStarted(final.events) = StepsStarted(lc.events)
<1>1. PICK checked : checked = [lc EXCEPT !.raised = "executor_cancelled"]
  OBVIOUS
<1>2. lc \in Lifecycles /\ lc.status = "running" /\ lc.raised = "none" /\ checked = CheckCancelled(lc)
  BY <1>1 DEF CheckCancelled, Underway
<1>3. /\ checked.steps = lc.steps /\ checked.events = lc.events /\ checked.status = "running"
      /\ checked.raised = "executor_cancelled" /\ checked \in Lifecycles
  BY <1>1, <1>2 DEF Lifecycles, Codes
<1>4. PICK closed : closed = [i \in DOMAIN checked.steps |->
                                IF checked.steps[i] \in {"pending", "running"} THEN "cancelled"
                                ELSE checked.steps[i]]
  OBVIOUS
<1>5. PICK settled :
        settled = [checked EXCEPT !.steps = closed, !.error = checked.raised, !.raised = "none"]
  OBVIOUS
<1>6. closed \in Seq(StepStatuses)
  <2>1. /\ DOMAIN checked.steps = 1 .. Len(checked.steps) /\ Len(checked.steps) \in Nat
        /\ \A i \in 1 .. Len(checked.steps) : checked.steps[i] \in StepStatuses
    BY <1>3, Parts
  <2>2. \A i \in 1 .. Len(checked.steps) : closed[i] \in StepStatuses
    BY <1>4, <2>1 DEF StepStatuses
  <2>3. closed \in [1 .. Len(checked.steps) -> StepStatuses]
    BY <1>4, <2>1, <2>2
  <2> QED BY <2>1, <2>3
<1>7. /\ settled \in Lifecycles /\ settled.status = "running" /\ settled.raised = "none"
      /\ settled.events = lc.events
  BY <1>3, <1>5, <1>6 DEF Lifecycles, Codes
<1>8. final = Transition(settled, "cancelled")
  BY <1>2, <1>3, <1>4, <1>5 DEF FailureResult, TERMINAL_EXECUTION_STATUSES
<1>9. "cancelled" \in ExecutionStatuses /\ "cancelled" \in EXECUTION_STATUS_TRANSITIONS[settled.status]
  BY <1>7 DEF ExecutionStatuses, EXECUTION_STATUS_TRANSITIONS
<1>10. \/ final.events = lc.events
       \/ final.events = Append(lc.events, "cancelled")
  <2>1. /\ Len(settled.events) >= MaxEvents => final.events = settled.events
        /\ Len(settled.events) < MaxEvents => final.events = Append(settled.events, "cancelled")
    BY <1>7, <1>8, <1>9, TransitionFields
  <2>2. Len(settled.events) \in Nat /\ MaxEvents \in Nat
    BY <1>7, Parts, LimitsAssumption
  <2> QED BY <1>7, <2>1, <2>2
<1>11. StepsStarted(Append(lc.events, "cancelled")) = StepsStarted(lc.events)
  <2>1. lc.events \in Seq(EventNames) /\ "cancelled" \in EventNames
    BY <1>2, Parts DEF EventNames, ExecutionStatuses
  <2> DEFINE events == lc.events
             more == Append(events, "cancelled")
  <2> HIDE DEF events
  <2>2. events \in Seq(EventNames) /\ Len(events) \in Nat /\ DOMAIN events = 1 .. Len(events)
    BY <2>1 DEF events
  <2>3. /\ more \in Seq(EventNames) /\ Len(more) = Len(events) + 1
        /\ \A i \in 1 .. Len(events) : more[i] = events[i]
        /\ more[Len(events) + 1] = "cancelled"
    BY <2>1, <2>2, AppendProperties
  <2>4. DOMAIN more = 1 .. Len(events) + 1
    BY <2>3
  <2> HIDE DEF more
  <2>5. StepsStarted(more) = StepsStarted(events)
    BY <2>2, <2>3, <2>4 DEF StepsStarted
  <2> QED BY <2>5 DEF more, events
<1> QED BY <1>10, <1>11

LEMMA StepStartsNothing ==
  ASSUME ExecutorInv, IdleInv, [Next]_vars, NEW c \in Calls, lifecycle[c].cancelled
  PROVE  StepsStarted(lifecycle'[c].events) = StepsStarted(lifecycle[c].events)
<1>0. pc \in [Calls -> Positions] /\ lifecycle \in [Calls -> Lifecycles]
  BY DEF ExecutorInv, TypeOK
<1>1. ASSUME NEW d \in Calls, d # c, NEW lc, NEW where, SleepOrLeave(d, lc, where) \/ Leave(d, lc)
      PROVE  lifecycle'[c] = lifecycle[c]
  <2>1. PICK new : lifecycle' = [lifecycle EXCEPT ![d] = new]
    BY <1>1 DEF SleepOrLeave, Leave
  <2> QED BY <1>0, <1>1, <2>1
<1>2. ASSUME NEW k, Underway(lifecycle[c], plan[c], k), Leave(c, CheckCancelled(lifecycle[c]))
      PROVE  StepsStarted(lifecycle'[c].events) = StepsStarted(lifecycle[c].events)
  <2>1. PICK checked : checked = CheckCancelled(lifecycle[c])
    OBVIOUS
  <2>2. checked.raised # "none"
    BY <1>2, <2>1 DEF CheckCancelled, Underway, Lifecycles
  <2>3. lifecycle' = [lifecycle EXCEPT ![c] = FailureResult(checked)]
    BY <1>2, <2>1, <2>2 DEF Leave
  <2>4. lifecycle'[c] = FailureResult(CheckCancelled(lifecycle[c]))
    BY <1>0, <2>1, <2>3
  <2> QED BY <1>2, <2>4, CancelledStartsNothing
<1>3. ASSUME NEW k, Underway(lifecycle[c], plan[c], k)
      PROVE  CheckCancelled(lifecycle[c]).raised # "none"
  BY <1>3 DEF CheckCancelled, Underway, Lifecycles
<1>4. ASSUME NEW d \in Calls, Execute(d)
      PROVE  StepsStarted(lifecycle'[c].events) = StepsStarted(lifecycle[c].events)
  <2>1. d # c
    BY <1>4 DEF Execute, IdleInv
  <2>2. \E lc : SleepOrLeave(d, lc, "before")
    BY <1>4 DEF Execute
  <2> QED BY <1>1, <2>1, <2>2
<1>5. ASSUME NEW d \in Calls, Coordinate(d)
      PROVE  StepsStarted(lifecycle'[c].events) = StepsStarted(lifecycle[c].events)
  <2>1. CASE d # c
    BY <1>1, <1>5, <2>1 DEF Coordinate
  <2>2. CASE d = c
    <3>1. Underway(lifecycle[c], plan[c], position[c] - 1)
      BY <1>5, <2>2 DEF Coordinate, ExecutorInv, CallInv
    <3>2. CheckCancelled(lifecycle[c]).raised # "none"
      BY <1>3, <3>1
    <3>3. ProgressStep(CheckCancelled(lifecycle[c]), position[c], plan[c][position[c]])
            = CheckCancelled(lifecycle[c])
      BY <3>2, RaisedPasses
    <3>4. Leave(c, CheckCancelled(lifecycle[c]))
      BY <1>5, <2>2, <3>2, <3>3 DEF Coordinate, SleepOrLeave
    <3> QED BY <1>2, <3>1, <3>4
  <2> QED BY <2>1, <2>2
<1>6. ASSUME NEW d \in Calls, Advance(d)
      PROVE  StepsStarted(lifecycle'[c].events) = StepsStarted(lifecycle[c].events)
  <2>1. \/ SleepOrLeave(d, CheckCancelled(lifecycle[d]), "before")
        \/ Leave(d, Transition(CheckCancelled(lifecycle[d]), "succeeded"))
    BY <1>6 DEF Advance
  <2>2. CASE d # c
    BY <1>1, <2>1, <2>2
  <2>3. CASE d = c
    <3>1. Underway(lifecycle[c], plan[c], position[c])
      BY <1>6, <2>3 DEF Advance, ExecutorInv, CallInv
    <3>2. CheckCancelled(lifecycle[c]).raised # "none"
      BY <1>3, <3>1
    <3>3. Transition(CheckCancelled(lifecycle[c]), "succeeded") = CheckCancelled(lifecycle[c])
      BY <3>2, RaisedPasses
    <3>4. Leave(c, CheckCancelled(lifecycle[c]))
      BY <2>1, <2>3, <3>2, <3>3 DEF SleepOrLeave
    <3> QED BY <1>2, <3>1, <3>4
  <2> QED BY <2>2, <2>3
<1>7. ASSUME NEW d \in Calls, RefuseRequest(d) \/ Drop(d)
      PROVE  StepsStarted(lifecycle'[c].events) = StepsStarted(lifecycle[c].events)
  BY <1>7 DEF RefuseRequest, Drop
<1>8. ASSUME NEW r \in Runs, Cancel(r)
      PROVE  StepsStarted(lifecycle'[c].events) = StepsStarted(lifecycle[c].events)
  <2>1. PICK d : d = active[r] /\ lifecycle' = [lifecycle EXCEPT ![d].cancelled = TRUE]
    BY <1>8 DEF Cancel
  <2>2. lifecycle'[c].events = lifecycle[c].events
    BY <1>0, <2>1 DEF Lifecycles
  <2> QED BY <2>2
<1>9. CASE UNCHANGED vars
  BY <1>9 DEF vars
<1> QED BY <1>4, <1>5, <1>6, <1>7, <1>8, <1>9 DEF Next, Step

-----------------------------------------------------------------------------

\* The inductive invariant of the executor.
THEOREM ExecutorInvariant == Spec => []ExecutorInv
BY InitExecutorInv, StepKeepsExecutorInv, PTL DEF Spec

\* The executor keeps its calls, plans and lifecycles well formed.
THEOREM TypeCorrect == Spec => []TypeOK
<1>1. ExecutorInv => TypeOK
  BY DEF ExecutorInv
<1> QED BY <1>1, ExecutorInvariant, PTL

\* What the caller of an execution sees is what happened in it, for any number
\* of calls and whatever limits and policies the executor has.
THEOREM ExecutionsStaySound == Spec => []ExecutionsAreSound
<1>1. ExecutorInv => ExecutionsAreSound
  <2> SUFFICES ASSUME ExecutorInv PROVE ExecutionsAreSound
    OBVIOUS
  <2>1. ActiveIsTheOneCoordinating
    BY DEF ExecutorInv
  <2>2. ASSUME NEW c \in Calls, pc[c] = "returned" PROVE Returned(lifecycle[c], plan[c])
    BY <2>2 DEF ExecutorInv, CallInv
  <2>3. ASSUME NEW c \in Calls, pc[c] = "raised" PROVE Cut(lifecycle[c])
    BY <2>3 DEF ExecutorInv, CallInv
  <2>4. AcknowledgedCancelIsFinal
    BY <2>2 DEF AcknowledgedCancelIsFinal, Returned
  <2>5. StepsFollowPlan
    BY <2>2 DEF StepsFollowPlan, Returned
  <2>6. ResultIsLogged
    BY <2>2 DEF ResultIsLogged, Returned
  <2>7. OnlyAFullLogHidesAFailure
    BY <2>2, <2>3 DEF OnlyAFullLogHidesAFailure, Returned, Cut
  <2> QED BY <2>1, <2>4, <2>5, <2>6, <2>7 DEF ExecutionsAreSound
<1> QED BY <1>1, ExecutorInvariant, PTL

\* Once a cancellation is requested no further step is started, at whatever
\* step the execution is and however full its log.
THEOREM CancelStopsTheSteps == Spec => NoStepAfterCancel
<1> DEFINE Same == \A c \in Calls : lifecycle[c].cancelled =>
                     StepsStarted(lifecycle'[c].events) = StepsStarted(lifecycle[c].events)
<1>1. Init => IdleInv
  BY DEF Init, IdleInv, NewLifecycle
<1>2. ExecutorInv /\ IdleInv /\ [Next]_vars => IdleInv'
  BY IdleStays
<1>3. ExecutorInv /\ IdleInv /\ [Next]_vars => [Same]_vars
  BY StepStartsNothing
<1>4. Spec => []IdleInv
  BY <1>1, <1>2, ExecutorInvariant, PTL DEF Spec
<1> HIDE DEF Same
<1>5. Spec => [][Same]_vars
  BY <1>3, <1>4, ExecutorInvariant, PTL DEF Spec
<1> QED BY <1>5 DEF NoStepAfterCancel, Same
=============================================================================
