------------------------------ MODULE AgentRuns ------------------------------
(***************************************************************************)
(* One agent run and every HTTP request that touches its rows: the request *)
(* that creates and drives it (AgentRunService.create_and_execute) and the *)
(* requests that cancel it (AgentRunService.cancel).  Runs share no rows,  *)
(* so a system of runs is a product of such specifications.                *)
(*                                                                         *)
(* Each request has a database session of its own, at READ COMMITTED, with *)
(* expire_on_commit=False: after a commit it goes on with the copy of the  *)
(* run it has in memory.  A transaction is split at its awaits: an UPDATE  *)
(* of the run's row (which takes the row's lock until the end of the       *)
(* transaction), SELECT max(sequence), INSERT of the event (which waits    *)
(* for another transaction's uncommitted row with the same key, and fails  *)
(* on a committed one), COMMIT.  Inserting an event locks only the key of  *)
(* the run's row, which no UPDATE here changes, so it takes no row lock.   *)
(*                                                                         *)
(* The executor and the runtime a cancelling request reaches are instances *)
(* of its own (api/dependencies.py builds one per request): their maps of  *)
(* active runs are empty and its two cancel calls change nothing.          *)
(*                                                                         *)
(* Left out of the data: the texts and codes a transition stores, the      *)
(* retry count, started_at, and the agent_steps rows the executor's        *)
(* transaction inserts along with its events.                              *)
(***************************************************************************)
EXTENDS Naturals, FiniteSets

CONSTANTS
  Owner,        \* the request that creates and executes the run
  Cancellers,   \* the requests that cancel it
  MaxNotes      \* bound: events an executor or runtime result holds

ASSUME OwnerAssumption == Owner \notin Cancellers
ASSUME MaxNotesAssumption == MaxNotes \in Nat \ {0}

VARIABLES
  (* the database *)
  status,       \* agent_runs.status, "absent" before the insert commits
  completedAt,  \* whether agent_runs.completed_at is set
  events,       \* the committed agent_events rows of the run
  audits,       \* how many audit rows name the run
  rowLock,      \* the request whose transaction has updated the run's row
  (* each request *)
  stage,        \* where its handler is
  txn,          \* where its transaction is
  view,         \* run.status in its in-memory copy
  target,       \* the status its transaction writes, "none" if it only appends
  notes,        \* events its transaction still has to insert
  sequence,     \* the sequence number next_event_sequence returned to it
  pending       \* the events its transaction has inserted, not yet committed

database == <<status, completedAt, events, audits, rowLock>>
session == <<txn, target, notes, sequence, pending>>
vars == <<database, stage, view, session>>

Lifecycle == INSTANCE RunLifecycle

Reqs == Cancellers \cup {Owner}

RunStatuses == Lifecycle!RunStatuses
RUN_STATUS_TRANSITIONS == Lifecycle!RUN_STATUS_TRANSITIONS

\* The statuses that set completed_at, and that the error handler leaves alone.
TerminalStatuses == {"succeeded", "failed", "cancelled"}

\* What a runtime result can map to (_agent_status_from_runtime).
Outcomes == {"succeeded", "failed", "cancelled", "retriable"}

\* The stages of create_and_execute that are one _transition_run, and the
\* stage that is the whole of cancel once it has read the run.
TransitionStages == {"validate", "queue", "start", "finish", "fail", "cancel"}

\* The stages of create_and_execute that call a collaborator and append events.
NoteStages == {"context", "plan", "execute", "run"}

\* The ways a request ends: "returned" answers 2xx, "raised" an error the code
\* means to answer, "lost" an error that also escapes the error handling, and
\* "aborted" no answer at all.
Ended == {"returned", "raised", "lost", "aborted"}

Stages == TransitionStages \cup NoteStages \cup Ended \cup {"post", "recover"}

TxnPositions == {"closed", "update", "select", "insert", "commit"}

\* The row of an event.  A status change carries the statuses it names in its
\* metadata, any other event "none"; "by" is the request that wrote it, which
\* the table does not hold and only the properties look at.
Events ==
  [seq : Nat, from : RunStatuses \cup {"none"}, to : RunStatuses \cup {"none"}, by : Reqs]

SequencesOf(rows) == {e.seq : e \in rows}
StatusEvents == {e \in events : e.to # "none"}

TypeOK ==
  /\ status \in RunStatuses \cup {"absent"}
  /\ completedAt \in BOOLEAN
  /\ events \subseteq Events
  /\ audits \in Nat
  /\ rowLock \subseteq Reqs
  /\ stage \in [Reqs -> Stages]
  /\ txn \in [Reqs -> TxnPositions]
  /\ view \in [Reqs -> RunStatuses \cup {"absent"}]
  /\ target \in [Reqs -> RunStatuses \cup {"none"}]
  /\ notes \in [Reqs -> Nat]
  /\ sequence \in [Reqs -> Nat]
  /\ pending \in [Reqs -> SUBSET Events]

-----------------------------------------------------------------------------
(* What a request decides from its in-memory copy. *)

\* The status _fail_run_after_error moves the run to next.
FailTarget(current) == IF current = "requested" THEN "validating" ELSE "failed"

\* The statuses the transition of a stage may ask for.
Targets(p) ==
  CASE stage[p] = "validate" -> {"validating"}
    [] stage[p] = "queue"    -> {"queued"}
    [] stage[p] = "start"    -> {"running"}
    [] stage[p] = "finish"   -> Outcomes
    [] stage[p] = "fail"     -> {FailTarget(view[p])}
    [] stage[p] = "cancel"   -> {"cancelled"}

\* Mutant: a result without events goes through the same inserts.
NoteCountsFromZero(p) == 0 .. MaxNotes

\* How many events the transaction of a note stage appends.
NoteCounts(p) ==
  IF stage[p] \in {"context", "plan"} THEN {1} ELSE 1 .. MaxNotes

\* Where a handler goes once its transaction has committed.
NextStage(p) ==
  CASE stage[p] = "validate" -> "context"
    [] stage[p] = "context"  -> "plan"
    [] stage[p] = "plan"     -> "queue"
    [] stage[p] = "queue"    -> "start"
    [] stage[p] = "start"    -> "execute"
    [] stage[p] = "execute"  -> "run"
    [] stage[p] = "run"      -> "finish"
    [] stage[p] = "finish"   -> "returned"
    [] stage[p] = "cancel"   -> "returned"
    [] stage[p] = "fail"     -> IF target[p] = "failed" THEN "raised" ELSE "fail"

\* Mutant: the table is not consulted.
ValidatedAlways(p, goal) == TRUE

\* validate_status_transition, on the status the request has in memory.
Validated(p, goal) == Lifecycle!LegalTransition(view[p], goal)

\* next_event_sequence: one past the largest sequence among the rows the
\* transaction sees (the committed ones and its own), 0 when it sees none.
NextSequences(rows) ==
  {n \in {0} \cup {s + 1 : s \in SequencesOf(rows)} : \A s \in SequencesOf(rows) : s < n}

\* Mutant: the table has no unique index.
TakenNever(n, rows) == FALSE

\* uq_agent_events_run_sequence refuses a sequence number some row has.
Taken(n, rows) == n \in SequencesOf(rows)

\* The event the transaction of p inserts at the sequence it was given.
EventOf(p) ==
  [seq  |-> sequence[p],
   from |-> IF target[p] = "none" THEN "none" ELSE view[p],
   to   |-> target[p],
   by   |-> p]

-----------------------------------------------------------------------------

Init ==
  /\ status = "absent"
  /\ completedAt = FALSE
  /\ events = {}
  /\ audits = 0
  /\ rowLock = {}
  /\ stage = [p \in Reqs |-> "post"]
  /\ txn = [p \in Reqs |-> "closed"]
  /\ view = [p \in Reqs |-> "absent"]
  /\ target = [p \in Reqs |-> "none"]
  /\ notes = [p \in Reqs |-> 0]
  /\ sequence = [p \in Reqs |-> 0]
  /\ pending = [p \in Reqs |-> {}]

\* Mutant: the row is inserted as if it were validated already.
CreateValidating ==
  /\ stage[Owner] = "post"
  /\ status' = "validating"
  /\ events' = {[seq |-> 0, from |-> "none", to |-> "requested", by |-> Owner]}
  /\ audits' = 1
  /\ view' = [view EXCEPT ![Owner] = "requested"]
  /\ stage' = [stage EXCEPT ![Owner] = "validate"]
  /\ UNCHANGED <<completedAt, rowLock, session>>

\* create_and_execute inserts the run, its event 0 and an audit row, and
\* commits them.  Nobody else knows the run before that commit.
Create ==
  /\ stage[Owner] = "post"
  /\ status' = "requested"
  /\ events' = {[seq |-> 0, from |-> "none", to |-> "requested", by |-> Owner]}
  /\ audits' = 1
  /\ view' = [view EXCEPT ![Owner] = "requested"]
  /\ stage' = [stage EXCEPT ![Owner] = "validate"]
  /\ UNCHANGED <<completedAt, rowLock, session>>

\* cancel reads the run (populate_existing: a fresh copy).
CancelReads(c) ==
  /\ stage[c] = "post"
  /\ status # "absent"
  /\ view' = [view EXCEPT ![c] = status]
  /\ stage' = [stage EXCEPT ![c] = "cancel"]
  /\ UNCHANGED <<database, session>>

\* cancel answers 404 for a run it does not find.
CancelFindsNoRun(c) ==
  /\ stage[c] = "post"
  /\ status = "absent"
  /\ stage' = [stage EXCEPT ![c] = "raised"]
  /\ UNCHANGED <<database, view, session>>

\* _transition_run starts: the table allows the change the request asks for.
BeginTransition(p) ==
  /\ stage[p] \in TransitionStages
  /\ txn[p] = "closed"
  /\ \E goal \in Targets(p) :
       /\ Validated(p, goal)
       /\ target' = [target EXCEPT ![p] = goal]
  /\ notes' = [notes EXCEPT ![p] = 1]
  /\ txn' = [txn EXCEPT ![p] = "update"]
  /\ UNCHANGED <<database, stage, view, sequence, pending>>

\* Mutant: a cancellation that is refused is answered as if it were done.
RefuseTransitionQuietly(p) ==
  /\ stage[p] \in TransitionStages
  /\ txn[p] = "closed"
  /\ \E goal \in Targets(p) : ~ Validated(p, goal)
  /\ stage' = [stage EXCEPT ![p] =
                 IF @ = "cancel" THEN "returned" ELSE IF @ = "fail" THEN "raised" ELSE "recover"]
  /\ UNCHANGED <<database, view, session>>

\* _transition_run raises AgentLifecycleError before it writes anything.
\* Only the transitions inside create_and_execute's try reach its handler.
RefuseTransition(p) ==
  /\ stage[p] \in TransitionStages
  /\ txn[p] = "closed"
  /\ \E goal \in Targets(p) : ~ Validated(p, goal)
  /\ stage' = [stage EXCEPT ![p] =
                 IF @ \in {"cancel", "fail"} THEN "raised" ELSE "recover"]
  /\ UNCHANGED <<database, view, session>>

\* The context assembler, planner, executor or runtime answered, and the
\* handler appends the events that record it.  An executor or runtime result
\* that reports a failure is recorded and the handler goes on.
BeginNotes ==
  /\ stage[Owner] \in NoteStages
  /\ txn[Owner] = "closed"
  /\ \E n \in NoteCounts(Owner) : notes' = [notes EXCEPT ![Owner] = n]
  /\ target' = [target EXCEPT ![Owner] = "none"]
  /\ txn' = [txn EXCEPT ![Owner] = "select"]
  /\ UNCHANGED <<database, stage, view, sequence, pending>>

\* A collaborator raised (or, in "finish", the output metadata is refused)
\* while no transaction was open: rollback finds nothing to undo.
StageRaises ==
  /\ stage[Owner] \in NoteStages \cup {"finish"}
  /\ txn[Owner] = "closed"
  /\ stage' = [stage EXCEPT ![Owner] = "recover"]
  /\ UNCHANGED <<database, view, session>>

\* A context provider raised after it had queried the database: rollback
\* expires every object of the session, so the handler's run.id needs a
\* refresh outside the async driver's context and raises in turn.
ContextRaisesInTransaction ==
  /\ stage[Owner] = "context"
  /\ txn[Owner] = "closed"
  /\ stage' = [stage EXCEPT ![Owner] = "lost"]
  /\ UNCHANGED <<database, view, session>>

\* _fail_run_after_error reads the run afresh, and leaves a terminal one alone.
Recover ==
  /\ stage[Owner] = "recover"
  /\ view' = [view EXCEPT ![Owner] = status]
  /\ stage' = [stage EXCEPT ![Owner] =
                 IF status \in TerminalStatuses THEN "raised" ELSE "fail"]
  /\ UNCHANGED <<database, session>>

\* UPDATE agent_runs ... WHERE id = ...: waits for the row's lock.
UpdateRow(p) ==
  /\ txn[p] = "update"
  /\ rowLock = {}
  /\ rowLock' = {p}
  /\ txn' = [txn EXCEPT ![p] = "select"]
  /\ UNCHANGED <<status, completedAt, events, audits, stage, view,
                 target, notes, sequence, pending>>

\* SELECT max(sequence).
SelectSequence(p) ==
  /\ txn[p] = "select"
  /\ \E n \in NextSequences(events \cup pending[p]) :
       sequence' = [sequence EXCEPT ![p] = n]
  /\ txn' = [txn EXCEPT ![p] = "insert"]
  /\ UNCHANGED <<database, stage, view, target, notes, pending>>

\* INSERT INTO agent_events, when the unique index lets it through.
InsertEvent(p) ==
  /\ txn[p] = "insert"
  /\ ~ Taken(sequence[p], events)
  /\ \A q \in Reqs \ {p} : ~ Taken(sequence[p], pending[q])
  /\ pending' = [pending EXCEPT ![p] = @ \cup {EventOf(p)}]
  /\ notes' = [notes EXCEPT ![p] = @ - 1]
  /\ txn' = [txn EXCEPT ![p] = IF notes[p] > 1 THEN "select" ELSE "commit"]
  /\ UNCHANGED <<database, stage, view, target, sequence>>

\* The end of a transaction, committed or not: its locals are gone.
EndTransaction(p) ==
  /\ rowLock' = rowLock \ {p}
  /\ pending' = [pending EXCEPT ![p] = {}]
  /\ txn' = [txn EXCEPT ![p] = "closed"]
  /\ target' = [target EXCEPT ![p] = "none"]
  /\ notes' = [notes EXCEPT ![p] = 0]
  /\ sequence' = [sequence EXCEPT ![p] = 0]

\* A transaction that ends without a commit.
Rollback(p) ==
  /\ EndTransaction(p)
  /\ UNCHANGED <<status, completedAt, events, audits, view>>

\* Mutant: the transaction of the failed INSERT stays open.
InsertConflictsUnfinished(p) ==
  /\ txn[p] = "insert"
  /\ Taken(sequence[p], events)
  /\ txn' = [txn EXCEPT ![p] = "closed"]
  /\ stage' = [stage EXCEPT ![p] = "lost"]
  /\ UNCHANGED <<database, view, target, notes, sequence, pending>>

\* The INSERT fails on the unique index.  cancel does not handle the error;
\* create_and_execute rolls back an open transaction and its handler raises
\* on the expired run, as in ContextRaisesInTransaction.
InsertConflicts(p) ==
  /\ txn[p] = "insert"
  /\ Taken(sequence[p], events)
  /\ Rollback(p)
  /\ stage' = [stage EXCEPT ![p] = "lost"]

\* Mutant: completed_at is computed afresh on every change.
WriteRowAfresh(p) ==
  IF target[p] = "none"
    THEN UNCHANGED <<status, completedAt, audits, view>>
    ELSE /\ status' = target[p]
         /\ completedAt' = (target[p] \in TerminalStatuses)
         /\ audits' = audits + 1
         /\ view' = [view EXCEPT ![p] = target[p]]

\* What a transaction that has a target writes of the run besides its event.
WriteRow(p) ==
  IF target[p] = "none"
    THEN UNCHANGED <<status, completedAt, audits, view>>
    ELSE /\ status' = target[p]
         /\ completedAt' = (completedAt \/ target[p] \in TerminalStatuses)
         /\ audits' = audits + 1
         /\ view' = [view EXCEPT ![p] = target[p]]

\* COMMIT: the row, the events and the audit row become visible together.
Commit(p) ==
  /\ txn[p] = "commit"
  /\ WriteRow(p)
  /\ events' = events \cup pending[p]
  /\ stage' = [stage EXCEPT ![p] = NextStage(p)]
  /\ EndTransaction(p)

\* The request dies between two awaits: its process stops, its task is
\* cancelled, or its connection fails.  None of them reaches a handler that
\* can still write, and the database rolls the transaction back.
Abort(p) ==
  /\ stage[p] \notin Ended \cup {"post"}
  /\ Rollback(p)
  /\ stage' = [stage EXCEPT ![p] = "aborted"]

-----------------------------------------------------------------------------

OwnerStep ==
  \/ Create
  \/ BeginNotes
  \/ StageRaises
  \/ ContextRaisesInTransaction
  \/ Recover

CancelStep(c) == CancelReads(c) \/ CancelFindsNoRun(c)

\* The steps of a request inside _transition_run and _append_run_event.
WriteStep(p) ==
  \/ BeginTransition(p)
  \/ RefuseTransition(p)
  \/ UpdateRow(p)
  \/ SelectSequence(p)
  \/ InsertEvent(p)
  \/ InsertConflicts(p)
  \/ Commit(p)

Next ==
  \/ OwnerStep
  \/ \E c \in Cancellers : CancelStep(c)
  \/ \E p \in Reqs : WriteStep(p) \/ Abort(p)

Spec == Init /\ [][Next]_vars

\* The event loop and the database never stop serving a request that has
\* begun; no client has to send one.
Fairness ==
  /\ WF_vars(OwnerStep /\ stage[Owner] # "post")
  /\ \A p \in Reqs : WF_vars(WriteStep(p))

FairSpec == Spec /\ Fairness

-----------------------------------------------------------------------------
(* What the code keeps, whatever the interleaving. *)

\* No two events of a run share a sequence number, committed or not: what
\* next_event_sequence reads and the index refuses add up to it.
EventSequencesAreUnique ==
  \A e, f \in events \cup UNION {pending[p] : p \in Reqs} : e.seq = f.seq => e = f

\* The sequence numbers of a run's events leave no gap, although requests
\* read the largest one, roll back and die at any point in between.
EventSequencesHaveNoGap ==
  \A e \in events : \A n \in 0 .. e.seq : n \in SequencesOf(events)

\* The log is numbered exactly, although the number of an event is read in one
\* statement and inserted in another.
SequencesAreExact == EventSequencesAreUnique /\ EventSequencesHaveNoGap

\* A reader that has seen the events up to some number never misses one:
\* events become visible in the order of their numbers and none goes away.
LogGrowsAtItsEnd ==
  [][ /\ events \subseteq events'
      /\ \A e \in events' \ events, f \in events : f.seq < e.seq ]_vars

\* The run's status is the one the latest status event names.
StatusMatchesLog ==
  status # "absent" =>
    \E e \in StatusEvents :
      /\ e.to = status
      /\ \A f \in StatusEvents : f.seq <= e.seq

\* completed_at tells whether the run ever was in a terminal status.
CompletionMatchesLog ==
  completedAt <=> \E e \in StatusEvents : e.to \in TerminalStatuses

\* The row and the log agree, in the status and in completed_at, even though
\* they are written by statements other requests come between.
RowAgreesWithLog == StatusMatchesLog /\ CompletionMatchesLog

\* Every status event has its audit row and every audit row its status event.
AuditsMatchLog == audits = Cardinality(StatusEvents)

\* The three records of a run, its row, its log and its audit, never disagree.
RecordsAgree == RowAgreesWithLog /\ AuditsMatchLog

\* A request that answers the owner leaves the run settled: a normal answer in
\* a status that needs no further step, an error in a terminal one.
AnsweredRunIsSettled ==
  /\ stage[Owner] = "returned" => status \in TerminalStatuses \cup {"retriable"}
  /\ stage[Owner] = "raised" => status \in TerminalStatuses

\* A cancellation that was acknowledged is in the log.
AcknowledgedCancelIsLogged ==
  \A c \in Cancellers :
    stage[c] = "returned" => \E e \in events : e.by = c /\ e.to = "cancelled"

\* Whoever is answered can rely on the answer: the owner on its run being
\* settled, a cancelling request on its cancellation being in the log.
AnswersAreTrue == AnsweredRunIsSettled /\ AcknowledgedCancelIsLogged

\* The status leaves the table only when a request writes the run from a copy
\* another request has made stale.
OnlyStaleCopiesLeaveTheTable ==
  [][ status \notin {"absent", status'} =>
        \/ Lifecycle!LegalTransition(status, status')
        \/ \E p \in rowLock : view[p] # status ]_vars

\* Every request that has begun ends: no two of them wait for each other.
EveryRequestEnds ==
  \A p \in Reqs : stage[p] # "post" ~> stage[p] \in Ended

\* The run of a request nobody interferes with goes through the lifecycle.
FollowsLifecycle == Lifecycle!Spec

-----------------------------------------------------------------------------
(* What the documentation says and the code does not keep. *)

\* docs/phase-6-agent-framework.md, lifecycle diagram: "Cancelled --> [*]".
CancelledIsFinal ==
  \A e, f \in StatusEvents : e.to = "cancelled" /\ e.seq < f.seq => f.to = "cancelled"
=============================================================================
