---------------------------- MODULE AgentRecords ----------------------------
(***************************************************************************)
(* The records of the agents domain under concurrent requests: one user's  *)
(* agent definitions (AgentDefinitionService) and one run with its steps,  *)
(* events and artifacts (AgentRunService outside create_and_execute and    *)
(* cancel, which AgentRuns models).                                        *)
(*                                                                         *)
(* A request is one transaction at READ COMMITTED in a session of its own. *)
(* It reads its row (and, for a definition, the holder of the key it wants) *)
(* and is refused or goes on with that copy; it flushes its write, which   *)
(* takes the row's lock, waits for an uncommitted write of the same row or *)
(* of the same unique key, and raises IntegrityError on a committed one;   *)
(* changes of the run and appended events then insert an event; it         *)
(* commits.  Only COMMIT stands in a try statement, so what a flush raises *)
(* escapes the service.  The ORM's UPDATE names only columns that differ   *)
(* from the copy; an update is taken to change some other column as well.  *)
(* The reads of one handler are taken together.                            *)
(*                                                                         *)
(* Left out of the data: names, types, versions, configurations, metadata  *)
(* and their limits, outputs, errors and times, the step an event names,   *)
(* and what an artifact is.                                                *)
(***************************************************************************)
EXTENDS Naturals, FiniteSets

CONSTANTS
  Requests,
  Definitions,     \* ids; one is used for one definition
  Keys,            \* agent keys
  Null,            \* what a caller may send for a key or a status
  Same,            \* what an update says of a column it leaves alone
  Sequences,       \* bound: the numbers callers give events
  NoNumber,        \* what they give instead, for the service to choose
  Indexes,         \* bound: the numbers callers give steps
  MaxSteps, MaxEvents

ASSUME NoValuesAssumption ==
  Null \notin Keys \cup {Same, "active", "disabled", "archived"} /\ Same \notin Keys
ASSUME NumbersAssumption ==
  Sequences \subseteq Nat /\ Indexes \subseteq Nat /\ NoNumber \notin Nat
ASSUME LimitsAssumption == MaxSteps \in Nat \ {0} /\ MaxEvents \in Nat \ {0}

VARIABLES
  definitions,   \* the committed agent_definitions rows
  run,           \* the committed agent_runs row
  steps,         \* the committed agent_steps rows, as indexes
  events,        \* the committed agent_events rows
  artifacts,     \* the number of committed agent_artifacts rows
  op,            \* what each request asks for
  stage,         \* where its handler is
  copy,          \* what it has read
  sequence,      \* the sequence number of its event
  answer         \* how it ended

database == <<definitions, run, steps, events, artifacts>>
vars == <<database, op, stage, copy, sequence, answer>>

Lifecycle == INSTANCE RunLifecycle WITH status <- run.status

DefinitionStatuses == {"active", "disabled", "archived"}
Rows == [key : Keys, status : DefinitionStatuses]
Absent == [key |-> Null, status |-> "absent"]

\* A run that was never created, and one that was deleted.
NoRun == [status |-> "absent", retries |-> 0]
Deleted == [status |-> "deleted", retries |-> 0]
RunRows == [status : Lifecycle!RunStatuses, retries : Nat] \cup {NoRun, Deleted}

\* A step, of which the index is kept.
StepRows == Nat

\* A status change carries the status it leads to, another event "none".
Events == [seq : Nat, to : Lifecycle!RunStatuses \cup {"none"}, counted : BOOLEAN]

\* What the services are asked for.
CreateDefinitionOps == [kind : {"create_definition"}, id : Definitions, key : Keys, status : {"active"}]
UpdateDefinitionOps ==
  [kind : {"update_definition"}, id : Definitions, key : Keys \cup {Same, Null},
   status : DefinitionStatuses \cup {Same, Null}]
ArchiveDefinitionOps ==
  [kind : {"archive_definition"}, id : Definitions, key : {Same}, status : {"archived"}]
DefinitionOps == CreateDefinitionOps \cup UpdateDefinitionOps \cup ArchiveDefinitionOps

CreateRunOps == [kind : {"create_run"}, id : Definitions]
StatusOps == [kind : {"update_status"}, to : Lifecycle!RunStatuses, counted : BOOLEAN]
StepOps == [kind : {"append_step"}, index : Indexes]
EventOps == [kind : {"append_event"}, seq : Sequences \cup {NoNumber}]
RunOps ==
  StatusOps \cup StepOps \cup EventOps \cup [kind : {"append_artifact", "delete_run"}]
NoOp == [kind |-> "none"]

\* A copy of the rows a request has read.
Copies ==
  [definitions : [Definitions -> Rows \cup {Absent}], run : RunRows, steps : SUBSET Nat,
   events : SUBSET Events]
NoCopy ==
  [definitions |-> [d \in Definitions |-> Absent], run |-> NoRun, steps |-> {}, events |-> {}]

\* "integrity" and "stale" are errors of the database that the service does
\* not catch; "refused" is one of its own.
Answers == {"none", "ok", "refused", "integrity", "stale", "aborted"}

SequencesOf(rows) == {e.seq : e \in rows}

TypeOK ==
  /\ definitions \in [Definitions -> Rows \cup {Absent}]
  /\ run \in RunRows
  /\ steps \subseteq StepRows
  /\ events \subseteq Events
  /\ \A e, f \in events : e.seq = f.seq => e = f
  /\ artifacts \in Nat
  /\ op \in [Requests -> DefinitionOps \cup CreateRunOps \cup RunOps \cup {NoOp}]
  /\ stage \in [Requests -> {"new", "checked", "written", "numbered", "inserted", "done"}]
  /\ copy \in [Requests -> Copies]
  /\ sequence \in [Requests -> Nat]
  /\ answer \in [Requests -> Answers]

Asks(r, kinds) == op[r].kind \in kinds

End(r, how) ==
  /\ stage' = [stage EXCEPT ![r] = "done"]
  /\ answer' = [answer EXCEPT ![r] = how]
  /\ copy' = [copy EXCEPT ![r] = NoCopy]
  /\ sequence' = [sequence EXCEPT ![r] = 0]
  /\ UNCHANGED op

Goto(r, position) ==
  /\ stage' = [stage EXCEPT ![r] = position]
  /\ UNCHANGED <<op, answer>>

-----------------------------------------------------------------------------
(* Reading and checking. *)

\* The definition that holds a key in the rows given.
Holders(rows, key) == {d \in Definitions : rows[d] # Absent /\ rows[d].key = key}

\* get_definition_by_key_for_user finds no other definition.
KeyFree(o) == \A d \in Holders(definitions, o.key) : d = o.id

\* Mutant: the limits are compared off by one.
WithinLimitsTooFar(o) ==
  /\ o.kind = "append_step" => Cardinality(steps) <= MaxSteps
  /\ o.kind = "append_event" => Cardinality(events) <= MaxEvents

\* validate_step_count and validate_event_count.
WithinLimits(o) ==
  /\ o.kind = "append_step" => Cardinality(steps) < MaxSteps
  /\ o.kind = "append_event" => Cardinality(events) < MaxEvents

\* The checks of the services on what they have just read.
Accepted(o) ==
  CASE o.kind = "create_definition" -> KeyFree(o)
    [] o.kind = "update_definition" -> definitions[o.id] # Absent /\ (o.key # Same => KeyFree(o))
    [] o.kind = "archive_definition" -> definitions[o.id].status \in {"active", "disabled"}
    [] o.kind = "create_run" -> definitions[o.id].status = "active"
    [] OTHER ->
         /\ run \notin {NoRun, Deleted}
         /\ o.kind = "update_status" => Lifecycle!LegalTransition(run.status, o.to)
         /\ WithinLimits(o)

\* What a request keeps of what it has read.
Snapshot(o) ==
  IF o \in DefinitionOps THEN [NoCopy EXCEPT !.definitions = definitions]
                         ELSE [NoCopy EXCEPT !.run = run, !.steps = steps, !.events = events]

\* A new definition gets an id of its own, and a run is created once.
Possible(o) ==
  /\ o.kind = "create_definition" =>
       /\ definitions[o.id] = Absent
       /\ \A s \in Requests : Asks(s, {"create_definition"}) => op[s].id # o.id
  /\ o.kind = "create_run" => run = NoRun /\ \A s \in Requests : ~ Asks(s, {"create_run"})

Read(r, o) ==
  /\ stage[r] = "new"
  /\ Possible(o) /\ Accepted(o)
  /\ op' = [op EXCEPT ![r] = o]
  /\ copy' = [copy EXCEPT ![r] = Snapshot(o)]
  /\ stage' = [stage EXCEPT ![r] = "checked"]
  /\ UNCHANGED <<database, sequence, answer>>

Refuse(r, o) ==
  /\ stage[r] = "new"
  /\ Possible(o) /\ ~ Accepted(o)
  /\ End(r, "refused")
  /\ UNCHANGED database

-----------------------------------------------------------------------------
(* Definitions. *)

\* Mutant: the row is written as the request has read it.
WrittenRowWhole(r) ==
  LET o == op[r]
  IN  IF o.kind = "create_definition" THEN [key |-> o.key, status |-> "active"]
      ELSE [key |-> IF o.key = Same THEN copy[r].definitions[o.id].key ELSE o.key,
            status |-> IF o.status = Same THEN copy[r].definitions[o.id].status ELSE o.status]

\* The row a request leaves: a column it was not asked for, or that already had
\* the value in its copy, stays as it is in the table.
WrittenRow(r) ==
  LET o == op[r]
      Column(asked, seen, stored) == IF asked \in {Same, seen} THEN stored ELSE asked
  IN  IF o.kind = "create_definition" THEN [key |-> o.key, status |-> "active"]
      ELSE [key |-> Column(o.key, copy[r].definitions[o.id].key, definitions[o.id].key),
            status |-> Column(o.status, copy[r].definitions[o.id].status, definitions[o.id].status)]

\* Another request has an uncommitted write of the row or of the key.
DefinitionLocked(r) ==
  \E s \in Requests \ {r} :
    /\ stage[s] = "written" /\ op[s] \in DefinitionOps
    /\ \/ op[s].id = op[r].id
       \/ WrittenRow(s).key = WrittenRow(r).key
       \/ definitions[op[s].id].key = WrittenRow(r).key

\* A column of the row is null, or another committed row has its key.
RowRefused(r) ==
  \/ Null \in {WrittenRow(r).key, WrittenRow(r).status}
  \/ Holders(definitions, WrittenRow(r).key) \ {op[r].id} # {}

FlushDefinition(r) ==
  /\ stage[r] = "checked" /\ op[r] \in DefinitionOps
  /\ ~ DefinitionLocked(r)
  /\ IF RowRefused(r) THEN End(r, "integrity")
                      ELSE Goto(r, "written") /\ UNCHANGED <<copy, sequence>>
  /\ UNCHANGED database

CommitDefinition(r) ==
  /\ stage[r] = "written" /\ op[r] \in DefinitionOps
  /\ definitions' = [definitions EXCEPT ![op[r].id] = WrittenRow(r)]
  /\ End(r, "ok")
  /\ UNCHANGED <<run, steps, events, artifacts>>

-----------------------------------------------------------------------------
(* The run and its rows. *)

\* create, with the run's first event, which no other request can see before
\* the commit.
CreateRun(r) ==
  /\ stage[r] = "checked" /\ Asks(r, {"create_run"})
  /\ run' = [status |-> "requested", retries |-> 0]
  /\ events' = {[seq |-> 0, to |-> "requested", counted |-> FALSE]}
  /\ End(r, "ok")
  /\ UNCHANGED <<definitions, steps, artifacts>>

\* A request that holds the lock of the run's row, for an update or a delete.
Holds(s, kinds) == Asks(s, kinds) /\ stage[s] \in {"written", "numbered", "inserted"}

\* update_run of update_status; an UPDATE that meets no row raises StaleDataError.
UpdateRun(r) ==
  /\ stage[r] = "checked" /\ Asks(r, {"update_status"})
  /\ \A s \in Requests : ~ Holds(s, {"update_status", "delete_run"})
  /\ IF run = Deleted THEN End(r, "stale")
                      ELSE Goto(r, "written") /\ UNCHANGED <<copy, sequence>>
  /\ UNCHANGED database

NextSequence(rows) ==
  CHOOSE n \in {0} \cup {s + 1 : s \in SequencesOf(rows)} : \A s \in SequencesOf(rows) : s < n

\* Mutant: the number is taken from the events the request has loaded.
NumberFromCopy(r) ==
  /\ \/ stage[r] = "written" /\ Asks(r, {"update_status"})
     \/ stage[r] = "checked" /\ Asks(r, {"append_event"})
  /\ sequence' = [sequence EXCEPT ![r] =
                    IF Asks(r, {"append_event"}) /\ op[r].seq # NoNumber
                      THEN op[r].seq
                      ELSE NextSequence(copy[r].events)]
  /\ Goto(r, "numbered")
  /\ UNCHANGED <<database, copy>>

\* next_event_sequence, unless the caller has given a number.
Number(r) ==
  /\ \/ stage[r] = "written" /\ Asks(r, {"update_status"})
     \/ stage[r] = "checked" /\ Asks(r, {"append_event"})
  /\ sequence' = [sequence EXCEPT ![r] =
                    IF Asks(r, {"append_event"}) /\ op[r].seq # NoNumber
                      THEN op[r].seq
                      ELSE NextSequence(events)]
  /\ Goto(r, "numbered")
  /\ UNCHANGED <<database, copy>>

\* A child row can be inserted while its run exists: an uncommitted DELETE of
\* the run has to end first.
AwaitsDelete(r) == \E s \in Requests \ {r} : Holds(s, {"delete_run"})

\* Mutant: the table has no unique index.
NumberTakenNever(r) == FALSE

\* uq_agent_events_run_sequence refuses the number.
NumberTaken(r) == sequence[r] \in SequencesOf(events)

InsertEvent(r) ==
  /\ stage[r] = "numbered"
  /\ ~ AwaitsDelete(r)
  /\ \A s \in Requests \ {r} : stage[s] = "inserted" => sequence[s] # sequence[r]
  /\ IF run = Deleted \/ NumberTaken(r)
       THEN End(r, "integrity")
       ELSE Goto(r, "inserted") /\ UNCHANGED <<copy, sequence>>
  /\ UNCHANGED database

\* create_step and create_artifact; nobody has looked whether the index is free.
InsertChild(r) ==
  /\ stage[r] = "checked" /\ Asks(r, {"append_step", "append_artifact"})
  /\ ~ AwaitsDelete(r)
  /\ Asks(r, {"append_step"}) =>
       \A s \in Requests \ {r} :
         stage[s] = "written" /\ Asks(s, {"append_step"}) => op[s].index # op[r].index
  /\ IF run = Deleted \/ (Asks(r, {"append_step"}) /\ op[r].index \in steps)
       THEN End(r, "integrity")
       ELSE Goto(r, "written") /\ UNCHANGED <<copy, sequence>>
  /\ UNCHANGED database

\* delete_run, which waits for whoever has written to the run; if its row is
\* gone nothing happens.
FlushDelete(r) ==
  /\ stage[r] = "checked" /\ Asks(r, {"delete_run"})
  /\ \A s \in Requests \ {r} :
       /\ ~ Holds(s, {"update_status", "delete_run", "append_step", "append_artifact"})
       /\ ~ (Asks(s, {"append_event"}) /\ stage[s] = "inserted")
  /\ Goto(r, "written")
  /\ UNCHANGED <<database, copy, sequence>>

\* The count that update_status writes is that of its copy, plus one if asked.
CommitStatus(r) ==
  /\ stage[r] = "inserted" /\ Asks(r, {"update_status"})
  /\ run' = [status |-> op[r].to,
             retries |-> IF op[r].counted THEN copy[r].run.retries + 1 ELSE run.retries]
  /\ events' = events \cup {[seq |-> sequence[r], to |-> op[r].to, counted |-> op[r].counted]}
  /\ End(r, "ok")
  /\ UNCHANGED <<definitions, steps, artifacts>>

CommitEvent(r) ==
  /\ stage[r] = "inserted" /\ Asks(r, {"append_event"})
  /\ events' = events \cup {[seq |-> sequence[r], to |-> "none", counted |-> FALSE]}
  /\ End(r, "ok")
  /\ UNCHANGED <<definitions, run, steps, artifacts>>

CommitChild(r) ==
  /\ stage[r] = "written" /\ Asks(r, {"append_step", "append_artifact"})
  /\ steps' = IF Asks(r, {"append_step"}) THEN steps \cup {op[r].index} ELSE steps
  /\ artifacts' = IF Asks(r, {"append_step"}) THEN artifacts ELSE artifacts + 1
  /\ End(r, "ok")
  /\ UNCHANGED <<definitions, run, events>>

\* The rows the request has loaded are deleted by it, any newer ones by the
\* foreign keys' ON DELETE CASCADE.
CommitDelete(r) ==
  /\ stage[r] = "written" /\ Asks(r, {"delete_run"})
  /\ run' = Deleted
  /\ steps' = {} /\ events' = {} /\ artifacts' = 0
  /\ End(r, "ok")
  /\ UNCHANGED definitions

\* The request stops, or a statement or its COMMIT fails: its transaction is
\* rolled back.
Abort(r) ==
  /\ stage[r] \notin {"new", "done"}
  /\ End(r, "aborted")
  /\ UNCHANGED database

-----------------------------------------------------------------------------

\* One definition and the run may be there already.
Init ==
  /\ definitions \in {[d \in Definitions |-> Absent]}
       \cup {[d \in Definitions |-> IF d = first THEN [key |-> key, status |-> "active"] ELSE Absent] :
               first \in Definitions, key \in Keys}
  /\ \/ run = NoRun /\ events = {}
     \/ /\ run = [status |-> "requested", retries |-> 0]
        /\ events = {[seq |-> 0, to |-> "requested", counted |-> FALSE]}
  /\ steps = {} /\ artifacts = 0
  /\ op = [r \in Requests |-> NoOp]
  /\ stage = [r \in Requests |-> "new"]
  /\ copy = [r \in Requests |-> NoCopy]
  /\ sequence = [r \in Requests |-> 0]
  /\ answer = [r \in Requests |-> "none"]

Step(r) ==
  \/ \E o \in DefinitionOps \cup CreateRunOps \cup RunOps : Read(r, o) \/ Refuse(r, o)
  \/ FlushDefinition(r)
  \/ CommitDefinition(r)
  \/ CreateRun(r)
  \/ UpdateRun(r)
  \/ Number(r)
  \/ InsertEvent(r)
  \/ InsertChild(r)
  \/ FlushDelete(r)
  \/ CommitStatus(r)
  \/ CommitEvent(r)
  \/ CommitChild(r)
  \/ CommitDelete(r)
  \/ Abort(r)

Next == \E r \in Requests : Step(r)

Spec == Init /\ [][Next]_vars

-----------------------------------------------------------------------------

StatusEvents == {e \in events : e.to # "none"}

\* Although callers may number their events as they like, leave gaps and fill
\* them later: the run's status is that of the last numbered status event, and
\* its retry count lies between one and the number of the updates that counted.
\* A request that read the run before its deletion leaves no row behind,
\* whenever it commits: what it inserted is deleted too, or it fails.
RowAgreesWithLog ==
  /\ run \notin {NoRun, Deleted} =>
       /\ \E e \in StatusEvents : e.to = run.status /\ \A f \in StatusEvents : f.seq <= e.seq
       /\ LET counted == {e \in events : e.counted}
          IN  /\ run.retries <= Cardinality(counted)
              /\ counted # {} => run.retries > 0
  /\ run = Deleted => steps = {} /\ events = {} /\ artifacts = 0

Succeeds(r) == answer[r] = "none" /\ answer'[r] = "ok"

\* A run gets more steps than the limit allows only from a request that counted
\* them before another one's commit, and more events only from such a request or
\* from update_status, which does not count them.
ExcessHasACause(r) ==
  Succeeds(r) =>
    /\ steps' # steps /\ Cardinality(steps') > MaxSteps =>
         Asks(r, {"append_step"}) /\ steps # copy[r].steps
    /\ events' # events /\ Cardinality(events') > MaxEvents =>
         Asks(r, {"update_status"}) \/ (Asks(r, {"append_event"}) /\ events # copy[r].events)

Fails(r) == answer[r] = "none" /\ answer'[r] \in {"integrity", "stale"}

\* A caller who sends no null meets a constraint of the table only if the holder
\* has taken the key since it was looked for; an archived definition still holds
\* its key.
DefinitionErrorsHaveACause(r) ==
  Fails(r) /\ op[r] \in DefinitionOps /\ Null \notin {op[r].key, op[r].status} =>
    \E d \in Definitions \ {op[r].id} :
      definitions[d].key = WrittenRow(r).key /\ definitions[d] # copy[r].definitions[d]

\* The index of a step and the number of an event that the caller chooses are not
\* looked for, so they may be taken without any race.  Every other request fails
\* only because the run was deleted after it had read it, or because another one
\* has taken the number next_event_sequence gave it, which nobody had when it read
\* the run.
RunErrorsHaveACause(r) ==
  Fails(r) /\ op[r] \in RunOps =>
    \/ run = Deleted
    \/ Asks(r, {"append_step"}) /\ op[r].index \in steps
    \/ Asks(r, {"append_event"}) /\ op[r].seq \in SequencesOf(events)
    \/ /\ Asks(r, {"update_status", "append_event"})
       /\ sequence[r] \in SequencesOf(events) \ SequencesOf(copy[r].events)

\* What gets past the checks the services make before they write, and which errors
\* of the database nobody catches.
ExcessAndErrorsHaveACause ==
  [][ \A r \in Requests :
        ExcessHasACause(r) /\ DefinitionErrorsHaveACause(r) /\ RunErrorsHaveACause(r) ]_vars

\* Only an update that asks for another status brings an archived definition
\* back, never one that read it before and wrote other columns.
ArchivesAreUndoneOnPurpose ==
  [][ \A d \in Definitions :
        definitions[d].status = "archived" /\ definitions'[d].status # "archived" =>
          \E r \in Requests :
            Succeeds(r) /\ op[r].id = d /\ op[r].status \in {"active", "disabled"} ]_vars
=============================================================================
