-------------------------- MODULE AgentRecordsProofs --------------------------
(***************************************************************************)
(* What AgentRecords keeps, for any number of requests, definitions, keys  *)
(* and numbers.  RecordsInv is inductive.  Its parts say what a request    *)
(* may rely on once it has come as far as it has:                          *)
(*   - OpInv: which kinds of request reach which stage;                    *)
(*   - DefinitionsInv: what the locks on a definition's row and key leave  *)
(*     to the request that holds them;                                     *)
(*   - RunInv: what the lock on the run's row, the unique number of an     *)
(*     event and a waiting delete leave to theirs.                         *)
(* NumbersInv, on top of it, says what the number of an event was chosen   *)
(* from.                                                                   *)
(***************************************************************************)
EXTENDS AgentRecords, FiniteSetTheorems, WellFoundedInduction, TLAPS

-----------------------------------------------------------------------------
(* The parts of the inductive invariant. *)

DefinitionKinds == {"create_definition", "update_definition", "archive_definition"}
ChildKinds == {"append_step", "append_artifact"}
RowKinds == {"update_status", "delete_run"}

Ops == DefinitionOps \cup CreateRunOps \cup RunOps \cup {NoOp}

Active(r) == stage[r] \notin {"new", "done"}

OpInv ==
  \A r \in Requests :
    /\ stage[r] = "new" => op[r] = NoOp
    /\ stage[r] # "done" => answer[r] = "none"
    /\ Active(r) => op[r] # NoOp
    /\ stage[r] = "written" => Asks(r, DefinitionKinds \cup ChildKinds \cup RowKinds)
    /\ stage[r] \in {"numbered", "inserted"} => Asks(r, {"update_status", "append_event"})

SendsNull(r) == Null \in {op[r].key, op[r].status}

\* What a request may rely on that changes a definition.
DefinitionInv(r) ==
  Asks(r, DefinitionKinds) /\ Active(r) =>
    /\ Asks(r, {"create_definition"}) => definitions[op[r].id] = Absent
    /\ ~ Asks(r, {"create_definition"}) =>
         definitions[op[r].id] \in Rows /\ copy[r].definitions[op[r].id] \in Rows
    /\ op[r].key # Same => Holders(copy[r].definitions, op[r].key) \subseteq {op[r].id}
    /\ stage[r] = "written" =>
         ~ SendsNull(r) /\ Holders(definitions, WrittenRow(r).key) \subseteq {op[r].id}

Writes(r) == Asks(r, DefinitionKinds) /\ stage[r] = "written"

DefinitionsInv ==
  /\ \A d, e \in Definitions : definitions[d] # Absent /\ definitions[d].key = definitions[e].key => d = e
  /\ \A r \in Requests : DefinitionInv(r)
  /\ \A r, s \in Requests :
       /\ Asks(r, {"create_definition"}) /\ Asks(s, {"create_definition"}) /\ op[r].id = op[s].id => r = s
       /\ Writes(r) /\ Writes(s) /\ r # s =>
            op[r].id # op[s].id /\ WrittenRow(r).key # WrittenRow(s).key

\* The rows of the run: all of them have come with it.
Bounded(numbers) == \E n \in Nat : \A m \in numbers : m < n

Counted == {e \in events : e.counted}

RowsInv ==
  /\ run = NoRun => steps = {} /\ events = {} /\ artifacts = 0
  /\ RowAgreesWithLog
  /\ IsFiniteSet(steps) /\ IsFiniteSet(events)
  /\ Bounded(SequencesOf(events))

\* A request that has added a row to the run, but has not committed it.
Adds(s) == Holds(s, ChildKinds) \/ (Asks(s, {"append_event"}) /\ stage[s] = "inserted")

\* What a request may rely on that changes the run or adds to it.
RunRequestInv(r) ==
  Active(r) =>
    /\ Asks(r, {"create_run"}) => run = NoRun
    /\ op[r] \in RunOps => run # NoRun
    /\ Holds(r, {"update_status"}) \/ Adds(r) => run # Deleted
    /\ Asks(r, {"update_status"}) /\ run # Deleted => copy[r].run.retries <= Cardinality(Counted)
    /\ Asks(r, {"update_status"}) /\ stage[r] \in {"numbered", "inserted"} =>
         \A e \in StatusEvents : e.seq < sequence[r]
    /\ stage[r] = "inserted" => sequence[r] \notin SequencesOf(events)
    /\ Asks(r, {"append_step"}) => Cardinality(copy[r].steps) < MaxSteps
    /\ Asks(r, {"append_event"}) => Cardinality(copy[r].events) < MaxEvents

RunPairInv(r, s) ==
  /\ Asks(r, {"create_run"}) /\ Asks(s, {"create_run"}) => r = s
  /\ Holds(r, RowKinds) /\ Holds(s, RowKinds) => r = s
  /\ Holds(r, {"delete_run"}) => ~ Adds(s)
  /\ stage[r] = "inserted" /\ stage[s] = "inserted" /\ r # s => sequence[r] # sequence[s]

RunInv ==
  /\ RowsInv
  /\ \A r \in Requests : RunRequestInv(r)
  /\ \A r, s \in Requests : RunPairInv(r, s)

RecordsInv == TypeOK /\ OpInv /\ DefinitionsInv /\ RunInv

-----------------------------------------------------------------------------
(* Requests, rows and numbers. *)

\* A request is known by its kind.
LEMMA Kinds ==
  ASSUME NEW o \in Ops
  PROVE  /\ o.kind \in DefinitionKinds <=> o \in DefinitionOps
         /\ o.kind \in ChildKinds \cup RowKinds \cup {"append_event"} <=> o \in RunOps
         /\ o.kind = "create_run" <=> o \in CreateRunOps
         /\ o.kind = "none" <=> o = NoOp
<1>1. CASE o \in DefinitionOps
  BY <1>1 DEF DefinitionKinds, ChildKinds, RowKinds, DefinitionOps, CreateDefinitionOps,
     UpdateDefinitionOps, ArchiveDefinitionOps, CreateRunOps, RunOps, StatusOps, StepOps, EventOps, NoOp
<1>2. CASE o \in CreateRunOps
  BY <1>2 DEF DefinitionKinds, ChildKinds, RowKinds, DefinitionOps, CreateDefinitionOps,
     UpdateDefinitionOps, ArchiveDefinitionOps, CreateRunOps, RunOps, StatusOps, StepOps, EventOps, NoOp
<1>3. CASE o \in RunOps
  BY <1>3 DEF DefinitionKinds, ChildKinds, RowKinds, DefinitionOps, CreateDefinitionOps,
     UpdateDefinitionOps, ArchiveDefinitionOps, CreateRunOps, RunOps, StatusOps, StepOps, EventOps, NoOp
<1>4. CASE o = NoOp
  BY <1>4 DEF DefinitionKinds, ChildKinds, RowKinds, DefinitionOps, CreateDefinitionOps,
     UpdateDefinitionOps, ArchiveDefinitionOps, CreateRunOps, RunOps, StatusOps, StepOps, EventOps, NoOp
<1> QED BY <1>1, <1>2, <1>3, <1>4 DEF Ops

\* What a request for a definition carries.
LEMMA DefinitionFields ==
  ASSUME NEW o \in Ops, o.kind \in DefinitionKinds
  PROVE  /\ o.id \in Definitions
         /\ o.key \in Keys \cup {Same, Null}
         /\ o.kind = "create_definition" => o.key \in Keys
         /\ o.kind = "create_definition" => o.status = "active"
         /\ o.status \in DefinitionStatuses \cup {Same, Null}
         /\ o.kind = "archive_definition" => o.key = Same /\ o.status = "archived"
<1>1. o \in DefinitionOps
  BY Kinds
<1>2. CASE o \in CreateDefinitionOps
  BY <1>2 DEF CreateDefinitionOps, DefinitionStatuses
<1>3. CASE o \in UpdateDefinitionOps
  BY <1>3 DEF UpdateDefinitionOps
<1>4. CASE o \in ArchiveDefinitionOps
  BY <1>4 DEF ArchiveDefinitionOps, DefinitionStatuses
<1> QED BY <1>1, <1>2, <1>3, <1>4 DEF DefinitionOps

\* What a request for a row of the run carries.
LEMMA RunFields ==
  ASSUME NEW o \in Ops
  PROVE  /\ o.kind = "update_status" => o.to \in Lifecycle!RunStatuses /\ o.counted \in BOOLEAN
         /\ o.kind = "append_step" => o.index \in Nat
         /\ o.kind = "append_event" => o.seq \in Nat \cup {NoNumber}
<1>1. CASE o.kind = "update_status"
  <2>1. o \in StatusOps
    BY <1>1, Kinds DEF RunOps, RowKinds, StepOps, EventOps
  <2> QED BY <1>1, <2>1 DEF StatusOps
<1>2. CASE o.kind = "append_step"
  <2>1. o \in StepOps
    BY <1>2, Kinds DEF RunOps, ChildKinds, StatusOps, EventOps
  <2> QED BY <1>2, <2>1, NumbersAssumption DEF StepOps
<1>3. CASE o.kind = "append_event"
  <2>1. o \in EventOps
    BY <1>3, Kinds DEF RunOps, StepOps, StatusOps
  <2> QED BY <1>3, <2>1, NumbersAssumption DEF EventOps
<1>4. CASE o.kind \notin {"update_status", "append_step", "append_event"}
  BY <1>4
<1> QED BY <1>1, <1>2, <1>3, <1>4

\* The number after the last: a bounded set of numbers has one.
LEMMA NextSequenceFollows ==
  ASSUME NEW rows, SequencesOf(rows) \subseteq Nat, Bounded(SequencesOf(rows))
  PROVE  NextSequence(rows) \in Nat /\ \A s \in SequencesOf(rows) : s < NextSequence(rows)
<1> DEFINE Bounds == {n \in Nat : \A s \in SequencesOf(rows) : s < n}
<1>1. Bounds \subseteq Nat /\ Bounds # {}
  BY DEF Bounded
<1>2. PICK n \in Bounds : \A m \in Bounds : ~ <<m, n>> \in OpToRel(<, Nat)
  BY <1>1, NatLessThanWellFounded, WFMin
<1>3. \A m \in Bounds : ~ (m < n)
  BY <1>1, <1>2 DEF OpToRel
<1>0. n \in Nat /\ \A s \in SequencesOf(rows) : s < n
  BY <1>2
<1> HIDE DEF Bounds
<1>4. n \in {0} \cup {s + 1 : s \in SequencesOf(rows)}
  <2>1. CASE n = 0
    BY <2>1
  <2>2. CASE n # 0
    <3>1. n - 1 \in Nat /\ n - 1 < n
      BY <1>0, <2>2
    <3>5. n - 1 \notin Bounds
      BY <1>3, <3>1
    <3>2. PICK s \in SequencesOf(rows) : ~ (s < n - 1)
      BY <3>1, <3>5 DEF Bounds
    <3>3. s < n /\ s \in Nat
      BY <1>0
    <3>4. n = s + 1
      BY <1>0, <3>1, <3>2, <3>3
    <3> QED BY <3>4
  <2> QED BY <2>1, <2>2
<1>6. /\ NextSequence(rows) \in {0} \cup {s + 1 : s \in SequencesOf(rows)}
      /\ \A s \in SequencesOf(rows) : s < NextSequence(rows)
  BY <1>4, <1>0 DEF NextSequence
<1> QED BY <1>0, <1>6

\* Adding a number keeps a set of numbers bounded.
LEMMA BoundedGrows ==
  ASSUME NEW S, S \subseteq Nat, Bounded(S), NEW n \in Nat
  PROVE  Bounded(S \cup {n})
<1>1. PICK b \in Nat : \A m \in S : m < b
  BY DEF Bounded
<1>2. CASE b > n
  BY <1>1, <1>2 DEF Bounded
<1>3. CASE b <= n
  <2>1. n + 1 \in Nat /\ \A m \in S \cup {n} : m < n + 1
    BY <1>1, <1>3
  <2> QED BY <2>1 DEF Bounded
<1> QED BY <1>1, <1>2, <1>3

-----------------------------------------------------------------------------
(* Steps. *)

Unmoved(r) ==
  /\ op'[r] = op[r] /\ stage'[r] = stage[r] /\ copy'[r] = copy[r]
  /\ sequence'[r] = sequence[r] /\ answer'[r] = answer[r]

\* The end of a request.
LEMMA Ending ==
  ASSUME TypeOK, NEW q \in Requests, NEW how \in Answers, End(q, how)
  PROVE  /\ op' = op /\ stage'[q] = "done" /\ answer'[q] = how /\ sequence'[q] = 0
         /\ copy'[q] = NoCopy
         /\ \A r \in Requests \ {q} : Unmoved(r)
BY DEF TypeOK, End, Unmoved

\* A request that goes on.
LEMMA Going ==
  ASSUME TypeOK, NEW q \in Requests, NEW position, Goto(q, position), UNCHANGED copy
  PROVE  /\ op' = op /\ stage'[q] = position /\ answer' = answer
         /\ UNCHANGED sequence => \A r \in Requests \ {q} : Unmoved(r)
BY DEF TypeOK, Goto, Unmoved

\* A request that asks for something.
LEMMA Reading ==
  ASSUME TypeOK, NEW q \in Requests, NEW o, Read(q, o)
  PROVE  /\ op'[q] = o /\ stage'[q] = "checked" /\ copy'[q] = Snapshot(o)
         /\ sequence'[q] = sequence[q] /\ answer'[q] = answer[q]
         /\ \A r \in Requests \ {q} : Unmoved(r)
BY DEF TypeOK, Read, Unmoved

\* A request that numbers its event.
LEMMA Numbering ==
  ASSUME TypeOK, NEW q \in Requests, Number(q)
  PROVE  /\ op' = op /\ stage'[q] = "numbered" /\ copy' = copy /\ answer' = answer
         /\ sequence'[q] = IF Asks(q, {"append_event"}) /\ op[q].seq # NoNumber
                             THEN op[q].seq ELSE NextSequence(events)
         /\ \A r \in Requests \ {q} : Unmoved(r)
BY DEF TypeOK, Number, Goto, Unmoved

\* A copy is one of the rows there are.
LEMMA SnapshotType ==
  ASSUME TypeOK, NEW o
  PROVE  /\ Snapshot(o) \in Copies /\ NoCopy \in Copies
         /\ o \in DefinitionOps => Snapshot(o).definitions = definitions
         /\ o \notin DefinitionOps => Snapshot(o).run = run /\ Snapshot(o).steps = steps
                                      /\ Snapshot(o).events = events
<1>1. NoCopy \in Copies
  BY DEF NoCopy, Copies, RunRows
<1>2. CASE o \in DefinitionOps
  <2>1. Snapshot(o) = [NoCopy EXCEPT !.definitions = definitions]
    BY <1>2 DEF Snapshot
  <2>2. /\ Snapshot(o).definitions = definitions
        /\ Snapshot(o) \in Copies
    BY <1>1, <2>1 DEF TypeOK, Copies, NoCopy
  <2> QED BY <1>1, <1>2, <2>2
<1>3. CASE o \notin DefinitionOps
  <2>1. Snapshot(o) = [NoCopy EXCEPT !.run = run, !.steps = steps, !.events = events]
    BY <1>3 DEF Snapshot
  <2>2. steps \in SUBSET Nat /\ events \in SUBSET Events /\ run \in RunRows
    BY DEF TypeOK, StepRows
  <2>3. Snapshot(o) \in Copies
    BY <1>1, <2>1, <2>2 DEF Copies, NoCopy
  <2>4. Snapshot(o).run = run /\ Snapshot(o).steps = steps /\ Snapshot(o).events = events
    BY <2>1 DEF NoCopy
  <2> QED BY <1>1, <1>3, <2>3, <2>4
<1> QED BY <1>2, <1>3

\* What a request leaves of a definition.
LEMMA WrittenColumns ==
  ASSUME TypeOK, NEW r \in Requests, Asks(r, DefinitionKinds), Active(r), DefinitionInv(r),
         NEW row, row = WrittenRow(r)
  PROVE  /\ op[r].key \notin {Same, copy[r].definitions[op[r].id].key} => row.key = op[r].key
         /\ row.key = op[r].key \/ row.key = definitions[op[r].id].key
         /\ ~ SendsNull(r) => row \in Rows
         /\ SendsNull(r) => Null \in {row.key, row.status}
         /\ ~ SendsNull(r) /\ ~ Asks(r, {"create_definition"}) /\ definitions[op[r].id].status = "archived" =>
              row.status = "archived" \/ op[r].status \in {"active", "disabled"}
         /\ Asks(r, {"create_definition"}) => row.key = op[r].key
<1>1. /\ op[r] \in Ops /\ op[r].id \in Definitions /\ op[r].key \in Keys \cup {Same, Null}
      /\ op[r].status \in DefinitionStatuses \cup {Same, Null}
      /\ op[r].kind = "create_definition" => op[r].key \in Keys /\ op[r].status = "active"
  BY DefinitionFields DEF TypeOK, Ops, Asks
<1>2. CASE op[r].kind = "create_definition"
  <2>1. row = [key |-> op[r].key, status |-> "active"]
    BY <1>2 DEF WrittenRow
  <2> QED BY <1>1, <1>2, <2>1, NoValuesAssumption DEF Rows, DefinitionStatuses, Asks, SendsNull
<1>3. CASE op[r].kind # "create_definition"
  <2> DEFINE seen == copy[r].definitions[op[r].id]
             stored == definitions[op[r].id]
  <2>1. seen \in Rows /\ stored \in Rows
    BY <1>3 DEF DefinitionInv, Asks
  <2> HIDE DEF seen, stored
  <2>2. row = [key |-> IF op[r].key \in {Same, seen.key} THEN stored.key ELSE op[r].key,
               status |-> IF op[r].status \in {Same, seen.status} THEN stored.status ELSE op[r].status]
    BY <1>3 DEF WrittenRow, seen, stored
  <2>3. /\ row.key = IF op[r].key \in {Same, seen.key} THEN stored.key ELSE op[r].key
        /\ row.status = IF op[r].status \in {Same, seen.status} THEN stored.status ELSE op[r].status
    BY <2>2
  <2>4. ~ SendsNull(r) => row \in Rows
    BY <1>1, <2>1, <2>2, NoValuesAssumption DEF Rows, SendsNull
  <2>6. SendsNull(r) => Null \in {row.key, row.status}
    BY <2>1, <2>3, NoValuesAssumption DEF Rows, DefinitionStatuses, SendsNull
  <2>5. ~ SendsNull(r) /\ stored.status = "archived" =>
          row.status = "archived" \/ op[r].status \in {"active", "disabled"}
    BY <1>1, <2>3 DEF DefinitionStatuses, SendsNull
  <2> QED BY <1>3, <2>3, <2>4, <2>5, <2>6 DEF seen, stored, Asks
<1> QED BY <1>2, <1>3

-----------------------------------------------------------------------------
(* Types and stages. *)

\* The variables of the requests.
LocalTypeOK ==
  /\ op \in [Requests -> DefinitionOps \cup CreateRunOps \cup RunOps \cup {NoOp}]
  /\ stage \in [Requests -> {"new", "checked", "written", "numbered", "inserted", "done"}]
  /\ copy \in [Requests -> Copies]
  /\ sequence \in [Requests -> Nat]
  /\ answer \in [Requests -> Answers]

\* The parts of a step leave the variables of requests well typed.
LEMMA EndingType ==
  ASSUME TypeOK, NEW q \in Requests, NEW how \in Answers, End(q, how)
  PROVE  LocalTypeOK'
<1>1. NoCopy \in Copies
  BY SnapshotType
<1> QED BY <1>1 DEF TypeOK, End, LocalTypeOK

LEMMA GoingType ==
  ASSUME TypeOK, NEW q \in Requests, NEW position \in {"written", "numbered", "inserted"},
         Goto(q, position), UNCHANGED copy, sequence' \in [Requests -> Nat]
  PROVE  LocalTypeOK'
BY DEF TypeOK, Goto, LocalTypeOK

\* The numbers of the events are numbers, and the next one is free.
LEMMA SequencesType ==
  ASSUME TypeOK
  PROVE  /\ SequencesOf(events) \subseteq Nat
         /\ Bounded(SequencesOf(events)) =>
              NextSequence(events) \in Nat /\ \A e \in events : e.seq < NextSequence(events)
<1>1. SequencesOf(events) \subseteq Nat /\ \A e \in events : e.seq \in SequencesOf(events)
  BY DEF TypeOK, SequencesOf, Events
<1> QED BY <1>1, NextSequenceFollows

LEMMA LocalTypeKept ==
  ASSUME TypeOK, RowsInv, NEW q \in Requests, Step(q)
  PROVE  LocalTypeOK'
<1> USE DEF Answers
<1>1. ASSUME NEW o \in DefinitionOps \cup CreateRunOps \cup RunOps, Read(q, o) PROVE LocalTypeOK'
  <2>1. Snapshot(o) \in Copies
    BY SnapshotType
  <2> QED BY <1>1, <2>1 DEF TypeOK, Read, LocalTypeOK
<1>2. ASSUME NEW o, Refuse(q, o) PROVE LocalTypeOK'
  BY <1>2, EndingType DEF Refuse
<1>3. CASE FlushDefinition(q)
  BY <1>3, EndingType, GoingType DEF FlushDefinition, TypeOK
<1>4. CASE CommitDefinition(q)
  BY <1>4, EndingType DEF CommitDefinition
<1>5. CASE CreateRun(q)
  BY <1>5, EndingType DEF CreateRun
<1>6. CASE UpdateRun(q)
  BY <1>6, EndingType, GoingType DEF UpdateRun, TypeOK
<1>7. CASE Number(q)
  <2>1. NextSequence(events) \in Nat
    BY SequencesType DEF RowsInv
  <2>2. op[q] \in Ops
    BY DEF TypeOK, Ops
  <2>3. Asks(q, {"append_event"}) /\ op[q].seq # NoNumber => op[q].seq \in Nat
    BY <2>2, RunFields DEF Asks
  <2>4. sequence' \in [Requests -> Nat]
    BY <1>7, <2>1, <2>3 DEF Number, TypeOK
  <2> QED BY <1>7, <2>4, GoingType DEF Number
<1>8. CASE InsertEvent(q)
  BY <1>8, EndingType, GoingType DEF InsertEvent, TypeOK
<1>9. CASE InsertChild(q)
  BY <1>9, EndingType, GoingType DEF InsertChild, TypeOK
<1>10. CASE FlushDelete(q)
  BY <1>10, GoingType DEF FlushDelete, TypeOK
<1>11. CASE CommitStatus(q)
  BY <1>11, EndingType DEF CommitStatus
<1>12. CASE CommitEvent(q)
  BY <1>12, EndingType DEF CommitEvent
<1>13. CASE CommitChild(q)
  BY <1>13, EndingType DEF CommitChild
<1>14. CASE CommitDelete(q)
  BY <1>14, EndingType DEF CommitDelete
<1>15. CASE Abort(q)
  BY <1>15, EndingType DEF Abort
<1> QED BY <1>1, <1>2, <1>3, <1>4, <1>5, <1>6, <1>7, <1>8, <1>9, <1>10, <1>11, <1>12, <1>13, <1>14,
        <1>15 DEF Step

\* Each action does to the tables what its commit does, or nothing.
LEMMA DatabaseSteps ==
  ASSUME NEW q \in Requests, Step(q)
  PROVE  \/ UNCHANGED database
         \/ CommitDefinition(q) \/ CreateRun(q) \/ CommitStatus(q) \/ CommitEvent(q)
         \/ CommitChild(q) \/ CommitDelete(q)
BY DEF Step, Read, Refuse, FlushDefinition, UpdateRun, Number, InsertEvent, InsertChild, FlushDelete, Abort

\* A new event is typed, and has a number of its own.
LEMMA NewEvent ==
  ASSUME TypeOK, NEW e \in Events, e.seq \notin SequencesOf(events)
  PROVE  /\ events \cup {e} \subseteq Events
         /\ \A f, g \in events \cup {e} : f.seq = g.seq => f = g
BY DEF TypeOK, SequencesOf

LEMMA DatabaseTypeKept ==
  ASSUME TypeOK, OpInv, DefinitionsInv, RunInv, NEW q \in Requests, Step(q)
  PROVE  /\ definitions' \in [Definitions -> Rows \cup {Absent}]
         /\ run' \in RunRows /\ steps' \subseteq StepRows /\ artifacts' \in Nat
         /\ events' \subseteq Events /\ \A e, f \in events' : e.seq = f.seq => e = f
<1>0. /\ definitions \in [Definitions -> Rows \cup {Absent}]
      /\ run \in RunRows /\ steps \subseteq StepRows /\ artifacts \in Nat
      /\ events \subseteq Events /\ \A e, f \in events : e.seq = f.seq => e = f
      /\ op[q] \in Ops /\ sequence[q] \in Nat /\ copy[q] \in Copies
  BY DEF TypeOK, Ops
<1>k. /\ op[q].kind \in DefinitionKinds <=> op[q] \in DefinitionOps
      /\ op[q].kind = "update_status" => op[q].to \in Lifecycle!RunStatuses /\ op[q].counted \in BOOLEAN
      /\ op[q].kind = "append_step" => op[q].index \in Nat
  BY <1>0, Kinds, RunFields
<1>s. {"requested", "validating"} \subseteq Lifecycle!RunStatuses
  BY DEF Lifecycle!RunStatuses
<1>1. CASE UNCHANGED database
  BY <1>0, <1>1 DEF database
<1>2. CASE CommitDefinition(q)
  <2>1. Asks(q, DefinitionKinds) /\ Active(q) /\ stage[q] = "written"
    BY <1>2, <1>k DEF CommitDefinition, Asks, Active
  <2>2. DefinitionInv(q) /\ ~ SendsNull(q)
    BY <2>1 DEF DefinitionsInv, DefinitionInv
  <2>3. WrittenRow(q) \in Rows
    BY <2>1, <2>2, WrittenColumns
  <2> QED BY <1>0, <1>2, <2>3 DEF CommitDefinition
<1>3. CASE CreateRun(q)
  <2>1. run' \in RunRows
    BY <1>3, <1>s DEF CreateRun, RunRows
  <2>2. [seq |-> 0, to |-> "requested", counted |-> FALSE] \in Events
    BY <1>s DEF Events
  <2> QED BY <1>0, <1>3, <2>1, <2>2 DEF CreateRun
<1>4. CASE CommitStatus(q)
  <2>1. op[q].to \in Lifecycle!RunStatuses /\ op[q].counted \in BOOLEAN
    BY <1>4, <1>k DEF CommitStatus, Asks
  <2>2. sequence[q] \notin SequencesOf(events) /\ Holds(q, {"update_status"}) /\ Active(q)
    BY <1>4 DEF CommitStatus, RunInv, RunRequestInv, Active, Holds
  <2>3. run # Deleted /\ run # NoRun
    BY <1>0, <1>k, <2>2, Kinds DEF RunInv, RunRequestInv, Holds, Asks, RowKinds
  <2>4. run.retries \in Nat
    BY <1>0, <2>3 DEF RunRows
  <2>5. copy[q].run.retries \in Nat
    <3>1. copy[q].run \in RunRows
      BY <1>0 DEF Copies
    <3> QED BY <3>1 DEF RunRows, NoRun, Deleted
  <2>6. run' \in RunRows
    BY <1>4, <2>1, <2>4, <2>5 DEF CommitStatus, RunRows
  <2>7. [seq |-> sequence[q], to |-> op[q].to, counted |-> op[q].counted] \in Events
    BY <1>0, <2>1 DEF Events
  <2> QED BY <1>0, <1>4, <2>2, <2>6, <2>7, NewEvent DEF CommitStatus
<1>5. CASE CommitEvent(q)
  <2>1. sequence[q] \notin SequencesOf(events)
    BY <1>5 DEF CommitEvent, RunInv, RunRequestInv, Active
  <2>2. [seq |-> sequence[q], to |-> "none", counted |-> FALSE] \in Events
    BY <1>0 DEF Events
  <2> QED BY <1>0, <1>5, <2>1, <2>2, NewEvent DEF CommitEvent
<1>6. CASE CommitChild(q)
  <2>1. UNCHANGED <<definitions, run, events>>
    BY <1>6 DEF CommitChild
  <2>2. steps' \subseteq Nat /\ artifacts' \in Nat
    <3>1. CASE op[q].kind = "append_step"
      <4>1. steps' = steps \cup {op[q].index} /\ artifacts' = artifacts
        BY <1>6, <3>1 DEF CommitChild, Asks
      <4> QED BY <1>0, <1>k, <3>1, <4>1 DEF StepRows
    <3>2. CASE op[q].kind # "append_step"
      <4>1. steps' = steps /\ artifacts' = artifacts + 1
        BY <1>6, <3>2 DEF CommitChild, Asks
      <4> QED BY <1>0, <4>1 DEF StepRows
    <3> QED BY <3>1, <3>2
  <2> QED BY <1>0, <2>1, <2>2 DEF StepRows
<1>7. CASE CommitDelete(q)
  <2>1. run' = Deleted /\ steps' = {} /\ events' = {} /\ artifacts' = 0 /\ UNCHANGED definitions
    BY <1>7 DEF CommitDelete
  <2>2. Deleted \in RunRows
    BY DEF RunRows
  <2> QED BY <1>0, <2>1, <2>2
<1> QED BY <1>1, <1>2, <1>3, <1>4, <1>5, <1>6, <1>7, DatabaseSteps

\* Stages and kinds.
LEMMA OpInvKept ==
  ASSUME TypeOK, OpInv, NEW q \in Requests, Step(q)
  PROVE  OpInv'
<1> USE DEF Answers
<1> DEFINE Fits(r) ==
      /\ stage'[r] = "new" => op'[r] = NoOp
      /\ stage'[r] # "done" => answer'[r] = "none"
      /\ stage'[r] \notin {"new", "done"} => op'[r] # NoOp
      /\ stage'[r] = "written" => op'[r].kind \in DefinitionKinds \cup ChildKinds \cup RowKinds
      /\ stage'[r] \in {"numbered", "inserted"} => op'[r].kind \in {"update_status", "append_event"}
<1>s. SUFFICES \A r \in Requests : Fits(r)
  BY DEF OpInv, Active, Asks
<1>u. \A r \in Requests : Unmoved(r) => Fits(r)
  BY DEF OpInv, Active, Asks, Unmoved
<1> HIDE DEF Fits
<1>o. op[q] \in Ops /\ \A r \in Requests \ {q} : r \in Requests
  BY DEF TypeOK, Ops
<1>e. ASSUME NEW how \in Answers, End(q, how) PROVE \A r \in Requests : Fits(r)
  <2>1. Fits(q)
    BY <1>e, Ending DEF Fits
  <2> QED BY <1>e, <1>u, <2>1, Ending
<1>1. ASSUME NEW o \in DefinitionOps \cup CreateRunOps \cup RunOps, Read(q, o)
      PROVE  \A r \in Requests : Fits(r)
  <2>1. o # NoOp
    BY Kinds DEF Ops, DefinitionKinds, ChildKinds, RowKinds, NoOp
  <2>2. stage[q] = "new"
    BY <1>1 DEF Read
  <2>3. answer[q] = "none"
    BY <2>2 DEF OpInv
  <2>4. Fits(q)
    BY <1>1, <2>1, <2>3, Reading DEF Fits
  <2> QED BY <1>1, <1>u, <2>4, Reading
<1>2. ASSUME NEW o, Refuse(q, o) PROVE \A r \in Requests : Fits(r)
  BY <1>2, <1>e DEF Refuse
<1>g. ASSUME NEW position \in {"written", "inserted"}, Goto(q, position), UNCHANGED <<copy, sequence>>,
             stage[q] \notin {"new", "done"},
             position = "written" => op[q].kind \in DefinitionKinds \cup ChildKinds \cup RowKinds,
             position = "inserted" => op[q].kind \in {"update_status", "append_event"}
      PROVE  \A r \in Requests : Fits(r)
  <2>1. answer[q] = "none" /\ op[q] # NoOp
    BY <1>g DEF OpInv, Active
  <2>2. Fits(q)
    BY <1>g, <2>1, Going DEF Fits
  <2> QED BY <1>g, <1>u, <2>2, Going
<1>3. CASE FlushDefinition(q)
  <2>1. op[q].kind \in DefinitionKinds
    BY <1>3, <1>o, Kinds DEF FlushDefinition
  <2> QED BY <1>3, <1>e, <1>g, <2>1 DEF FlushDefinition
<1>4. CASE CommitDefinition(q)
  BY <1>4, <1>e DEF CommitDefinition
<1>5. CASE CreateRun(q)
  BY <1>5, <1>e DEF CreateRun
<1>6. CASE UpdateRun(q)
  BY <1>6, <1>e, <1>g DEF UpdateRun, Asks, RowKinds
<1>7. CASE Number(q)
  <2>1. op[q].kind \in {"update_status", "append_event"} /\ stage[q] \notin {"new", "done"}
    BY <1>7 DEF Number, Asks
  <2>2. answer[q] = "none" /\ op[q] # NoOp
    BY <2>1 DEF OpInv, Active
  <2>3. Fits(q)
    BY <1>7, <2>1, <2>2, Numbering DEF Fits
  <2> QED BY <1>7, <1>u, <2>3, Numbering
<1>8. CASE InsertEvent(q)
  <2>1. op[q].kind \in {"update_status", "append_event"}
    BY <1>8 DEF InsertEvent, OpInv, Asks
  <2> QED BY <1>8, <1>e, <1>g, <2>1 DEF InsertEvent
<1>9. CASE InsertChild(q)
  BY <1>9, <1>e, <1>g DEF InsertChild, Asks, ChildKinds
<1>10. CASE FlushDelete(q)
  BY <1>10, <1>g DEF FlushDelete, Asks, RowKinds
<1>11. CASE CommitStatus(q)
  BY <1>11, <1>e DEF CommitStatus
<1>12. CASE CommitEvent(q)
  BY <1>12, <1>e DEF CommitEvent
<1>13. CASE CommitChild(q)
  BY <1>13, <1>e DEF CommitChild
<1>14. CASE CommitDelete(q)
  BY <1>14, <1>e DEF CommitDelete
<1>15. CASE Abort(q)
  BY <1>15, <1>e DEF Abort
<1> QED BY <1>1, <1>2, <1>3, <1>4, <1>5, <1>6, <1>7, <1>8, <1>9, <1>10, <1>11, <1>12, <1>13, <1>14,
        <1>15 DEF Step

-----------------------------------------------------------------------------
(* Definitions. *)

\* What a request relies on, as long as its own variables and the definitions
\* stay.
LEMMA DefinitionRequestFrame ==
  ASSUME NEW r \in Requests, DefinitionInv(r), Unmoved(r), definitions' = definitions
  PROVE  DefinitionInv(r)' /\ (Writes(r)' <=> Writes(r)) /\ WrittenRow(r)' = WrittenRow(r)
<1>1. op'[r] = op[r] /\ stage'[r] = stage[r] /\ copy'[r] = copy[r]
  BY DEF Unmoved
<1>2. WrittenRow(r)' = WrittenRow(r)
  BY <1>1 DEF WrittenRow
<1>3. Writes(r)' <=> Writes(r)
  BY <1>1 DEF Writes, Asks
<1>4. Holders(definitions, WrittenRow(r).key)' = Holders(definitions, WrittenRow(r).key)
      /\ Holders(copy[r].definitions, op[r].key)' = Holders(copy[r].definitions, op[r].key)
  BY <1>1, <1>2 DEF Holders
<1> QED BY <1>1, <1>2, <1>3, <1>4 DEF DefinitionInv, Asks, Active, SendsNull

\* A step that writes no definition, of a request that comes no further with
\* one, keeps what the others rely on.
LEMMA DefinitionsFrame ==
  ASSUME DefinitionsInv, definitions' = definitions, NEW q \in Requests,
         \A r \in Requests \ {q} : Unmoved(r), op'[q] = op[q],
         stage'[q] = "done" \/ ~ Asks(q, DefinitionKinds)
  PROVE  DefinitionsInv'
<1>1. \A r \in Requests \ {q} : DefinitionInv(r)' /\ (Writes(r)' <=> Writes(r)) /\ WrittenRow(r)' = WrittenRow(r)
  BY DefinitionRequestFrame DEF DefinitionsInv
<1>2. DefinitionInv(q)' /\ ~ Writes(q)'
  BY DEF DefinitionInv, Writes, Asks, Active
<1>3. \A r \in Requests : op'[r] = op[r]
  BY DEF Unmoved
<1> QED BY <1>1, <1>2, <1>3 DEF DefinitionsInv, Asks

\* A request that has just read its definition.
LEMMA DefinitionRead ==
  ASSUME TypeOK, OpInv, DefinitionsInv, NEW q \in Requests,
         NEW o \in DefinitionOps \cup CreateRunOps \cup RunOps, Read(q, o)
  PROVE  DefinitionsInv'
<1>1. /\ definitions' = definitions /\ op'[q] = o /\ stage'[q] = "checked" /\ copy'[q] = Snapshot(o)
      /\ \A r \in Requests \ {q} : Unmoved(r)
  BY Reading DEF Read, database
<1>2. o \in Ops /\ (o.kind \in DefinitionKinds <=> o \in DefinitionOps)
  BY Kinds DEF Ops
<1>3. \A r \in Requests \ {q} : DefinitionInv(r)' /\ (Writes(r)' <=> Writes(r)) /\ WrittenRow(r)' = WrittenRow(r)
  BY <1>1, DefinitionRequestFrame DEF DefinitionsInv
<1>4. ~ Writes(q)'
  BY <1>1 DEF Writes
<1>5. DefinitionInv(q)'
  <2> SUFFICES ASSUME o.kind \in DefinitionKinds PROVE DefinitionInv(q)'
    BY <1>1 DEF DefinitionInv, Asks
  <2>1. Snapshot(o).definitions = definitions
    BY <1>2, SnapshotType
  <2>2. /\ o.id \in Definitions /\ (o.kind = "create_definition" => o.key \in Keys)
        /\ o.kind = "archive_definition" => o.key = Same
    BY <1>2, DefinitionFields
  <2>3. Possible(o) /\ Accepted(o)
    BY DEF Read
  <2>4. o.kind = "create_definition" => definitions[o.id] = Absent
    BY <2>3 DEF Possible
  <2>5. o.key # Same => KeyFree(o)
    BY <2>2, <2>3 DEF Accepted, DefinitionKinds
  <2>6. o.kind # "create_definition" => definitions[o.id] # Absent
    BY <2>2, <2>3 DEF Accepted, DefinitionKinds, Absent
  <2>7. definitions[o.id] \in Rows \cup {Absent}
    BY <2>2 DEF TypeOK
  <2> QED BY <1>1, <2>1, <2>4, <2>5, <2>6, <2>7 DEF DefinitionInv, Asks, Active, KeyFree
<1>6. \A r, s \in Requests :
        Asks(r, {"create_definition"})' /\ Asks(s, {"create_definition"})' /\ op'[r].id = op'[s].id => r = s
  <2>1. \A s \in Requests \ {q} : op'[s] = op[s]
    BY <1>1 DEF Unmoved
  <2>2. o.kind = "create_definition" => \A s \in Requests : Asks(s, {"create_definition"}) => op[s].id # o.id
    BY DEF Read, Possible
  <2> QED BY <1>1, <2>1, <2>2 DEF DefinitionsInv, Asks
<1> QED BY <1>1, <1>3, <1>4, <1>5, <1>6 DEF DefinitionsInv, Unmoved

\* A request that gets the locks of its row and its key.
LEMMA DefinitionFlushed ==
  ASSUME TypeOK, OpInv, DefinitionsInv, NEW q \in Requests, FlushDefinition(q), ~ RowRefused(q)
  PROVE  DefinitionsInv'
<1>1. /\ definitions' = definitions /\ op' = op /\ copy' = copy /\ stage'[q] = "written"
      /\ stage[q] = "checked" /\ op[q] \in DefinitionOps /\ ~ DefinitionLocked(q)
      /\ \A r \in Requests \ {q} : Unmoved(r)
  BY Going DEF FlushDefinition, database
<1>2. \A r \in Requests : op[r].kind \in DefinitionKinds <=> op[r] \in DefinitionOps
  BY Kinds DEF TypeOK, Ops
<1>3. \A r \in Requests \ {q} : DefinitionInv(r)' /\ (Writes(r)' <=> Writes(r))
  BY <1>1, DefinitionRequestFrame DEF DefinitionsInv
<1>4. \A r \in Requests : WrittenRow(r)' = WrittenRow(r)
  BY <1>1 DEF WrittenRow
<1>5. Asks(q, DefinitionKinds) /\ Active(q) /\ DefinitionInv(q)
  BY <1>1, <1>2 DEF Asks, Active, DefinitionsInv
<1>6. ~ SendsNull(q)
  BY <1>5, WrittenColumns DEF RowRefused
<1>7. Holders(definitions, WrittenRow(q).key) \subseteq {op[q].id}
  BY DEF RowRefused
<1>8. DefinitionInv(q)'
  BY <1>1, <1>4, <1>5, <1>6, <1>7 DEF DefinitionInv, Asks, Active, Holders, SendsNull
<1>9. \A s \in Requests \ {q} : Writes(s) => op[q].id # op[s].id /\ WrittenRow(q).key # WrittenRow(s).key
  BY <1>1, <1>2 DEF DefinitionLocked, Writes, Asks
<1> QED BY <1>1, <1>3, <1>4, <1>8, <1>9 DEF DefinitionsInv, Asks

\* A request that commits its row.
LEMMA DefinitionCommitted ==
  ASSUME TypeOK, OpInv, DefinitionsInv, NEW q \in Requests, CommitDefinition(q)
  PROVE  DefinitionsInv'
<1> DEFINE id == op[q].id
           row == WrittenRow(q)
<1>1. /\ definitions' = [definitions EXCEPT ![id] = row] /\ op' = op
      /\ stage'[q] = "done" /\ \A r \in Requests \ {q} : Unmoved(r)
  BY Ending DEF CommitDefinition, Answers
<1>2. Asks(q, DefinitionKinds) /\ Active(q) /\ Writes(q) /\ DefinitionInv(q) /\ id \in Definitions
  <2>1. op[q].kind \in DefinitionKinds
    BY Kinds DEF TypeOK, Ops, CommitDefinition
  <2> QED BY <2>1, DefinitionFields DEF TypeOK, Ops, CommitDefinition, Asks, Active, Writes, DefinitionsInv
<1>3. row \in Rows /\ Holders(definitions, row.key) \subseteq {id}
  <2>1. ~ SendsNull(q)
    BY <1>2 DEF DefinitionInv, Writes
  <2> QED BY <1>2, <2>1, WrittenColumns DEF DefinitionInv, Writes
<1>4. \A d \in Definitions : definitions'[d] = IF d = id THEN row ELSE definitions[d]
  BY <1>1, <1>2 DEF TypeOK
<1> HIDE DEF id, row
<1>5. Absent \notin Rows
  BY DEF Absent, Rows, DefinitionStatuses
<1>6. \A d, e \in Definitions :
        definitions'[d] # Absent /\ definitions'[d].key = definitions'[e].key => d = e
  <2>1. \A d \in Definitions : definitions[d].key = row.key => d = id
    <3> SUFFICES ASSUME NEW d \in Definitions, definitions[d].key = row.key PROVE d = id
      OBVIOUS
    <3>1. definitions[d] # Absent
      BY <1>3, NoValuesAssumption DEF Rows, Absent
    <3> QED BY <1>3, <3>1 DEF Holders
  <2> QED BY <1>4, <2>1 DEF DefinitionsInv
<1>7. ASSUME NEW r \in Requests \ {q}, Writes(r)
      PROVE  /\ op[r].id # id /\ WrittenRow(r).key # row.key /\ op[r].id \in Definitions
             /\ WrittenRow(r)' = WrittenRow(r)
             /\ Holders(definitions, WrittenRow(r).key)' \subseteq {op[r].id}
  <2>1. op[r].id # id /\ WrittenRow(r).key # row.key
    BY <1>2, <1>7 DEF DefinitionsInv, id, row
  <2>2. op[r].id \in Definitions /\ DefinitionInv(r) /\ Active(r) /\ Asks(r, DefinitionKinds)
    BY <1>7, DefinitionFields DEF TypeOK, Ops, Writes, Asks, Active, DefinitionsInv
  <2>3. WrittenRow(r)' = WrittenRow(r)
    BY <1>1, <1>4, <2>1, <2>2 DEF WrittenRow, Unmoved
  <2>4. Holders(definitions, WrittenRow(r).key) \subseteq {op[r].id}
    BY <1>7, <2>2 DEF DefinitionInv, Writes
  <2>5. Holders(definitions, WrittenRow(r).key)' \subseteq {op[r].id}
    BY <1>4, <2>1, <2>3, <2>4 DEF Holders
  <2> QED BY <2>1, <2>2, <2>3, <2>5
<1>8. ASSUME NEW r \in Requests \ {q} PROVE DefinitionInv(r)'
  <2> SUFFICES ASSUME Asks(r, DefinitionKinds), Active(r) PROVE DefinitionInv(r)'
    BY <1>1 DEF DefinitionInv, Asks, Active, Unmoved
  <2>1. DefinitionInv(r) /\ op[r].id \in Definitions
    BY DefinitionFields DEF DefinitionsInv, TypeOK, Ops, Asks
  <2>2. Asks(r, {"create_definition"}) => op[r].id # id
    <3> SUFFICES ASSUME Asks(r, {"create_definition"}), op[r].id = id PROVE FALSE
      OBVIOUS
    <3>1. ~ Asks(q, {"create_definition"})
      BY DEF DefinitionsInv, id
    <3>2. definitions[id] \in Rows /\ definitions[id] = Absent
      BY <1>2, <2>1, <3>1 DEF DefinitionInv, id
    <3> QED BY <1>5, <3>2
  <2>3. /\ Asks(r, {"create_definition"}) => definitions'[op[r].id] = Absent
        /\ ~ Asks(r, {"create_definition"}) =>
             definitions'[op[r].id] \in Rows /\ copy[r].definitions[op[r].id] \in Rows
    BY <1>3, <1>4, <2>1, <2>2 DEF DefinitionInv
  <2>4. op'[r] = op[r] /\ stage'[r] = stage[r] /\ copy'[r] = copy[r]
    BY <1>1 DEF Unmoved
  <2>5. stage[r] = "written" =>
          ~ SendsNull(r) /\ Holders(definitions, WrittenRow(r).key)' \subseteq {op[r].id}
    BY <1>7, <2>1 DEF DefinitionInv, Writes
  <2>6. op[r].key # Same => Holders(copy[r].definitions, op[r].key) \subseteq {op[r].id}
    BY <2>1 DEF DefinitionInv
  <2> QED BY <2>3, <2>4, <2>5, <2>6 DEF DefinitionInv, Asks, Holders, SendsNull
<1>9. DefinitionInv(q)' /\ ~ Writes(q)'
  BY <1>1 DEF DefinitionInv, Writes, Active
<1>10. \A r, s \in Requests : Writes(r)' /\ Writes(s)' /\ r # s =>
         op'[r].id # op'[s].id /\ WrittenRow(r).key' # WrittenRow(s).key'
  <2>1. \A r \in Requests \ {q} : Writes(r)' <=> Writes(r)
    BY <1>1 DEF Writes, Asks, Unmoved
  <2> QED BY <1>1, <1>7, <1>9, <2>1 DEF DefinitionsInv
<1> QED BY <1>1, <1>6, <1>8, <1>9, <1>10 DEF DefinitionsInv, Asks

LEMMA DefinitionsKept ==
  ASSUME TypeOK, OpInv, DefinitionsInv, NEW q \in Requests, Step(q)
  PROVE  DefinitionsInv'
<1> USE DEF Answers
<1>k. \A o \in Ops : o.kind \in DefinitionKinds <=> o \in DefinitionOps
  BY Kinds
<1>o. op[q] \in Ops
  BY DEF TypeOK, Ops
<1>e. ASSUME NEW how \in Answers, End(q, how), UNCHANGED definitions PROVE DefinitionsInv'
  BY <1>e, Ending, DefinitionsFrame
<1>g. ASSUME NEW position, Goto(q, position), UNCHANGED <<copy, sequence>>, UNCHANGED definitions,
             op[q].kind \notin DefinitionKinds
      PROVE  DefinitionsInv'
  BY <1>g, Going, DefinitionsFrame DEF Asks
<1>1. ASSUME NEW o \in DefinitionOps \cup CreateRunOps \cup RunOps, Read(q, o) PROVE DefinitionsInv'
  BY <1>1, DefinitionRead
<1>2. ASSUME NEW o, Refuse(q, o) PROVE DefinitionsInv'
  BY <1>2, <1>e DEF Refuse, database
<1>3. CASE FlushDefinition(q)
  BY <1>3, <1>e, DefinitionFlushed DEF FlushDefinition, database
<1>4. CASE CommitDefinition(q)
  BY <1>4, DefinitionCommitted
<1>5. CASE CreateRun(q)
  BY <1>5, <1>e DEF CreateRun
<1>6. CASE UpdateRun(q)
  BY <1>6, <1>e, <1>g DEF UpdateRun, database, Asks, DefinitionKinds
<1>7. CASE Number(q)
  BY <1>7, Numbering, DefinitionsFrame DEF Number, database, Asks, DefinitionKinds
<1>8. CASE InsertEvent(q)
  <2>1. op[q].kind \notin DefinitionKinds
    BY <1>8 DEF InsertEvent, OpInv, Asks, DefinitionKinds
  <2> QED BY <1>8, <1>e, <1>g, <2>1 DEF InsertEvent, database
<1>9. CASE InsertChild(q)
  BY <1>9, <1>e, <1>g DEF InsertChild, database, Asks, DefinitionKinds
<1>10. CASE FlushDelete(q)
  BY <1>10, <1>g DEF FlushDelete, database, Asks, DefinitionKinds
<1>11. CASE CommitStatus(q)
  BY <1>11, <1>e DEF CommitStatus
<1>12. CASE CommitEvent(q)
  BY <1>12, <1>e DEF CommitEvent
<1>13. CASE CommitChild(q)
  BY <1>13, <1>e DEF CommitChild
<1>14. CASE CommitDelete(q)
  BY <1>14, <1>e DEF CommitDelete
<1>15. CASE Abort(q)
  BY <1>15, <1>e DEF Abort, database
<1> QED BY <1>1, <1>2, <1>3, <1>4, <1>5, <1>6, <1>7, <1>8, <1>9, <1>10, <1>11, <1>12, <1>13, <1>14,
        <1>15 DEF Step

-----------------------------------------------------------------------------
(* The run and its rows. *)

\* Kinds of requests for the run.
LEMMA RunKinds ==
  ASSUME TypeOK
  PROVE  \A r \in Requests :
           /\ op[r].kind \in ChildKinds \cup RowKinds \cup {"append_event"} <=> op[r] \in RunOps
           /\ op[r].kind \in DefinitionKinds <=> op[r] \in DefinitionOps
           /\ op[r] # NoOp =>
                op[r].kind \in DefinitionKinds \cup ChildKinds \cup RowKinds \cup {"append_event", "create_run"}
<1> SUFFICES ASSUME NEW r \in Requests
             PROVE  /\ op[r].kind \in ChildKinds \cup RowKinds \cup {"append_event"} <=> op[r] \in RunOps
                    /\ op[r].kind \in DefinitionKinds <=> op[r] \in DefinitionOps
                    /\ op[r] # NoOp =>
                         op[r].kind \in DefinitionKinds \cup ChildKinds \cup RowKinds
                                          \cup {"append_event", "create_run"}
  OBVIOUS
<1>1. op[r] \in Ops
  BY DEF TypeOK, Ops
<1>2. op[r] \in DefinitionOps \/ op[r] \in CreateRunOps \/ op[r] \in RunOps \/ op[r] = NoOp
  BY <1>1 DEF Ops
<1> QED BY <1>1, <1>2, Kinds

LEMMA RowsFrame ==
  ASSUME RowsInv, UNCHANGED <<run, steps, events, artifacts>>
  PROVE  RowsInv'
BY DEF RowsInv, RowAgreesWithLog, StatusEvents, SequencesOf

\* What a request relies on, as long as its own variables and the rows stay.
LEMMA RunRequestFrame ==
  ASSUME NEW r \in Requests, RunRequestInv(r), Unmoved(r), run' = run, events' = events
  PROVE  RunRequestInv(r)'
BY DEF RunRequestInv, Unmoved, Active, Asks, Holds, Adds, Counted, StatusEvents, SequencesOf

LEMMA RunPairFrame ==
  ASSUME NEW r \in Requests, NEW s \in Requests, RunPairInv(r, s), Unmoved(r), Unmoved(s)
  PROVE  RunPairInv(r, s)'
BY DEF RunPairInv, Unmoved, Asks, Holds, Adds

\* A step of one request: what is left to show is about that request.
LEMMA RunStep ==
  ASSUME RunInv, NEW q \in Requests, \A r \in Requests \ {q} : Unmoved(r), RowsInv',
         \A r \in Requests \ {q} : RunRequestInv(r)', RunRequestInv(q)',
         \A s \in Requests : RunPairInv(q, s)' /\ RunPairInv(s, q)'
  PROVE  RunInv'
<1>1. \A r, s \in Requests : RunPairInv(r, s)'
  <2> SUFFICES ASSUME NEW r \in Requests, NEW s \in Requests, r # q, s # q PROVE RunPairInv(r, s)'
    OBVIOUS
  <2>1. RunPairInv(r, s) /\ Unmoved(r) /\ Unmoved(s)
    BY DEF RunInv
  <2> QED BY <2>1, RunPairFrame
<1>2. \A r \in Requests : RunRequestInv(r)'
  OBVIOUS
<1> QED BY <1>1, <1>2 DEF RunInv

\* A request that is done, or is for a definition, asks nothing of the run.
LEMMA Uninvolved ==
  ASSUME TypeOK, OpInv, NEW q \in Requests, op'[q] = op[q], \A r \in Requests \ {q} : Unmoved(r),
         \/ stage'[q] = "done"
         \/ stage'[q] \in {"checked", "written"} /\ op[q] \in DefinitionOps,
         RunInv
  PROVE  RunRequestInv(q)' /\ \A s \in Requests : RunPairInv(q, s)' /\ RunPairInv(s, q)'
<1>1. op[q] \in DefinitionOps =>
        op[q].kind \notin {"create_run", "append_event", "update_status", "append_step", "append_artifact", "delete_run"}
  BY RunKinds DEF DefinitionKinds
<1>2. op[q] \in DefinitionOps => op[q] \notin RunOps
  BY RunKinds DEF DefinitionKinds, ChildKinds, RowKinds
<1>3. RunRequestInv(q)'
  BY <1>1, <1>2 DEF RunRequestInv, Active, Asks, Holds, Adds, ChildKinds
<1>4. ~ Holds(q, RowKinds)' /\ ~ Holds(q, {"delete_run"})' /\ ~ Adds(q)' /\ stage'[q] # "inserted"
  BY <1>1 DEF Holds, Asks, Adds, RowKinds, ChildKinds
<1>5. \A s \in Requests :
        (Asks(q, {"create_run"})' /\ Asks(s, {"create_run"})' => q = s)
  <2>1. \A s \in Requests : op'[s] = op[s]
    BY DEF Unmoved
  <2> QED BY <2>1 DEF RunInv, RunPairInv, Asks
<1> QED BY <1>3, <1>4, <1>5 DEF RunPairInv

\* A step that changes no row of the run, of a request that is done or is for
\* a definition.
LEMMA RunFrame ==
  ASSUME TypeOK, OpInv, RunInv, NEW q \in Requests, UNCHANGED <<run, steps, events, artifacts>>,
         op'[q] = op[q], \A r \in Requests \ {q} : Unmoved(r),
         \/ stage'[q] = "done"
         \/ stage'[q] \in {"checked", "written"} /\ op[q] \in DefinitionOps
  PROVE  RunInv'
<1>1. RowsInv' /\ \A r \in Requests \ {q} : RunRequestInv(r)'
  BY RowsFrame, RunRequestFrame DEF RunInv
<1> QED BY <1>1, Uninvolved, RunStep

\* A request that has just read the run.
LEMMA RunRead ==
  ASSUME TypeOK, OpInv, RunInv, NEW q \in Requests,
         NEW o \in DefinitionOps \cup CreateRunOps \cup RunOps, Read(q, o)
  PROVE  RunInv'
<1>1. /\ UNCHANGED <<run, steps, events, artifacts>> /\ op'[q] = o /\ stage'[q] = "checked"
      /\ copy'[q] = Snapshot(o) /\ \A r \in Requests \ {q} : Unmoved(r)
      /\ Possible(o) /\ Accepted(o)
  BY Reading DEF Read, database
<1>2. RowsInv' /\ \A r \in Requests \ {q} : RunRequestInv(r)'
  BY <1>1, RowsFrame, RunRequestFrame DEF RunInv
<1>k. /\ o \in Ops /\ (o.kind \in DefinitionKinds <=> o \in DefinitionOps)
      /\ o.kind \in ChildKinds \cup RowKinds \cup {"append_event"} <=> o \in RunOps
  BY Kinds DEF Ops
<1>3. RunRequestInv(q)'
  <2>1. o.kind = "create_run" => run = NoRun
    BY <1>1 DEF Possible
  <2>2. o \in RunOps => run \notin {NoRun, Deleted} /\ WithinLimits(o)
    BY <1>1, <1>k DEF Accepted, ChildKinds, RowKinds
  <2>3. o \in RunOps =>
          Snapshot(o).run = run /\ Snapshot(o).steps = steps /\ Snapshot(o).events = events
    BY <1>k, SnapshotType DEF DefinitionKinds, ChildKinds, RowKinds
  <2>4. run \notin {NoRun, Deleted} => run.retries <= Cardinality(Counted)
    BY DEF RunInv, RowsInv, RowAgreesWithLog, Counted
  <2>5. Counted' = Counted
    BY <1>1 DEF Counted
  <2> QED BY <1>1, <1>k, <2>1, <2>2, <2>3, <2>4, <2>5
          DEF RunRequestInv, Active, Asks, Holds, Adds, WithinLimits, ChildKinds, RowKinds
<1>4. \A s \in Requests : RunPairInv(q, s)' /\ RunPairInv(s, q)'
  <2>1. ~ Holds(q, RowKinds)' /\ ~ Holds(q, {"delete_run"})' /\ ~ Adds(q)' /\ stage'[q] # "inserted"
    BY <1>1 DEF Holds, Adds
  <2>2. \A s \in Requests : Asks(q, {"create_run"})' /\ Asks(s, {"create_run"})' => q = s
    <3>1. o.kind = "create_run" => \A s \in Requests : ~ Asks(s, {"create_run"})
      BY <1>1 DEF Possible
    <3> QED BY <1>1, <3>1 DEF Asks, Unmoved
  <2> QED BY <2>1, <2>2 DEF RunPairInv
<1> QED BY <1>1, <1>2, <1>3, <1>4, RunStep

\* A request that goes on while the rows stay as they are.
LEMMA RunGoing ==
  ASSUME TypeOK, OpInv, RunInv, NEW q \in Requests, UNCHANGED <<run, steps, events, artifacts>>,
         op' = op, copy' = copy, \A r \in Requests \ {q} : Unmoved(r),
         Active(q), op[q] \in RunOps, stage'[q] \in {"written", "numbered", "inserted"},
         Holds(q, {"update_status"})' \/ Adds(q)' => run # Deleted,
         Asks(q, {"update_status"}) /\ stage'[q] \in {"numbered", "inserted"} =>
           \A e \in StatusEvents : e.seq < sequence'[q],
         stage'[q] = "inserted" =>
           /\ sequence'[q] \notin SequencesOf(events)
           /\ \A s \in Requests \ {q} : stage[s] = "inserted" => sequence[s] # sequence'[q],
         Holds(q, RowKinds)' => \A s \in Requests \ {q} : ~ Holds(s, RowKinds),
         Holds(q, {"delete_run"})' => \A s \in Requests \ {q} : ~ Adds(s),
         Adds(q)' => \A s \in Requests \ {q} : ~ Holds(s, {"delete_run"})
  PROVE  RunInv'
<1>1. RowsInv' /\ \A r \in Requests \ {q} : RunRequestInv(r)'
  BY RowsFrame, RunRequestFrame DEF RunInv
<1>2. RunRequestInv(q)'
  <2>1. StatusEvents' = StatusEvents /\ Counted' = Counted /\ SequencesOf(events)' = SequencesOf(events)
    BY DEF StatusEvents, Counted, SequencesOf
  <2>2. RunRequestInv(q)
    BY DEF RunInv
  <2>3. op[q].kind # "create_run"
    BY RunKinds DEF ChildKinds, RowKinds
  <2> QED BY <2>1, <2>2, <2>3 DEF RunRequestInv, Active, Asks
<1>3. ASSUME NEW s \in Requests PROVE RunPairInv(q, s)' /\ RunPairInv(s, q)'
  <2>1. op[q].kind # "create_run"
    BY RunKinds DEF ChildKinds, RowKinds
  <2>2. CASE s = q
    BY <2>1, <2>2 DEF RunPairInv, Holds, Asks, Adds, ChildKinds
  <2>3. CASE s # q
    <3>1. Unmoved(s)
      BY <2>3
    <3>2. /\ Holds(s, RowKinds)' <=> Holds(s, RowKinds)
          /\ Holds(s, {"delete_run"})' <=> Holds(s, {"delete_run"})
          /\ Adds(s)' <=> Adds(s)
      BY <3>1 DEF Holds, Asks, Adds, Unmoved
    <3> QED BY <2>1, <2>3, <3>1, <3>2 DEF RunPairInv, Asks, Unmoved
  <2> QED BY <2>2, <2>3
<1> QED BY <1>1, <1>2, <1>3, RunStep

\* The events that count are finitely many, as all events are.
LEMMA CountedFinite ==
  ASSUME RowsInv
  PROVE  IsFiniteSet(Counted) /\ Cardinality(Counted) \in Nat
<1>1. IsFiniteSet(events) /\ Counted \subseteq events
  BY DEF RowsInv, Counted
<1>2. IsFiniteSet(Counted)
  BY <1>1, FS_Subset
<1> QED BY <1>2, FS_CardinalityType

\* The statuses of a run are none of the words for a run or an event without one.
LEMMA StatusWords ==
  ASSUME NEW to \in Lifecycle!RunStatuses, NEW n
  PROVE  to # "none" /\ [status |-> to, retries |-> n] \notin {NoRun, Deleted}
<1>1. to \notin {"none", "absent", "deleted"}
  BY DEF Lifecycle!RunStatuses
<1> QED BY <1>1 DEF NoRun, Deleted

\* The run is created, with its first event.
LEMMA RunCreated ==
  ASSUME TypeOK, OpInv, RunInv, NEW q \in Requests, CreateRun(q)
  PROVE  RunInv'
<1> DEFINE first == [seq |-> 0, to |-> "requested", counted |-> FALSE]
<1>1. /\ op' = op /\ stage'[q] = "done" /\ \A r \in Requests \ {q} : Unmoved(r)
      /\ run' = [status |-> "requested", retries |-> 0] /\ events' = {first}
      /\ steps' = steps /\ artifacts' = artifacts
  BY Ending DEF CreateRun, Answers
<1>2. run = NoRun
  BY DEF CreateRun, RunInv, RunRequestInv, Active
<1>3. run' \notin {NoRun, Deleted} /\ run'.status = "requested" /\ run'.retries = 0
  BY <1>1 DEF NoRun, Deleted
<1>4. RowsInv'
  <2>1. StatusEvents' = {first} /\ Counted' = {} /\ SequencesOf(events)' = {0}
    BY <1>1 DEF StatusEvents, Counted, SequencesOf
  <2>2. IsFiniteSet(events') /\ Cardinality(Counted') = 0 /\ IsFiniteSet(steps')
    BY <1>1, <2>1, FS_Singleton, FS_EmptySet DEF RunInv, RowsInv
  <2>3. Bounded(SequencesOf(events)')
    BY <2>1 DEF Bounded
  <2>4. \E e \in StatusEvents' : e.to = run'.status /\ \A f \in StatusEvents' : f.seq <= e.seq
    BY <1>3, <2>1
  <2>5. RowAgreesWithLog'
    BY <1>3, <2>1, <2>2, <2>4 DEF RowAgreesWithLog, Counted
  <2> QED BY <1>3, <2>2, <2>3, <2>5 DEF RowsInv
<1>5. ASSUME NEW r \in Requests \ {q} PROVE RunRequestInv(r)'
  <2>1. Asks(r, {"create_run"}) => FALSE
    BY DEF CreateRun, RunInv, RunPairInv
  <2>2. Active(r) => op[r] \notin RunOps
    BY <1>2 DEF RunInv, RunRequestInv
  <2>3. Active(r) => op[r].kind \in DefinitionKinds
    BY <2>1, <2>2, RunKinds DEF OpInv, Asks
  <2>4. Active(r) => stage[r] # "inserted"
    BY <2>3 DEF OpInv, Asks, DefinitionKinds
  <2> QED BY <1>1, <2>1, <2>2, <2>3, <2>4
          DEF RunRequestInv, Unmoved, Active, Asks, Holds, Adds, DefinitionKinds, ChildKinds
<1> QED BY <1>1, <1>4, <1>5, Uninvolved, RunStep

\* A status and its event are committed together.
LEMMA StatusCommitted ==
  ASSUME TypeOK, OpInv, RunInv, NEW q \in Requests, CommitStatus(q)
  PROVE  RunInv'
<1> DEFINE new == [seq |-> sequence[q], to |-> op[q].to, counted |-> op[q].counted]
<1>1. /\ op' = op /\ stage'[q] = "done" /\ \A r \in Requests \ {q} : Unmoved(r)
      /\ run' = [status |-> op[q].to,
                 retries |-> IF op[q].counted THEN copy[q].run.retries + 1 ELSE run.retries]
      /\ events' = events \cup {new}
      /\ steps' = steps /\ artifacts' = artifacts
  BY Ending DEF CommitStatus, Answers
<1>2. /\ op[q].to \in Lifecycle!RunStatuses /\ op[q].counted \in BOOLEAN /\ sequence[q] \in Nat
      /\ op[q] \in RunOps /\ Active(q)
  <2>1. op[q] \in Ops /\ op[q].kind = "update_status"
    BY DEF TypeOK, Ops, CommitStatus, Asks
  <2> QED BY <2>1, RunFields, RunKinds DEF TypeOK, RowKinds, CommitStatus, Active
<1>3. RowsInv /\ RunRequestInv(q) /\ Holds(q, {"update_status"}) /\ Holds(q, RowKinds)
  BY DEF RunInv, CommitStatus, Holds, Asks, RowKinds
<1>4. /\ run \notin {NoRun, Deleted} /\ sequence[q] \notin SequencesOf(events)
      /\ \A e \in StatusEvents : e.seq < sequence[q]
      /\ copy[q].run.retries <= Cardinality(Counted)
  BY <1>2, <1>3 DEF RunRequestInv, CommitStatus, Holds
<1>5. run.retries \in Nat /\ copy[q].run.retries \in Nat
  <2>1. run \in RunRows /\ copy[q].run \in RunRows
    BY DEF TypeOK, Copies
  <2> QED BY <2>1 DEF RunRows, NoRun, Deleted
<1>6. /\ run' \notin {NoRun, Deleted} /\ op[q].to # "none"
      /\ run'.status = op[q].to
      /\ run'.retries = IF op[q].counted THEN copy[q].run.retries + 1 ELSE run.retries
  BY <1>1, <1>2, StatusWords
<1>7. new \notin Counted /\ new.to = op[q].to /\ new.seq = sequence[q] /\ (new.counted <=> op[q].counted)
  BY <1>2, <1>4 DEF Counted, SequencesOf
<1> HIDE DEF new
<1>8. /\ StatusEvents' = StatusEvents \cup {new} /\ SequencesOf(events)' = SequencesOf(events) \cup {sequence[q]}
      /\ op[q].counted => Counted' = Counted \cup {new}
      /\ ~ op[q].counted => Counted' = Counted
  BY <1>1, <1>6, <1>7 DEF StatusEvents, SequencesOf, Counted
<1>9. /\ Cardinality(Counted) \in Nat /\ Cardinality(Counted') \in Nat
      /\ op[q].counted => Cardinality(Counted') = Cardinality(Counted) + 1
      /\ ~ op[q].counted => Cardinality(Counted') = Cardinality(Counted)
  BY <1>3, <1>7, <1>8, CountedFinite, FS_AddElement, FS_CardinalityType
<1>10. RowsInv'
  <2>1. \E e \in StatusEvents' : e.to = run'.status /\ \A f \in StatusEvents' : f.seq <= e.seq
    <3>1. \A f \in StatusEvents : f.seq <= sequence[q]
      <4>1. \A f \in StatusEvents : f.seq \in Nat
        BY DEF TypeOK, StatusEvents, Events
      <4> QED BY <1>2, <1>4, <4>1
    <3>2. \A f \in StatusEvents' : f.seq <= new.seq
      BY <1>2, <1>7, <1>8, <3>1
    <3> QED BY <1>6, <1>7, <1>8, <3>2
  <2>2. run'.retries <= Cardinality(Counted')
    BY <1>2, <1>3, <1>4, <1>5, <1>6, <1>9 DEF RowsInv, RowAgreesWithLog, Counted
  <2>3. Counted' # {} => run'.retries > 0
    BY <1>2, <1>3, <1>4, <1>5, <1>6, <1>8 DEF RowsInv, RowAgreesWithLog, Counted
  <2>4. RowAgreesWithLog'
    BY <1>6, <2>1, <2>2, <2>3 DEF RowAgreesWithLog, Counted
  <2>5. IsFiniteSet(events') /\ IsFiniteSet(steps')
    BY <1>1, <1>3, FS_AddElement DEF RowsInv
  <2>6. Bounded(SequencesOf(events)')
    BY <1>2, <1>3, <1>8, SequencesType, BoundedGrows DEF RowsInv
  <2> QED BY <1>6, <2>4, <2>5, <2>6 DEF RowsInv
<1>11. ASSUME NEW r \in Requests \ {q} PROVE RunRequestInv(r)'
  <2>1. RunRequestInv(r) /\ RunPairInv(q, r) /\ RunPairInv(r, q)
    BY DEF RunInv
  <2>2. ~ Holds(r, RowKinds)
    BY <1>3, <2>1 DEF RunPairInv
  <2>3. ~ (Asks(r, {"update_status"}) /\ stage[r] \in {"numbered", "inserted"})
    BY <2>2 DEF Holds, Asks, RowKinds
  <2>4. stage[r] = "inserted" => sequence[r] \notin SequencesOf(events)'
    <3> SUFFICES ASSUME stage[r] = "inserted" PROVE sequence[r] \notin SequencesOf(events)'
      OBVIOUS
    <3>1. sequence[r] \notin SequencesOf(events) /\ sequence[r] # sequence[q]
      BY <2>1 DEF RunRequestInv, RunPairInv, Active, CommitStatus
    <3> QED BY <1>8, <3>1
  <2>5. Asks(r, {"update_status"}) /\ Active(r) => copy[r].run.retries <= Cardinality(Counted')
    <3>1. copy[r].run.retries \in Nat
      <4>1. copy[r].run \in RunRows
        BY DEF TypeOK, Copies
      <4> QED BY <4>1 DEF RunRows, NoRun, Deleted
    <3> QED BY <1>2, <1>4, <1>9, <2>1, <3>1 DEF RunRequestInv
  <2>6. Active(r) => ~ Asks(r, {"create_run"})
    BY <1>4, <2>1 DEF RunRequestInv
  <2> QED BY <1>1, <1>6, <2>1, <2>3, <2>4, <2>5, <2>6
          DEF RunRequestInv, Unmoved, Active, Asks, Holds, Adds
<1> QED BY <1>1, <1>10, <1>11, Uninvolved, RunStep

\* An event without a status is committed.
LEMMA EventCommitted ==
  ASSUME TypeOK, OpInv, RunInv, NEW q \in Requests, CommitEvent(q)
  PROVE  RunInv'
<1> DEFINE new == [seq |-> sequence[q], to |-> "none", counted |-> FALSE]
<1>1. /\ op' = op /\ stage'[q] = "done" /\ \A r \in Requests \ {q} : Unmoved(r)
      /\ run' = run /\ events' = events \cup {new} /\ steps' = steps /\ artifacts' = artifacts
  BY Ending DEF CommitEvent, Answers
<1>2. sequence[q] \in Nat /\ op[q] \in RunOps /\ Active(q) /\ Adds(q)
  BY RunKinds DEF TypeOK, CommitEvent, Asks, Active, Adds
<1>3. RowsInv /\ RunRequestInv(q)
  BY DEF RunInv
<1>4. run \notin {NoRun, Deleted}
  BY <1>2, <1>3 DEF RunRequestInv
<1>5. StatusEvents' = StatusEvents /\ Counted' = Counted
      /\ SequencesOf(events)' = SequencesOf(events) \cup {sequence[q]}
  <2>1. new.to = "none" /\ ~ new.counted /\ new.seq = sequence[q]
    OBVIOUS
  <2> HIDE DEF new
  <2> QED BY <1>1, <2>1 DEF StatusEvents, SequencesOf, Counted
<1>6. RowsInv'
  <2>1. RowAgreesWithLog'
    BY <1>1, <1>3, <1>4, <1>5 DEF RowsInv, RowAgreesWithLog, Counted
  <2>2. IsFiniteSet(events') /\ IsFiniteSet(steps')
    BY <1>1, <1>3, FS_AddElement DEF RowsInv
  <2>3. Bounded(SequencesOf(events)')
    BY <1>2, <1>3, <1>5, SequencesType, BoundedGrows DEF RowsInv
  <2> QED BY <1>1, <1>4, <2>1, <2>2, <2>3 DEF RowsInv
<1>7. ASSUME NEW r \in Requests \ {q} PROVE RunRequestInv(r)'
  <2>1. RunRequestInv(r) /\ RunPairInv(q, r)
    BY DEF RunInv
  <2>2. stage[r] = "inserted" => sequence[r] \notin SequencesOf(events)'
    <3> SUFFICES ASSUME stage[r] = "inserted" PROVE sequence[r] \notin SequencesOf(events)'
      OBVIOUS
    <3>1. sequence[r] \notin SequencesOf(events) /\ sequence[r] # sequence[q]
      BY <2>1 DEF RunRequestInv, RunPairInv, Active, CommitEvent
    <3> QED BY <1>5, <3>1
  <2> QED BY <1>1, <1>5, <2>1, <2>2 DEF RunRequestInv, Unmoved, Active, Asks, Holds, Adds
<1> QED BY <1>1, <1>6, <1>7, Uninvolved, RunStep

\* A step or an artifact is committed.
LEMMA ChildCommitted ==
  ASSUME TypeOK, OpInv, RunInv, NEW q \in Requests, CommitChild(q)
  PROVE  RunInv'
<1>1. /\ op' = op /\ stage'[q] = "done" /\ \A r \in Requests \ {q} : Unmoved(r)
      /\ run' = run /\ events' = events
      /\ steps' = steps \/ steps' = steps \cup {op[q].index}
  BY Ending DEF CommitChild, Answers
<1>2. op[q] \in RunOps /\ Active(q) /\ Adds(q)
  BY RunKinds DEF CommitChild, Asks, Active, Adds, Holds, ChildKinds
<1>3. run \notin {NoRun, Deleted}
  BY <1>2 DEF RunInv, RunRequestInv
<1>4. RowsInv'
  <2>1. IsFiniteSet(steps')
    BY <1>1, FS_AddElement DEF RunInv, RowsInv
  <2>2. StatusEvents' = StatusEvents /\ SequencesOf(events)' = SequencesOf(events)
    BY <1>1 DEF StatusEvents, SequencesOf
  <2> QED BY <1>1, <1>3, <2>1, <2>2 DEF RunInv, RowsInv, RowAgreesWithLog
<1>5. \A r \in Requests \ {q} : RunRequestInv(r)'
  BY <1>1, RunRequestFrame DEF RunInv
<1> QED BY <1>1, <1>4, <1>5, Uninvolved, RunStep

\* The run is deleted, with its rows.
LEMMA DeleteCommitted ==
  ASSUME TypeOK, OpInv, RunInv, NEW q \in Requests, CommitDelete(q)
  PROVE  RunInv'
<1>1. /\ op' = op /\ stage'[q] = "done" /\ \A r \in Requests \ {q} : Unmoved(r)
      /\ run' = Deleted /\ events' = {} /\ steps' = {} /\ artifacts' = 0
  BY Ending DEF CommitDelete, Answers
<1>2. op[q] \in RunOps /\ Active(q) /\ Holds(q, {"delete_run"}) /\ Holds(q, RowKinds)
  BY RunKinds DEF CommitDelete, Asks, Active, Holds, RowKinds
<1>3. run # NoRun
  BY <1>2 DEF RunInv, RunRequestInv
<1>4. RowsInv'
  <2>1. IsFiniteSet({}) /\ SequencesOf({}) = {} /\ Bounded({})
    BY FS_EmptySet DEF SequencesOf, Bounded
  <2>2. RowAgreesWithLog'
    BY <1>1 DEF RowAgreesWithLog
  <2> QED BY <1>1, <2>1, <2>2 DEF RowsInv, NoRun, Deleted
<1>5. ASSUME NEW r \in Requests \ {q} PROVE RunRequestInv(r)'
  <2>1. RunRequestInv(r) /\ RunPairInv(q, r)
    BY DEF RunInv
  <2>2. ~ Holds(r, RowKinds) /\ ~ Adds(r)
    BY <1>2, <2>1 DEF RunPairInv
  <2>3. StatusEvents' = {} /\ SequencesOf(events)' = {}
    BY <1>1 DEF StatusEvents, SequencesOf
  <2>4. Active(r) => ~ Asks(r, {"create_run"})
    BY <1>3, <2>1 DEF RunRequestInv
  <2>5. ~ Holds(r, {"update_status"})
    BY <2>2 DEF Holds, Asks, RowKinds
  <2>6. run' # NoRun
    BY <1>1 DEF NoRun, Deleted
  <2> QED BY <1>1, <2>1, <2>2, <2>3, <2>4, <2>5, <2>6
          DEF RunRequestInv, Unmoved, Active, Asks, Holds, Adds
<1> QED BY <1>1, <1>4, <1>5, Uninvolved, RunStep

LEMMA RunKept ==
  ASSUME TypeOK, OpInv, RunInv, NEW q \in Requests, Step(q)
  PROVE  RunInv'
<1> USE DEF Answers
<1>e. ASSUME NEW how \in Answers, End(q, how), UNCHANGED database PROVE RunInv'
  BY <1>e, Ending, RunFrame DEF database
<1>1. ASSUME NEW o \in DefinitionOps \cup CreateRunOps \cup RunOps, Read(q, o) PROVE RunInv'
  BY <1>1, RunRead
<1>2. ASSUME NEW o, Refuse(q, o) PROVE RunInv'
  BY <1>2, <1>e DEF Refuse
<1>3. CASE FlushDefinition(q)
  <2>1. CASE ~ RowRefused(q)
    <3>1. /\ op' = op /\ stage'[q] = "written" /\ UNCHANGED <<run, steps, events, artifacts>>
          /\ \A r \in Requests \ {q} : Unmoved(r)
      BY <1>3, <2>1, Going DEF FlushDefinition, database
    <3> QED BY <1>3, <3>1, RunFrame DEF FlushDefinition
  <2> QED BY <1>3, <1>e, <2>1 DEF FlushDefinition
<1>4. CASE CommitDefinition(q)
  BY <1>4, Ending, RunFrame DEF CommitDefinition
<1>5. CASE CreateRun(q)
  BY <1>5, RunCreated
<1>6. CASE UpdateRun(q)
  <2>1. CASE run # Deleted
    <3>1. /\ op' = op /\ copy' = copy /\ stage'[q] = "written" /\ UNCHANGED <<run, steps, events, artifacts>>
          /\ \A r \in Requests \ {q} : Unmoved(r)
      BY <1>6, <2>1, Going DEF UpdateRun, database
    <3>2. op[q] \in RunOps /\ Active(q) /\ ~ Adds(q)' /\ ~ Holds(q, {"delete_run"})'
      BY <1>6, <3>1, RunKinds DEF UpdateRun, Asks, Active, Adds, Holds, RowKinds, ChildKinds
    <3>3. \A s \in Requests : ~ Holds(s, RowKinds)
      BY <1>6 DEF UpdateRun, RowKinds
    <3> QED BY <2>1, <3>1, <3>2, <3>3, RunGoing
  <2> QED BY <1>6, <1>e, <2>1 DEF UpdateRun
<1>7. CASE Number(q)
  <2>1. /\ op' = op /\ copy' = copy /\ stage'[q] = "numbered" /\ UNCHANGED <<run, steps, events, artifacts>>
        /\ \A r \in Requests \ {q} : Unmoved(r)
        /\ sequence'[q] = IF Asks(q, {"append_event"}) /\ op[q].seq # NoNumber
                            THEN op[q].seq ELSE NextSequence(events)
    BY <1>7, Numbering DEF Number, database
  <2>2. op[q] \in RunOps /\ Active(q) /\ ~ Holds(q, {"delete_run"})' /\ ~ Adds(q)'
    BY <1>7, <2>1, RunKinds DEF Number, Asks, Active, Holds, Adds, RowKinds, ChildKinds
  <2>3. Holds(q, RowKinds)' => Holds(q, {"update_status"}) /\ Holds(q, RowKinds)
    BY <1>7, <2>1 DEF Number, Holds, Asks, RowKinds
  <2>4. Holds(q, {"update_status"})' => Holds(q, RowKinds)'
    BY <2>1 DEF Holds, Asks, RowKinds
  <2>5. Asks(q, {"update_status"}) => \A e \in StatusEvents : e.seq < sequence'[q]
    <3>1. \A e \in events : e.seq < NextSequence(events)
      BY SequencesType DEF RunInv, RowsInv
    <3> QED BY <2>1, <3>1 DEF Asks, StatusEvents
  <2>6. Holds(q, RowKinds)' => run # Deleted /\ \A s \in Requests \ {q} : ~ Holds(s, RowKinds)
    BY <2>2, <2>3 DEF RunInv, RunRequestInv, RunPairInv
  <2> QED BY <2>1, <2>2, <2>4, <2>5, <2>6, RunGoing
<1>8. CASE InsertEvent(q)
  <2>1. CASE run # Deleted /\ ~ NumberTaken(q)
    <3>1. /\ op' = op /\ copy' = copy /\ stage'[q] = "inserted" /\ UNCHANGED <<run, steps, events, artifacts, sequence>>
          /\ \A r \in Requests \ {q} : Unmoved(r)
      BY <1>8, <2>1, Going DEF InsertEvent, database
    <3>2. op[q].kind \in {"update_status", "append_event"} /\ stage[q] = "numbered"
      BY <1>8 DEF InsertEvent, OpInv, Asks
    <3>3. op[q] \in RunOps /\ Active(q)
      BY <3>2, RunKinds DEF Active, RowKinds
    <3>4. Holds(q, RowKinds)' => Holds(q, RowKinds)
      BY <3>1, <3>2 DEF Holds, Asks
    <3>5. \A s \in Requests \ {q} : Holds(q, RowKinds)' => ~ Holds(s, RowKinds)
      BY <3>4 DEF RunInv, RunPairInv
    <3>6. ~ Holds(q, {"delete_run"})'
      BY <3>1, <3>2 DEF Holds, Asks
    <3>7. Asks(q, {"update_status"}) => \A e \in StatusEvents : e.seq < sequence'[q]
      BY <3>1, <3>2, <3>3 DEF RunInv, RunRequestInv
    <3>8. \A s \in Requests \ {q} : ~ Holds(s, {"delete_run"})
      BY <1>8 DEF InsertEvent, AwaitsDelete
    <3>9. /\ sequence'[q] \notin SequencesOf(events)
          /\ \A s \in Requests \ {q} : stage[s] = "inserted" => sequence[s] # sequence'[q]
      BY <1>8, <2>1, <3>1 DEF InsertEvent, NumberTaken
    <3> QED BY <2>1, <3>1, <3>3, <3>5, <3>6, <3>7, <3>8, <3>9, RunGoing
  <2> QED BY <1>8, <1>e, <2>1 DEF InsertEvent
<1>9. CASE InsertChild(q)
  <2>1. CASE run # Deleted /\ Goto(q, "written") /\ UNCHANGED <<copy, sequence>>
    <3>1. /\ op' = op /\ copy' = copy /\ stage'[q] = "written" /\ UNCHANGED <<run, steps, events, artifacts>>
          /\ \A r \in Requests \ {q} : Unmoved(r)
      BY <1>9, <2>1, Going DEF InsertChild, database
    <3>2. op[q] \in RunOps /\ Active(q) /\ ~ Holds(q, RowKinds)' /\ ~ Holds(q, {"delete_run"})'
      BY <1>9, <3>1, RunKinds DEF InsertChild, Asks, Active, Holds, RowKinds, ChildKinds
    <3>3. \A s \in Requests \ {q} : ~ Holds(s, {"delete_run"})
      BY <1>9 DEF InsertChild, AwaitsDelete
    <3> QED BY <2>1, <3>1, <3>2, <3>3, RunGoing
  <2> QED BY <1>9, <1>e, <2>1 DEF InsertChild
<1>10. CASE FlushDelete(q)
  <2>1. /\ op' = op /\ copy' = copy /\ stage'[q] = "written" /\ UNCHANGED <<run, steps, events, artifacts>>
        /\ \A r \in Requests \ {q} : Unmoved(r)
    BY <1>10, Going DEF FlushDelete, database
  <2>2. op[q] \in RunOps /\ Active(q) /\ ~ Adds(q)' /\ ~ Holds(q, {"update_status"})'
    BY <1>10, <2>1, RunKinds DEF FlushDelete, Asks, Active, Adds, Holds, RowKinds, ChildKinds
  <2>3. \A s \in Requests \ {q} : ~ Holds(s, RowKinds) /\ ~ Adds(s)
    BY <1>10 DEF FlushDelete, Holds, Asks, Adds, RowKinds, ChildKinds
  <2> QED BY <2>1, <2>2, <2>3, RunGoing
<1>11. CASE CommitStatus(q)
  BY <1>11, StatusCommitted
<1>12. CASE CommitEvent(q)
  BY <1>12, EventCommitted
<1>13. CASE CommitChild(q)
  BY <1>13, ChildCommitted
<1>14. CASE CommitDelete(q)
  BY <1>14, DeleteCommitted
<1>15. CASE Abort(q)
  BY <1>15, <1>e DEF Abort
<1> QED BY <1>1, <1>2, <1>3, <1>4, <1>5, <1>6, <1>7, <1>8, <1>9, <1>10, <1>11, <1>12, <1>13, <1>14,
        <1>15 DEF Step

-----------------------------------------------------------------------------
(* The invariant, and what follows from it. *)

LEMMA InitRecordsInv == Init => RecordsInv
<1> SUFFICES ASSUME Init PROVE RecordsInv
  OBVIOUS
<1> DEFINE first == [seq |-> 0, to |-> "requested", counted |-> FALSE]
<1>1. \/ definitions = [d \in Definitions |-> Absent]
      \/ \E one \in Definitions, key \in Keys :
           definitions = [d \in Definitions |-> IF d = one THEN [key |-> key, status |-> "active"] ELSE Absent]
  BY DEF Init
<1>2. /\ definitions \in [Definitions -> Rows \cup {Absent}]
      /\ \A d, e \in Definitions : definitions[d] # Absent /\ definitions[d].key = definitions[e].key => d = e
  <2>1. CASE definitions = [d \in Definitions |-> Absent]
    BY <2>1
  <2>2. ASSUME NEW one \in Definitions, NEW key \in Keys,
               definitions = [d \in Definitions |-> IF d = one THEN [key |-> key, status |-> "active"] ELSE Absent]
        PROVE  /\ definitions \in [Definitions -> Rows \cup {Absent}]
               /\ \A d, e \in Definitions :
                    definitions[d] # Absent /\ definitions[d].key = definitions[e].key => d = e
    <3>1. [key |-> key, status |-> "active"] \in Rows /\ key # Null
      BY NoValuesAssumption DEF Rows, DefinitionStatuses
    <3>2. Absent.key = Null /\ [key |-> key, status |-> "active"].key = key
      BY DEF Absent
    <3>3. \A d \in Definitions :
            definitions[d] = IF d = one THEN [key |-> key, status |-> "active"] ELSE Absent
      BY <2>2
    <3> QED BY <2>2, <3>1, <3>2, <3>3
  <2> QED BY <1>1, <2>1, <2>2
<1>3. /\ run \in RunRows /\ events \subseteq Events
      /\ \A e, f \in events : e.seq = f.seq => e = f
      /\ RowsInv
  <2>1. CASE run = NoRun /\ events = {}
    <3>1. IsFiniteSet({}) /\ SequencesOf({}) = {} /\ Bounded({})
      BY FS_EmptySet DEF SequencesOf, Bounded
    <3> QED BY <2>1, <3>1 DEF Init, RunRows, RowsInv, RowAgreesWithLog, NoRun, Deleted
  <2>2. CASE run = [status |-> "requested", retries |-> 0] /\ events = {first}
    <3>1. "requested" \in Lifecycle!RunStatuses /\ "requested" # "none"
      BY DEF Lifecycle!RunStatuses
    <3>2. first \in Events /\ run \in RunRows
      BY <2>2, <3>1 DEF Events, RunRows
    <3>3. StatusEvents = {first} /\ Counted = {} /\ SequencesOf(events) = {0}
      BY <2>2 DEF StatusEvents, Counted, SequencesOf
    <3>4. IsFiniteSet(events) /\ Cardinality(Counted) = 0 /\ IsFiniteSet(steps)
      BY <2>2, <3>3, FS_Singleton, FS_EmptySet DEF Init
    <3>5. Bounded(SequencesOf(events))
      BY <3>3 DEF Bounded
    <3>6. run \notin {NoRun, Deleted} /\ run.status = "requested" /\ run.retries = 0
      BY <2>2 DEF NoRun, Deleted
    <3>7. \E e \in StatusEvents : e.to = run.status /\ \A f \in StatusEvents : f.seq <= e.seq
      BY <3>3, <3>6
    <3>8. RowAgreesWithLog
      BY <3>3, <3>4, <3>6, <3>7 DEF RowAgreesWithLog, Counted
    <3> QED BY <2>2, <3>2, <3>4, <3>5, <3>6, <3>8 DEF RowsInv
  <2> QED BY <2>1, <2>2 DEF Init
<1>4. \A r \in Requests : op[r] = NoOp /\ stage[r] = "new" /\ answer[r] = "none"
  BY DEF Init
<1>5. TypeOK
  <2>1. NoCopy \in Copies
    BY DEF NoCopy, Copies, RunRows
  <2> QED BY <1>2, <1>3, <2>1 DEF Init, TypeOK, Answers
<1>6. OpInv
  BY <1>4 DEF OpInv, Active
<1>7. DefinitionsInv
  BY <1>2, <1>4 DEF DefinitionsInv, DefinitionInv, Active, Writes, Asks, NoOp
<1>8. RunInv
  BY <1>3, <1>4 DEF RunInv, RunRequestInv, RunPairInv, Active, Holds, Adds, Asks, NoOp
<1> QED BY <1>5, <1>6, <1>7, <1>8 DEF RecordsInv

LEMMA StepKeepsRecordsInv == RecordsInv /\ [Next]_vars => RecordsInv'
<1> SUFFICES ASSUME RecordsInv, [Next]_vars PROVE RecordsInv'
  OBVIOUS
<1>0. TypeOK /\ OpInv /\ DefinitionsInv /\ RunInv
  BY DEF RecordsInv
<1>1. ASSUME NEW q \in Requests, Step(q) PROVE RecordsInv'
  <2>1. TypeOK'
    <3>1. RowsInv
      BY <1>0 DEF RunInv
    <3> QED BY <1>0, <1>1, <3>1, LocalTypeKept, DatabaseTypeKept DEF TypeOK, LocalTypeOK
  <2> QED BY <1>0, <1>1, <2>1, OpInvKept, DefinitionsKept, RunKept DEF RecordsInv
<1>2. CASE UNCHANGED vars
  <2>1. TypeOK' /\ OpInv'
    BY <1>0, <1>2 DEF vars, database, TypeOK, OpInv, Active, Asks
  <2>2. DefinitionsInv'
    BY <1>0, <1>2 DEF vars, database, DefinitionsInv, DefinitionInv, SendsNull, Active, Asks, Writes, WrittenRow, Holders
  <2>3. RowsInv'
    BY <1>0, <1>2, RowsFrame DEF vars, database, RunInv
  <2>4. RunInv'
    <3>1. \A r \in Requests : Unmoved(r)
      BY <1>2 DEF vars, Unmoved
    <3>2. \A r \in Requests : RunRequestInv(r)'
      BY <1>0, <1>2, <3>1, RunRequestFrame DEF vars, database, RunInv
    <3>3. \A r, s \in Requests : RunPairInv(r, s)'
      BY <1>0, <3>1, RunPairFrame DEF RunInv
    <3> QED BY <2>3, <3>2, <3>3 DEF RunInv
  <2> QED BY <2>1, <2>2, <2>4 DEF RecordsInv
<1> QED BY <1>1, <1>2 DEF Next

\* RecordsInv holds of every state: what each request of the agents services
\* may rely on between its flush and its commit.
THEOREM RecordsInvariant == Spec => []RecordsInv
BY InitRecordsInv, StepKeepsRecordsInv, PTL DEF Spec

\* The rows and the requests of the agents services are well typed, and no two
\* committed events have the same number.
THEOREM TypeCorrect == Spec => []TypeOK
<1>1. RecordsInv => TypeOK
  BY DEF RecordsInv
<1> QED BY <1>1, RecordsInvariant, PTL

\* update_status, append_event and delete_run leave the run's row as the last
\* numbered status event says, with a retry count the counted events account
\* for, and no row behind once the run is deleted.
THEOREM RowsAgree == Spec => []RowAgreesWithLog
<1>1. RecordsInv => RowAgreesWithLog
  BY DEF RecordsInv, RunInv, RowsInv
<1> QED BY <1>1, RecordsInvariant, PTL

\* A request that succeeds has committed in this very step.
LEMMA SuccessIsACommit ==
  ASSUME RecordsInv, [Next]_vars, NEW r \in Requests, Succeeds(r)
  PROVE  \/ CommitDefinition(r) \/ CreateRun(r) \/ CommitStatus(r) \/ CommitEvent(r)
         \/ CommitChild(r) \/ CommitDelete(r)
<1> USE DEF Answers
<1>0. TypeOK /\ answer'[r] # answer[r]
  BY DEF RecordsInv, Succeeds
<1>1. PICK q \in Requests : Step(q)
  BY <1>0 DEF vars, Next
<1>2. ASSUME NEW how \in Answers, End(q, how), how # "ok" PROVE FALSE
  BY <1>0, <1>2, Ending DEF Unmoved, Succeeds
<1>4. ASSUME NEW how \in Answers, End(q, how) PROVE q = r
  BY <1>0, <1>4, Ending DEF Unmoved
<1>5. answer' # answer
  BY <1>0
<1>6. \/ CommitDefinition(q) \/ CreateRun(q) \/ CommitStatus(q) \/ CommitEvent(q)
      \/ CommitChild(q) \/ CommitDelete(q)
  <2>1. ~ Number(q)
    BY <1>5 DEF Number, Goto
  <2>2. ~ (\E o \in DefinitionOps \cup CreateRunOps \cup RunOps : Read(q, o))
    BY <1>5 DEF Read
  <2>3. ~ (\E o \in DefinitionOps \cup CreateRunOps \cup RunOps : Refuse(q, o))
    BY <1>2 DEF Refuse
  <2>4. ~ FlushDefinition(q) /\ ~ UpdateRun(q) /\ ~ InsertEvent(q) /\ ~ InsertChild(q)
        /\ ~ FlushDelete(q) /\ ~ Abort(q)
    BY <1>2, <1>5 DEF FlushDefinition, UpdateRun, InsertEvent, InsertChild, FlushDelete, Abort, Goto
  <2> QED BY <1>1, <2>1, <2>2, <2>3, <2>4 DEF Step
<1>7. q = r
  BY <1>4, <1>6 DEF CommitDefinition, CreateRun, CommitStatus, CommitEvent, CommitChild, CommitDelete
<1> QED BY <1>6, <1>7

\* One more row than a set had takes it over its limit only if it was at the
\* limit already.
LEMMA OneMore ==
  ASSUME NEW S, IsFiniteSet(S), NEW x, NEW max \in Nat, Cardinality(S) < max
  PROVE  Cardinality(S \cup {x}) <= max
<1>1. Cardinality(S) \in Nat /\ Cardinality(S \cup {x}) \in {Cardinality(S), Cardinality(S) + 1}
  BY FS_AddElement, FS_CardinalityType
<1> QED BY <1>1

\* No row of the run goes past its limit by a commit that nobody has overtaken,
\* but for an event of update_status.
LEMMA LimitsHold ==
  ASSUME RecordsInv, [Next]_vars, NEW r \in Requests
  PROVE  ExcessHasACause(r)
<1> SUFFICES ASSUME Succeeds(r)
             PROVE  /\ steps' # steps /\ Cardinality(steps') > MaxSteps =>
                         Asks(r, {"append_step"}) /\ steps # copy[r].steps
                    /\ events' # events /\ Cardinality(events') > MaxEvents =>
                         Asks(r, {"update_status"}) \/ (Asks(r, {"append_event"}) /\ events # copy[r].events)
  BY DEF ExcessHasACause
<1>1. \/ CommitDefinition(r) \/ CreateRun(r) \/ CommitStatus(r) \/ CommitEvent(r)
      \/ CommitChild(r) \/ CommitDelete(r)
  BY SuccessIsACommit
<1>2. IsFiniteSet(steps) /\ IsFiniteSet(events) /\ RunRequestInv(r) /\ op[r] \in Ops
  BY DEF RecordsInv, RunInv, RowsInv, TypeOK, Ops
<1>e. Cardinality({}) = 0 /\ \A x : Cardinality({x}) = 1
  BY FS_EmptySet, FS_Singleton
<1>3. CASE CommitDefinition(r)
  BY <1>3 DEF CommitDefinition
<1>4. CASE CreateRun(r)
  <2>1. Cardinality(events') = 1 /\ steps' = steps
    BY <1>4, <1>e DEF CreateRun
  <2> QED BY <2>1, LimitsAssumption
<1>5. CASE CommitStatus(r)
  BY <1>5 DEF CommitStatus
<1>6. CASE CommitEvent(r)
  <2> SUFFICES ASSUME events = copy[r].events
               PROVE  ~ (Cardinality(events') > MaxEvents)
    BY <1>6 DEF CommitEvent
  <2>2. PICK e : events' = events \cup {e}
    BY <1>6 DEF CommitEvent
  <2>3. Cardinality(events) < MaxEvents
    BY <1>2, <1>6 DEF CommitEvent, RunRequestInv, Active
  <2>4. Cardinality(events') <= MaxEvents /\ Cardinality(events') \in Nat
    BY <1>2, <2>2, <2>3, OneMore, LimitsAssumption, FS_AddElement, FS_CardinalityType
  <2> QED BY <2>4, LimitsAssumption
<1>7. CASE CommitChild(r)
  <2> SUFFICES ASSUME Asks(r, {"append_step"}), steps = copy[r].steps
               PROVE  ~ (Cardinality(steps') > MaxSteps)
    BY <1>7 DEF CommitChild
  <2>2. steps' = steps \cup {op[r].index} /\ Cardinality(steps) < MaxSteps
    BY <1>2, <1>7 DEF CommitChild, RunRequestInv, Active
  <2>3. Cardinality(steps') <= MaxSteps /\ Cardinality(steps') \in Nat
    BY <1>2, <2>2, OneMore, LimitsAssumption, FS_AddElement, FS_CardinalityType
  <2> QED BY <2>3, LimitsAssumption
<1>8. CASE CommitDelete(r)
  <2>1. Cardinality(events') = 0 /\ Cardinality(steps') = 0
    BY <1>8, <1>e DEF CommitDelete
  <2> QED BY <2>1, LimitsAssumption
<1> QED BY <1>1, <1>3, <1>4, <1>5, <1>6, <1>7, <1>8

\* A request that fails meets a constraint at a flush of its own.
LEMMA FailureIsAFlush ==
  ASSUME RecordsInv, [Next]_vars, NEW r \in Requests, Fails(r)
  PROVE  \/ FlushDefinition(r) /\ RowRefused(r)
         \/ UpdateRun(r) /\ run = Deleted
         \/ InsertEvent(r) /\ (run = Deleted \/ NumberTaken(r))
         \/ InsertChild(r) /\ (run = Deleted \/ (Asks(r, {"append_step"}) /\ op[r].index \in steps))
<1> USE DEF Answers
<1>0. TypeOK /\ answer'[r] # answer[r] /\ answer' # answer /\ answer'[r] \in {"integrity", "stale"}
  BY DEF RecordsInv, Fails
<1>1. PICK q \in Requests : Step(q)
  BY <1>0 DEF vars, Next
<1>2. ASSUME NEW how \in Answers, End(q, how) PROVE q = r /\ how \in {"integrity", "stale"}
  BY <1>0, <1>2, Ending DEF Unmoved
<1>3. ~ Number(q) /\ ~ FlushDelete(q)
  BY <1>0 DEF Number, FlushDelete, Goto
<1>4. ~ (\E o \in DefinitionOps \cup CreateRunOps \cup RunOps : Read(q, o))
  BY <1>0 DEF Read
<1>5. ~ (\E o \in DefinitionOps \cup CreateRunOps \cup RunOps : Refuse(q, o))
  BY <1>2 DEF Refuse
<1>6. /\ ~ CommitDefinition(q) /\ ~ CreateRun(q) /\ ~ CommitStatus(q) /\ ~ CommitEvent(q)
      /\ ~ CommitChild(q) /\ ~ CommitDelete(q) /\ ~ Abort(q)
  BY <1>2 DEF CommitDefinition, CreateRun, CommitStatus, CommitEvent, CommitChild, CommitDelete, Abort
<1>7. CASE FlushDefinition(q)
  BY <1>0, <1>2, <1>7 DEF FlushDefinition, Goto
<1>8. CASE UpdateRun(q)
  BY <1>0, <1>2, <1>8 DEF UpdateRun, Goto
<1>9. CASE InsertEvent(q)
  BY <1>0, <1>2, <1>9 DEF InsertEvent, Goto
<1>10. CASE InsertChild(q)
  BY <1>0, <1>2, <1>10 DEF InsertChild, Goto
<1> QED BY <1>1, <1>3, <1>4, <1>5, <1>6, <1>7, <1>8, <1>9, <1>10 DEF Step

\* Only a flush of a definition meets the constraints of its table.
LEMMA ConstraintsHold ==
  ASSUME RecordsInv, [Next]_vars, NEW r \in Requests
  PROVE  DefinitionErrorsHaveACause(r)
<1> SUFFICES ASSUME Fails(r), op[r] \in DefinitionOps, ~ SendsNull(r)
             PROVE  \E d \in Definitions \ {op[r].id} :
                      definitions[d].key = WrittenRow(r).key /\ definitions[d] # copy[r].definitions[d]
  BY DEF DefinitionErrorsHaveACause, SendsNull
<1>0. TypeOK /\ OpInv /\ DefinitionsInv
  BY DEF RecordsInv
<1>k. op[r] \in Ops /\ op[r].kind \in DefinitionKinds
  BY <1>0, Kinds DEF TypeOK, Ops
<1>3. FlushDefinition(r) /\ RowRefused(r)
  <2>1. ~ UpdateRun(r) /\ ~ InsertChild(r)
    BY <1>k DEF UpdateRun, InsertChild, Asks, DefinitionKinds
  <2>2. ~ InsertEvent(r)
    BY <1>0, <1>k DEF InsertEvent, OpInv, Asks, DefinitionKinds
  <2> QED BY <2>1, <2>2, FailureIsAFlush
<1>4. Asks(r, DefinitionKinds) /\ Active(r) /\ DefinitionInv(r) /\ op[r].id \in Definitions
  BY <1>0, <1>3, <1>k, DefinitionFields DEF FlushDefinition, Asks, Active, DefinitionsInv
<1>5. PICK row : row = WrittenRow(r)
  OBVIOUS
<1>6. /\ row \in Rows
      /\ op[r].key \notin {Same, copy[r].definitions[op[r].id].key} => row.key = op[r].key
      /\ row.key = op[r].key \/ row.key = definitions[op[r].id].key
      /\ Asks(r, {"create_definition"}) => row.key = op[r].key
  BY <1>0, <1>4, <1>5, WrittenColumns
<1>7. row.key \in Keys /\ row.key # Null /\ row.key # Same /\ row.status # Null
  BY <1>6, NoValuesAssumption DEF Rows, DefinitionStatuses
<1>8. PICK d \in Definitions : definitions[d] # Absent /\ definitions[d].key = row.key /\ d # op[r].id
  BY <1>3, <1>5, <1>7 DEF RowRefused, Holders
<1>9. definitions[op[r].id].key # row.key
  BY <1>0, <1>4, <1>8 DEF DefinitionsInv
<1>10. op[r].key = row.key /\ op[r].key # Same
  BY <1>6, <1>7, <1>9
<1>11. ASSUME definitions[d] = copy[r].definitions[d] PROVE FALSE
  <2>1. d \in Holders(copy[r].definitions, op[r].key)
    BY <1>8, <1>10, <1>11 DEF Holders
  <2>2. Holders(copy[r].definitions, op[r].key) \subseteq {op[r].id}
    BY <1>4, <1>10 DEF DefinitionInv
  <2> QED BY <1>8, <2>1, <2>2
<1> QED BY <1>5, <1>8, <1>11

-----------------------------------------------------------------------------
(* The numbers of events: while the run is there, what a request has read of  *)
(* its events is still in the table, and a number chosen for the request by   *)
(* the service was free when it read them.                                    *)

ChoosesNumber(r) == Asks(r, {"append_event"}) /\ op[r].seq # NoNumber

NumberInv(r) ==
  Active(r) /\ op[r] \in RunOps /\ run # Deleted =>
    /\ copy[r].events \subseteq events
    /\ stage[r] \in {"numbered", "inserted"} =>
         IF ChoosesNumber(r) THEN sequence[r] = op[r].seq
                             ELSE sequence[r] \notin SequencesOf(copy[r].events)

NumbersInv == \A r \in Requests : NumberInv(r)

\* Events go only with the run.
LEMMA EventsStay ==
  ASSUME RecordsInv, NEW q \in Requests, Step(q)
  PROVE  /\ run' = Deleted \/ events \subseteq events'
         /\ run = Deleted => run' = Deleted
<1>0. RunRequestInv(q) /\ op[q] \in Ops /\ RowsInv
  BY DEF RecordsInv, RunInv, TypeOK, Ops
<1>1. CASE UNCHANGED database
  BY <1>1 DEF database
<1>2. CASE CommitDefinition(q) \/ CommitEvent(q) \/ CommitChild(q)
  BY <1>2 DEF CommitDefinition, CommitEvent, CommitChild
<1>3. CASE CreateRun(q)
  <2>1. run = NoRun
    BY <1>0, <1>3 DEF CreateRun, RunRequestInv, Active
  <2> QED BY <1>0, <2>1 DEF RowsInv, NoRun, Deleted
<1>4. CASE CommitStatus(q)
  <2>1. run # Deleted
    BY <1>0, <1>4 DEF CommitStatus, RunRequestInv, Active, Holds
  <2> QED BY <1>4, <2>1 DEF CommitStatus
<1>5. CASE CommitDelete(q)
  BY <1>5 DEF CommitDelete
<1> QED BY <1>1, <1>2, <1>3, <1>4, <1>5, DatabaseSteps

LEMMA NumbersKept ==
  ASSUME RecordsInv, NumbersInv, NEW q \in Requests, Step(q)
  PROVE  NumbersInv'
<1> USE DEF Answers
<1>0. TypeOK /\ RunInv /\ RowsInv /\ OpInv
  BY DEF RecordsInv, RunInv
<1>s. SUFFICES ASSUME NEW r \in Requests, Active(r)', op'[r] \in RunOps, run' # Deleted
               PROVE  NumberInv(r)'
  BY DEF NumbersInv, NumberInv
<1>d. run # Deleted /\ events \subseteq events'
  BY <1>s, EventsStay
<1>i. NumberInv(r)
  BY DEF NumbersInv
<1>u. ASSUME Unmoved(r) PROVE NumberInv(r)'
  BY <1>d, <1>i, <1>u DEF NumberInv, Unmoved, Active, ChoosesNumber, Asks
<1>o. CASE q # r
  <2>1. ASSUME NEW how \in Answers, End(q, how) PROVE Unmoved(r)
    BY <1>0, <1>o, <2>1, Ending
  <2>2. ASSUME NEW position, Goto(q, position), UNCHANGED <<copy, sequence>> PROVE Unmoved(r)
    BY <1>0, <1>o, <2>2, Going
  <2>3. Unmoved(r)
    BY <1>0, <1>o, <2>1, <2>2, Reading, Numbering
       DEF Step, Refuse, FlushDefinition, CommitDefinition, CreateRun, UpdateRun, InsertEvent, InsertChild,
           FlushDelete, CommitStatus, CommitEvent, CommitChild, CommitDelete, Abort
  <2> QED BY <1>u, <2>3
<1>c. CASE q = r
  <2>1. ASSUME NEW how \in Answers, End(r, how) PROVE FALSE
    BY <1>0, <1>s, <2>1, Ending DEF Active
  <2>2. ASSUME NEW o \in DefinitionOps \cup CreateRunOps \cup RunOps, Read(r, o) PROVE NumberInv(r)'
    <3>1. op'[r] = o /\ stage'[r] = "checked" /\ copy'[r] = Snapshot(o) /\ UNCHANGED database
      BY <1>0, <2>2, Reading DEF Read
    <3>2. o \in Ops /\ o \in RunOps
      BY <1>s, <3>1 DEF Ops
    <3>3. o \notin DefinitionOps
      BY <3>2, Kinds DEF DefinitionKinds, ChildKinds, RowKinds
    <3>4. copy'[r].events = events
      BY <1>0, <3>1, <3>3, SnapshotType
    <3> QED BY <3>1, <3>4 DEF NumberInv, database
  <2>3. ASSUME NEW position, Goto(r, position), UNCHANGED <<copy, sequence, events, run>>,
               Active(r), position = "inserted" => stage[r] = "numbered", position # "numbered"
        PROVE  NumberInv(r)'
    BY <1>0, <1>s, <1>i, <2>3, Going DEF NumberInv, ChoosesNumber, Asks
  <2>4. ASSUME Number(r) PROVE NumberInv(r)'
    <3>1. /\ op' = op /\ copy' = copy /\ UNCHANGED database
          /\ sequence'[r] = IF ChoosesNumber(r) THEN op[r].seq ELSE NextSequence(events)
      BY <1>0, <2>4, Numbering DEF Number, ChoosesNumber
    <3>2. copy[r].events \subseteq events
      BY <1>d, <1>s, <1>i, <2>4, <3>1 DEF NumberInv, Number, Active
    <3>3. \A s \in SequencesOf(events) : s < NextSequence(events) /\ s \in Nat
      BY <1>0, NextSequenceFollows, SequencesType DEF RowsInv
    <3>4. NextSequence(events) \notin SequencesOf(copy[r].events)
      BY <3>2, <3>3 DEF SequencesOf
    <3> QED BY <3>1, <3>2, <3>4 DEF NumberInv, ChoosesNumber, Asks, database
  <2> QED
    BY <1>c, <2>1, <2>2, <2>3, <2>4
       DEF Step, Refuse, FlushDefinition, CommitDefinition, CreateRun, UpdateRun, InsertEvent, InsertChild,
           FlushDelete, CommitStatus, CommitEvent, CommitChild, CommitDelete, Abort, Active, database
<1> QED BY <1>o, <1>c

\* What a request has read of the run's events is still there while the run is,
\* and next_event_sequence gives a number nobody had then.
THEOREM NumbersInvariant == Spec => [](RecordsInv /\ NumbersInv)
<1>1. Init => NumbersInv
  BY DEF Init, NumbersInv, NumberInv, Active
<1>2. RecordsInv /\ NumbersInv /\ [Next]_vars => NumbersInv'
  <2>1. ASSUME RecordsInv, NumbersInv, NEW q \in Requests, Step(q) PROVE NumbersInv'
    BY <2>1, NumbersKept
  <2>2. ASSUME NumbersInv, UNCHANGED vars PROVE NumbersInv'
    BY <2>2 DEF vars, database, NumbersInv, NumberInv, Active, ChoosesNumber, Asks
  <2> QED BY <2>1, <2>2 DEF Next
<1> QED BY <1>1, <1>2, InitRecordsInv, StepKeepsRecordsInv, PTL DEF Spec

LEMMA RunErrorsHold ==
  ASSUME RecordsInv, NumbersInv, [Next]_vars, NEW r \in Requests
  PROVE  RunErrorsHaveACause(r)
<1> SUFFICES ASSUME Fails(r), op[r] \in RunOps, run # Deleted
             PROVE  \/ Asks(r, {"append_step"}) /\ op[r].index \in steps
                    \/ Asks(r, {"append_event"}) /\ op[r].seq \in SequencesOf(events)
                    \/ /\ Asks(r, {"update_status", "append_event"})
                       /\ sequence[r] \in SequencesOf(events) \ SequencesOf(copy[r].events)
  BY DEF RunErrorsHaveACause
<1>0. op[r] \in Ops /\ OpInv /\ NumberInv(r)
  BY DEF RecordsInv, TypeOK, Ops, NumbersInv
<1>1. ~ FlushDefinition(r)
  BY <1>0, Kinds DEF FlushDefinition, DefinitionKinds, ChildKinds, RowKinds
<1>2. CASE InsertChild(r) /\ Asks(r, {"append_step"}) /\ op[r].index \in steps
  BY <1>2
<1>3. CASE InsertEvent(r) /\ NumberTaken(r)
  <2>1. stage[r] = "numbered" /\ sequence[r] \in SequencesOf(events)
    BY <1>3 DEF InsertEvent, NumberTaken
  <2>2. Asks(r, {"update_status", "append_event"})
    BY <1>0, <2>1 DEF OpInv
  <2>3. IF ChoosesNumber(r) THEN sequence[r] = op[r].seq
                            ELSE sequence[r] \notin SequencesOf(copy[r].events)
    BY <1>0, <2>1 DEF NumberInv, Active
  <2> QED BY <2>1, <2>2, <2>3 DEF ChoosesNumber
<1> QED BY <1>1, <1>2, <1>3, FailureIsAFlush

\* A step or event past its limit, and an error of the database that no service
\* catches, come from a race, from a null, from a number the caller has chosen,
\* or, past the limit of events, from update_status.
THEOREM ExcessAndErrorsCaused == Spec => ExcessAndErrorsHaveACause
<1>1. RecordsInv /\ NumbersInv /\ [Next]_vars =>
        \A r \in Requests : ExcessHasACause(r) /\ DefinitionErrorsHaveACause(r) /\ RunErrorsHaveACause(r)
  BY LimitsHold, ConstraintsHold, RunErrorsHold
<1> QED BY <1>1, NumbersInvariant, PTL DEF Spec, ExcessAndErrorsHaveACause

\* No update_definition that was read before an archive_definition undoes it by
\* writing back the status it has read.
THEOREM ArchivesStay == Spec => ArchivesAreUndoneOnPurpose
<1> DEFINE Undone(d) ==
      definitions[d].status = "archived" /\ definitions'[d].status # "archived" =>
        \E r \in Requests : Succeeds(r) /\ op[r].id = d /\ op[r].status \in {"active", "disabled"}
<1>1. ASSUME RecordsInv, [Next]_vars, NEW d \in Definitions PROVE Undone(d)
  <2> SUFFICES ASSUME definitions[d].status = "archived", definitions'[d].status # "archived"
               PROVE  \E r \in Requests : Succeeds(r) /\ op[r].id = d /\ op[r].status \in {"active", "disabled"}
    OBVIOUS
  <2>0. TypeOK /\ OpInv /\ DefinitionsInv
    BY <1>1 DEF RecordsInv
  <2>1. PICK q \in Requests : Step(q)
    BY <1>1 DEF vars, database, Next
  <2>2. CommitDefinition(q)
    BY <2>1, DatabaseSteps DEF database, CreateRun, CommitStatus, CommitEvent, CommitChild, CommitDelete
  <2>3. op[q].kind \in DefinitionKinds /\ Active(q) /\ stage[q] = "written"
    BY <2>0, <2>2, Kinds DEF TypeOK, Ops, CommitDefinition, Active
  <2>4. DefinitionInv(q) /\ answer[q] = "none" /\ ~ SendsNull(q)
    BY <2>0, <2>3 DEF DefinitionsInv, DefinitionInv, OpInv, Asks
  <2>5. answer'[q] = "ok"
    BY <2>0, <2>2, Ending DEF CommitDefinition, Answers
  <2>6. d = op[q].id /\ definitions'[d] = WrittenRow(q)
    BY <2>0, <2>2 DEF CommitDefinition, TypeOK
  <2>7. ~ Asks(q, {"create_definition"})
    BY <2>3, <2>4, <2>6 DEF DefinitionInv, Absent, Asks
  <2>8. op[q].status \in {"active", "disabled"}
    BY <2>0, <2>3, <2>4, <2>6, <2>7, WrittenColumns DEF Asks
  <2> QED BY <2>4, <2>5, <2>6, <2>8 DEF Succeeds
<1>2. RecordsInv /\ [Next]_vars => \A d \in Definitions : Undone(d)
  BY <1>1
<1> QED BY <1>2, RecordsInvariant, PTL DEF Spec, ArchivesAreUndoneOnPurpose
=============================================================================
