------------------------------ MODULE RunProofs ------------------------------
(* Proofs about runs: the run service, then the runtime an attempt goes to. *)
EXTENDS AgentRuns, AgentRuntime, FiniteSetTheorems, SequenceTheorems, TLAPS

(***************************************************************************)
(* Proofs about AgentRuns, for any number of cancelling requests and any   *)
(* number of events in an executor's or runtime's result.                  *)
(***************************************************************************)

-----------------------------------------------------------------------------
(* The parts of the inductive invariant. *)

\* A transaction that is open belongs to a stage that writes; one that has a
\* target passed validation; one that is closed holds nothing.
TransactionInv(p) ==
  /\ txn[p] # "closed" => stage[p] \in TransitionStages \cup NoteStages
  /\ target[p] # "none" =>
     /\ txn[p] # "closed"
     /\ stage[p] \in TransitionStages
     /\ target[p] \in Targets(p)
     /\ Validated(p, target[p])
  /\ txn[p] # "closed" /\ target[p] = "none" =>
     stage[p] \in NoteStages /\ txn[p] # "update"
  /\ txn[p] \in {"update", "select", "insert"} => notes[p] >= 1
  /\ stage[p] \in Stages \ ({"post", "cancel"} \cup Ended) => p = Owner

TransactionsInv == \A p \in Reqs : TransactionInv(p)

\* The row's lock is held by at most one transaction, from its UPDATE on.
LockInv ==
  /\ \A p, q \in rowLock : p = q
  /\ \A p \in Reqs :
       p \in rowLock <=> target[p] # "none" /\ txn[p] \in {"select", "insert", "commit"}

\* What a transaction has inserted: nothing before its first INSERT, its one
\* status event when it has a target, and only notes when it has none.
PendingInv ==
  \A p \in Reqs :
    /\ txn[p] \in {"closed", "update"} => pending[p] = {}
    /\ target[p] # "none" /\ txn[p] # "commit" => pending[p] = {} /\ notes[p] = 1
    /\ target[p] # "none" /\ txn[p] = "commit" => pending[p] = {EventOf(p)}
    /\ target[p] = "none" => \A e \in pending[p] : e.to = "none"

TypeInv == TypeOK /\ TransactionsInv

-----------------------------------------------------------------------------
(* Facts about the tables. *)

\* A legal transition is one between statuses.
LEMMA LegalTransitionType ==
  ASSUME NEW a, NEW b, Lifecycle!LegalTransition(a, b)
  PROVE  a \in RunStatuses /\ b \in RunStatuses
BY DEF Lifecycle!LegalTransition, RunStatuses, Lifecycle!RunStatuses,
       Lifecycle!RUN_STATUS_TRANSITIONS

\* next_event_sequence returns a number above all it has seen, just one above
\* the largest of them.
LEMMA NextSequenceFact ==
  ASSUME NEW rows, \A e \in rows : e.seq \in Nat,
         NEW n \in NextSequences(rows)
  PROVE  /\ n \in Nat
         /\ \A e \in rows : e.seq < n
         /\ n = 0 \/ n - 1 \in SequencesOf(rows)
<1>1. \A s \in SequencesOf(rows) : s \in Nat
  BY DEF SequencesOf
<1>2. n \in Nat /\ (n = 0 \/ n - 1 \in SequencesOf(rows))
  BY <1>1 DEF NextSequences
<1>3. \A e \in rows : e.seq < n
  BY DEF NextSequences, SequencesOf
<1> QED BY <1>2, <1>3

-----------------------------------------------------------------------------
(* Type correctness, with the structure of the transactions it rests on. *)

\* The type invariant holds initially.
LEMMA InitTypeInv == Init => TypeInv
<1> SUFFICES ASSUME Init PROVE TypeInv
  OBVIOUS
<1>1. TypeOK
  BY DEF Init, TypeOK, Stages, TxnPositions
<1>2. TransactionsInv
  BY DEF Init, TransactionsInv, TransactionInv
<1> QED BY <1>1, <1>2 DEF TypeInv

\* Every step keeps the type invariant.
LEMMA NextTypeInv == TypeInv /\ [Next]_vars => TypeInv'
<1> SUFFICES ASSUME TypeInv, [Next]_vars PROVE TypeInv'
  OBVIOUS
<1> USE OwnerAssumption, MaxNotesAssumption DEF TypeInv
<1>1. CASE Create
  <2> USE <1>1 DEF Create, session
  <2>1. Owner \in Reqs
    BY DEF Reqs
  <2>2. "requested" \in RunStatuses
    BY DEF RunStatuses, Lifecycle!RunStatuses
  <2>3. events' \subseteq Events
    BY <2>1, <2>2 DEF Events
  <2>4. TypeOK'
    BY <2>1, <2>2, <2>3 DEF TypeOK, Stages, TransitionStages
  <2>5. target[Owner] = "none" /\ txn[Owner] = "closed"
    BY <2>1 DEF TransactionsInv, TransactionInv, TransitionStages, NoteStages
  <2>6. TransactionsInv'
    BY <2>1, <2>5 DEF TypeOK, TransactionsInv, TransactionInv, Targets, Validated
  <2> QED BY <2>4, <2>6
<1>2. CASE BeginNotes
  <2>1. PICK n \in NoteCounts(Owner) : notes' = [notes EXCEPT ![Owner] = n]
    BY <1>2 DEF BeginNotes
  <2>2. n \in Nat /\ n >= 1
    BY <2>1 DEF NoteCounts
  <2>3. TypeOK'
    BY <1>2, <2>1, <2>2 DEF BeginNotes, TypeOK, database, Reqs, TxnPositions
  <2>4. TransactionsInv'
    BY <1>2, <2>1, <2>2 DEF BeginNotes, TypeOK, TransactionsInv, TransactionInv, Reqs, Targets, Validated
  <2> QED BY <2>3, <2>4
<1>3. CASE StageRaises
  BY <1>3 DEF StageRaises, TypeOK, TransactionsInv, TransactionInv, database, session, Reqs, Stages,
     NoteStages, TransitionStages, Targets, Validated
<1>4. CASE ContextRaisesInTransaction
  BY <1>4 DEF ContextRaisesInTransaction, TypeOK, TransactionsInv, TransactionInv, database, session, Reqs,
     Stages, Ended, NoteStages, TransitionStages, Targets, Validated
<1>5. CASE Recover
  BY <1>5 DEF Recover, TypeOK, TransactionsInv, TransactionInv, database, session, Reqs, Stages, Ended,
     NoteStages, TransitionStages, Targets, Validated
<1>6. ASSUME NEW c \in Cancellers, CancelReads(c) PROVE TypeInv'
  BY <1>6 DEF CancelReads, TypeOK, TransactionsInv, TransactionInv, database, session, Reqs, Stages,
     NoteStages, TransitionStages, Targets, Validated
<1>7. ASSUME NEW c \in Cancellers, CancelFindsNoRun(c) PROVE TypeInv'
  BY <1>7 DEF CancelFindsNoRun, TypeOK, TransactionsInv, TransactionInv, database, session, Reqs, Stages,
     Ended, NoteStages, TransitionStages, Targets, Validated
<1>8. ASSUME NEW p \in Reqs, BeginTransition(p) PROVE TypeInv'
  <2>1. PICK goal \in Targets(p) :
          Validated(p, goal) /\ target' = [target EXCEPT ![p] = goal]
    BY <1>8 DEF BeginTransition
  <2>2. goal \in RunStatuses
    BY <2>1, LegalTransitionType DEF Validated
  <2>3. TypeOK'
    BY <1>8, <2>1, <2>2 DEF BeginTransition, TypeOK, database, TxnPositions
  <2>4. TransactionsInv'
    BY <1>8, <2>1, <2>2 DEF BeginTransition, TypeOK, TransactionsInv, TransactionInv, Targets, Validated,
       TransitionStages, NoteStages, RunStatuses, Lifecycle!RunStatuses
  <2> QED BY <2>3, <2>4
<1>9. ASSUME NEW p \in Reqs, RefuseTransition(p) PROVE TypeInv'
  BY <1>9 DEF RefuseTransition, TypeOK, TransactionsInv, TransactionInv, database, session, Stages, Ended,
     NoteStages, TransitionStages, Targets, Validated
<1>10. ASSUME NEW p \in Reqs, UpdateRow(p) PROVE TypeInv'
  BY <1>10 DEF UpdateRow, TypeOK, TransactionsInv, TransactionInv, TxnPositions, Targets, Validated
<1>11. ASSUME NEW p \in Reqs, SelectSequence(p) PROVE TypeInv'
  <2>1. PICK n \in NextSequences(events \cup pending[p]) :
          sequence' = [sequence EXCEPT ![p] = n]
    BY <1>11 DEF SelectSequence
  <2>2. \A e \in events \cup pending[p] : e.seq \in Nat
    BY DEF TypeOK, Events
  <2>3. n \in Nat
    BY <2>1, <2>2, NextSequenceFact
  <2>4. TypeOK'
    BY <1>11, <2>1, <2>3 DEF SelectSequence, TypeOK, database, TxnPositions
  <2>5. TransactionsInv'
    BY <1>11 DEF SelectSequence, TypeOK, TransactionsInv, TransactionInv, Targets, Validated
  <2> QED BY <2>4, <2>5
<1>12. ASSUME NEW p \in Reqs, InsertEvent(p) PROVE TypeInv'
  <2>1. EventOf(p) \in Events
    <3>1. target[p] # "none" => view[p] \in RunStatuses
      BY LegalTransitionType DEF TransactionsInv, TransactionInv, Validated
    <3> QED BY <3>1 DEF EventOf, Events, TypeOK
  <2>2. notes[p] - 1 \in Nat /\ (notes[p] > 1 => notes[p] - 1 >= 1)
    BY <1>12 DEF InsertEvent, TypeOK, TransactionsInv, TransactionInv
  <2>3. TypeOK'
    BY <1>12, <2>1, <2>2 DEF InsertEvent, TypeOK, database, TxnPositions
  <2>4. TransactionsInv'
    BY <1>12, <2>2 DEF InsertEvent, TypeOK, TransactionsInv, TransactionInv, Targets, Validated
  <2> QED BY <2>3, <2>4
<1>13. ASSUME NEW p \in Reqs, InsertConflicts(p) PROVE TypeInv'
  BY <1>13 DEF InsertConflicts, Rollback, EndTransaction, TypeOK, TransactionsInv, TransactionInv, TxnPositions,
     Stages, Ended, NoteStages, TransitionStages, Targets, Validated
<1>14. ASSUME NEW p \in Reqs, Abort(p) PROVE TypeInv'
  BY <1>14 DEF Abort, Rollback, EndTransaction, TypeOK, TransactionsInv, TransactionInv, TxnPositions,
     Stages, Ended, NoteStages, TransitionStages, Targets, Validated
<1>15. ASSUME NEW p \in Reqs, Commit(p) PROVE TypeInv'
  <2>1. stage[p] \in TransitionStages \cup NoteStages
    BY <1>15 DEF Commit, WriteRow, TransactionsInv, TransactionInv
  <2>2. NextStage(p) \in Stages
    BY <2>1 DEF NextStage, Stages, TransitionStages, NoteStages, Ended
  <2>3. NextStage(p) \in Stages \ ({"post", "cancel"} \cup Ended) => p = Owner
    <3>1. stage[p] = "cancel" \/ p = Owner
      BY <2>1 DEF TransactionsInv, TransactionInv, Stages, TransitionStages, NoteStages, Ended
    <3> QED BY <3>1 DEF NextStage, Ended
  <2>4. TypeOK'
    <3>1. EndTransaction(p) => /\ rowLock' \subseteq Reqs
                               /\ txn' \in [Reqs -> TxnPositions]
                               /\ target' \in [Reqs -> RunStatuses \cup {"none"}]
                               /\ notes' \in [Reqs -> Nat]
                               /\ sequence' \in [Reqs -> Nat]
                               /\ pending' \in [Reqs -> SUBSET Events]
      BY DEF EndTransaction, TypeOK, TxnPositions
    <3>2. events' \subseteq Events /\ stage' \in [Reqs -> Stages]
      BY <1>15, <2>2 DEF Commit, WriteRow, TypeOK
    <3>3. /\ status' \in RunStatuses \cup {"absent"}
          /\ completedAt' \in BOOLEAN
          /\ audits' \in Nat
          /\ view' \in [Reqs -> RunStatuses \cup {"absent"}]
      <4>1. CASE target[p] = "none"
        BY <1>15, <4>1 DEF Commit, WriteRow, TypeOK
      <4>2. CASE target[p] # "none"
        BY <1>15, <4>2 DEF Commit, WriteRow, TypeOK
      <4> QED BY <4>1, <4>2
    <3> QED BY <1>15, <3>1, <3>2, <3>3 DEF Commit, WriteRow, TypeOK
  <2>5. TransactionsInv'
    <3> SUFFICES ASSUME NEW q \in Reqs PROVE TransactionInv(q)'
      BY DEF TransactionsInv
    <3>1. CASE q = p
      BY <1>15, <2>2, <2>3, <3>1 DEF Commit, WriteRow, EndTransaction, TypeOK, TransactionInv
    <3>2. CASE q # p
      <4>1. /\ txn'[q] = txn[q] /\ stage'[q] = stage[q] /\ target'[q] = target[q]
            /\ notes'[q] = notes[q] /\ view'[q] = view[q]
        BY <1>15, <3>2 DEF Commit, WriteRow, EndTransaction, TypeOK
      <4> QED BY <4>1 DEF TransactionsInv, TransactionInv, Targets, Validated
    <3> QED BY <3>1, <3>2
  <2> QED BY <2>4, <2>5
<1>16. CASE UNCHANGED vars
  BY <1>16 DEF vars, database, session, TypeOK, TransactionsInv, TransactionInv, Targets, Validated
<1> QED
  BY <1>1, <1>2, <1>3, <1>4, <1>5, <1>6, <1>7, <1>8, <1>9, <1>10, <1>11, <1>12, <1>13,
     <1>14, <1>15, <1>16 DEF Next, OwnerStep, CancelStep, WriteStep

\* Every variable keeps its type.
THEOREM TypeCorrect == Spec => []TypeOK
<1>1. TypeInv => TypeOK
  BY DEF TypeInv
<1> QED BY <1>1, InitTypeInv, NextTypeInv, PTL DEF Spec

-----------------------------------------------------------------------------
(* The event log: the inductive invariant of its sequence numbers. *)

\* Before the run is inserted no request has done anything to it.
CreatedInv ==
  /\ stage[Owner] = "post" => status = "absent"
  /\ status = "absent" =>
     /\ events = {} /\ ~ completedAt
     /\ \A p \in Reqs : /\ stage[p] \in {"post", "raised"}
                        /\ txn[p] = "closed" /\ pending[p] = {}

\* What a transaction has inserted lies above every committed event and leaves
\* no gap above them.
PendingAboveLog ==
  \A p \in Reqs : \A e \in pending[p] :
    /\ \A f \in events : f.seq < e.seq
    /\ \A n \in 0 .. e.seq : n \in SequencesOf(events \cup pending[p])

\* A sequence number a transaction was given may be taken by now, but every
\* number below it is one it sees, and its own rows lie below it.
SequenceIsNext ==
  \A p \in Reqs : txn[p] = "insert" =>
    /\ \A n \in 0 .. sequence[p] - 1 : n \in SequencesOf(events \cup pending[p])
    /\ \A e \in pending[p] : e.seq < sequence[p]

\* The unique index lets one transaction at a time insert events.
OneWriter == \A p, q \in Reqs : pending[p] # {} /\ pending[q] # {} => p = q

\* Rows with the same sequence number are the same row.
RowsAreUnique ==
  /\ \A e, f \in events : e.seq = f.seq => e = f
  /\ \A p \in Reqs : \A e, f \in pending[p] : e.seq = f.seq => e = f

SequenceInv ==
  /\ CreatedInv
  /\ EventSequencesHaveNoGap
  /\ PendingAboveLog
  /\ SequenceIsNext
  /\ OneWriter
  /\ RowsAreUnique

\* The steps that leave the database and every transaction alone.
QuietStep == UNCHANGED <<database, session>>

\* What a step can do to the database and to the transactions.
LEMMA StepKinds ==
  ASSUME Next
  PROVE  \/ Create
         \/ QuietStep
         \/ BeginNotes
         \/ \E p \in Reqs : \/ BeginTransition(p) \/ UpdateRow(p)
                            \/ SelectSequence(p) \/ InsertEvent(p)
                            \/ Commit(p) \/ Rollback(p)
BY DEF Next, OwnerStep, CancelStep, WriteStep, StageRaises, ContextRaisesInTransaction, Recover,
       CancelReads, CancelFindsNoRun, RefuseTransition, InsertConflicts, Abort, QuietStep

\* The invariant of the sequence numbers holds initially.
LEMMA InitSequenceInv == Init => SequenceInv
BY DEF Init, SequenceInv, CreatedInv, EventSequencesHaveNoGap, PendingAboveLog, SequenceIsNext,
       OneWriter, RowsAreUnique

\* Every step keeps the first part of it.
LEMMA NextCreatedInv == TypeInv /\ CreatedInv /\ [Next]_vars => CreatedInv'
<1> SUFFICES ASSUME TypeInv, CreatedInv, [Next]_vars PROVE CreatedInv'
  OBVIOUS
<1> USE OwnerAssumption DEF TypeInv
<1>1. CASE Create
  BY <1>1 DEF Create, session, TypeOK, CreatedInv, Reqs
<1>2. CASE BeginNotes
  BY <1>2 DEF BeginNotes, TypeOK, CreatedInv, Reqs, database, NoteStages
<1>3. CASE StageRaises
  BY <1>3 DEF StageRaises, TypeOK, CreatedInv, Reqs, database, session, NoteStages
<1>4. CASE ContextRaisesInTransaction
  BY <1>4 DEF ContextRaisesInTransaction, TypeOK, CreatedInv, Reqs, database, session
<1>5. CASE Recover
  BY <1>5 DEF Recover, TypeOK, CreatedInv, Reqs, database, session
<1>6. ASSUME NEW c \in Cancellers, CancelReads(c) PROVE CreatedInv'
  BY <1>6 DEF CancelReads, TypeOK, CreatedInv, Reqs, database, session
<1>7. ASSUME NEW c \in Cancellers, CancelFindsNoRun(c) PROVE CreatedInv'
  BY <1>7 DEF CancelFindsNoRun, TypeOK, CreatedInv, Reqs, database, session
<1>8. ASSUME NEW p \in Reqs, BeginTransition(p) PROVE CreatedInv'
  BY <1>8 DEF BeginTransition, TypeOK, CreatedInv, database, TransitionStages
<1>9. ASSUME NEW p \in Reqs, RefuseTransition(p) PROVE CreatedInv'
  BY <1>9 DEF RefuseTransition, TypeOK, CreatedInv, database, session, TransitionStages
<1>10. ASSUME NEW p \in Reqs, UpdateRow(p) PROVE CreatedInv'
  BY <1>10 DEF UpdateRow, TypeOK, CreatedInv
<1>11. ASSUME NEW p \in Reqs, SelectSequence(p) PROVE CreatedInv'
  BY <1>11 DEF SelectSequence, TypeOK, CreatedInv, database
<1>12. ASSUME NEW p \in Reqs, InsertEvent(p) PROVE CreatedInv'
  BY <1>12 DEF InsertEvent, TypeOK, CreatedInv, database
<1>13. ASSUME NEW p \in Reqs, InsertConflicts(p) PROVE CreatedInv'
  BY <1>13 DEF InsertConflicts, Rollback, EndTransaction, TypeOK, CreatedInv
<1>14. ASSUME NEW p \in Reqs, Abort(p) PROVE CreatedInv'
  BY <1>14 DEF Abort, Rollback, EndTransaction, TypeOK, CreatedInv, Ended
<1>15. ASSUME NEW p \in Reqs, Commit(p) PROVE CreatedInv'
  <2>1. status # "absent" /\ stage[Owner] # "post"
    BY <1>15 DEF Commit, WriteRow, CreatedInv
  <2>2. status' # "absent"
    BY <1>15, <2>1 DEF Commit, WriteRow, TypeOK, RunStatuses, Lifecycle!RunStatuses
  <2>3. NextStage(p) # "post"
    BY <1>15 DEF Commit, WriteRow, TransactionsInv, TransactionInv, NextStage, TransitionStages, NoteStages
  <2>4. stage'[Owner] # "post"
    BY <1>15, <2>1, <2>3 DEF Commit, WriteRow, TypeOK, Reqs
  <2> QED BY <2>2, <2>4 DEF CreatedInv
<1>16. CASE UNCHANGED vars
  BY <1>16 DEF vars, database, session, CreatedInv
<1> QED
  BY <1>1, <1>2, <1>3, <1>4, <1>5, <1>6, <1>7, <1>8, <1>9, <1>10, <1>11, <1>12, <1>13,
     <1>14, <1>15, <1>16 DEF Next, OwnerStep, CancelStep, WriteStep

\* The sequence numbers of all rows, committed or not, are natural numbers.
LEMMA SequenceTypes ==
  ASSUME TypeInv
  PROVE  /\ \A f \in events : f.seq \in Nat
         /\ \A p \in Reqs : sequence[p] \in Nat /\ \A e \in pending[p] : e.seq \in Nat
<1>1. \A e \in Events : e.seq \in Nat
  BY DEF Events
<1>2. events \subseteq Events /\ \A p \in Reqs : sequence[p] \in Nat /\ pending[p] \subseteq Events
  BY DEF TypeInv, TypeOK
<1> QED BY <1>1, <1>2

\* The index lets an INSERT through only at the end of the log, where no other
\* transaction has a row.
LEMMA FreeSequence ==
  ASSUME TypeInv, SequenceInv, NEW p \in Reqs, InsertEvent(p)
  PROVE  /\ \A f \in events : f.seq < sequence[p]
         /\ \A q \in Reqs \ {p} : pending[q] = {}
         /\ \A n \in 0 .. sequence[p] : n \in SequencesOf(events \cup pending[p]) \cup {sequence[p]}
<1>1. sequence[p] \in Nat /\ \A f \in events : f.seq \in Nat
  BY SequenceTypes
<1>2. sequence[p] \notin SequencesOf(events)
  BY DEF InsertEvent, Taken
<1>3. \A f \in events : f.seq < sequence[p]
  BY <1>1, <1>2 DEF SequenceInv, EventSequencesHaveNoGap
<1>4. \A n \in 0 .. sequence[p] - 1 : n \in SequencesOf(events \cup pending[p])
  BY DEF SequenceInv, SequenceIsNext, InsertEvent
<1>5. ASSUME NEW q \in Reqs \ {p}, NEW e \in pending[q] PROVE FALSE
  <2>1. e.seq \in Nat
    BY SequenceTypes
  <2>2. sequence[p] \notin SequencesOf(pending[q])
    BY DEF InsertEvent, Taken
  <2>3. CASE sequence[p] <= e.seq
    <3>1. sequence[p] \in SequencesOf(events \cup pending[q])
      BY <1>1, <2>1, <2>3 DEF SequenceInv, PendingAboveLog
    <3> QED BY <3>1, <1>2, <2>2 DEF SequencesOf
  <2>4. CASE e.seq < sequence[p]
    <3>1. e.seq \in SequencesOf(events \cup pending[p])
      BY <1>1, <1>4, <2>1, <2>4
    <3>2. \A f \in events : f.seq # e.seq
      <4>1. \A f \in events : f.seq < e.seq
        BY DEF SequenceInv, PendingAboveLog
      <4> QED BY <4>1, <2>1, <1>1
    <3>3. pending[p] # {}
      BY <3>1, <3>2 DEF SequencesOf
    <3> QED BY <3>3 DEF SequenceInv, OneWriter
  <2> QED BY <1>1, <2>1, <2>3, <2>4
<1>6. \A n \in 0 .. sequence[p] : n \in 0 .. sequence[p] - 1 \/ n = sequence[p]
  BY <1>1
<1>7. \A n \in 0 .. sequence[p] : n \in SequencesOf(events \cup pending[p]) \cup {sequence[p]}
  BY <1>4, <1>6
<1>8. \A q \in Reqs \ {p} : pending[q] = {}
  BY <1>5
<1> QED BY <1>3, <1>7, <1>8

\* Every step keeps the invariant of the sequence numbers.
LEMMA NextSequenceInv == TypeInv /\ SequenceInv /\ [Next]_vars => SequenceInv'
<1> SUFFICES ASSUME TypeInv, SequenceInv, [Next]_vars PROVE SequenceInv'
  OBVIOUS
<1>0. CreatedInv'
  BY NextCreatedInv DEF SequenceInv
<1> DEFINE Rest == /\ EventSequencesHaveNoGap /\ PendingAboveLog /\ SequenceIsNext
                   /\ OneWriter /\ RowsAreUnique
<1> SUFFICES Rest'
  BY <1>0 DEF SequenceInv
<1>1. CASE Create
  <2>1. \A p \in Reqs : txn[p] = "closed" /\ pending[p] = {}
    BY <1>1 DEF Create, SequenceInv, CreatedInv
  <2>2. /\ events' = {[seq |-> 0, from |-> "none", to |-> "requested", by |-> Owner]}
        /\ txn' = txn /\ pending' = pending
    BY <1>1 DEF Create, session
  <2>3. EventSequencesHaveNoGap'
    BY <2>2 DEF EventSequencesHaveNoGap, SequencesOf
  <2> QED BY <2>1, <2>2, <2>3 DEF PendingAboveLog, SequenceIsNext, OneWriter, RowsAreUnique
<1>2. CASE QuietStep \/ UNCHANGED vars
  BY <1>2 DEF QuietStep, vars, database, session, SequenceInv, EventSequencesHaveNoGap, PendingAboveLog,
     SequenceIsNext, OneWriter, RowsAreUnique
<1>3. CASE BeginNotes
  BY <1>3 DEF BeginNotes, database, TypeInv, TypeOK, Reqs, SequenceInv, EventSequencesHaveNoGap, PendingAboveLog,
     SequenceIsNext, OneWriter, RowsAreUnique
<1>4. ASSUME NEW p \in Reqs, BeginTransition(p) PROVE Rest'
  BY <1>4 DEF BeginTransition, database, TypeInv, TypeOK, SequenceInv, EventSequencesHaveNoGap, PendingAboveLog,
     SequenceIsNext, OneWriter, RowsAreUnique
<1>5. ASSUME NEW p \in Reqs, UpdateRow(p) PROVE Rest'
  BY <1>5 DEF UpdateRow, TypeInv, TypeOK, SequenceInv, EventSequencesHaveNoGap, PendingAboveLog,
     SequenceIsNext, OneWriter, RowsAreUnique
<1>6. ASSUME NEW p \in Reqs, SelectSequence(p) PROVE Rest'
  <2>1. PICK n \in NextSequences(events \cup pending[p]) :
          sequence' = [sequence EXCEPT ![p] = n]
    BY <1>6 DEF SelectSequence
  <2>2. /\ events' = events /\ pending' = pending
        /\ \A q \in Reqs \ {p} : txn'[q] = txn[q] /\ sequence'[q] = sequence[q]
        /\ sequence'[p] = n
    BY <1>6, <2>1 DEF SelectSequence, database, TypeInv, TypeOK
  <2>3. \A e \in events \cup pending[p] : e.seq \in Nat
    BY SequenceTypes
  <2>4. /\ n \in Nat
        /\ \A e \in events \cup pending[p] : e.seq < n
        /\ n = 0 \/ n - 1 \in SequencesOf(events \cup pending[p])
    BY <2>1, <2>3, NextSequenceFact
  <2>5. \A m \in 0 .. n - 1 : m \in SequencesOf(events \cup pending[p])
    <3> SUFFICES ASSUME NEW m \in 0 .. n - 1
                 PROVE  m \in SequencesOf(events \cup pending[p])
      OBVIOUS
    <3>1. PICK e \in events \cup pending[p] : e.seq = n - 1
      BY <2>4 DEF SequencesOf
    <3>2. CASE e \in events
      BY <3>1, <3>2, <2>4 DEF SequenceInv, EventSequencesHaveNoGap, SequencesOf
    <3>3. CASE e \in pending[p]
      BY <3>1, <3>3, <2>4 DEF SequenceInv, PendingAboveLog
    <3> QED BY <3>2, <3>3
  <2>6. SequenceIsNext'
    BY <2>2, <2>4, <2>5 DEF SequenceInv, SequenceIsNext
  <2> QED BY <2>2, <2>6 DEF SequenceInv, EventSequencesHaveNoGap, PendingAboveLog, OneWriter, RowsAreUnique
<1>7. ASSUME NEW p \in Reqs, InsertEvent(p) PROVE Rest'
  <2>1. /\ \A f \in events : f.seq < sequence[p]
        /\ \A q \in Reqs \ {p} : pending[q] = {}
        /\ \A n \in 0 .. sequence[p] : n \in SequencesOf(events \cup pending[p]) \cup {sequence[p]}
    BY <1>7, FreeSequence
  <2>2. /\ events' = events /\ sequence' = sequence
        /\ pending'[p] = pending[p] \cup {EventOf(p)}
        /\ \A q \in Reqs \ {p} : pending'[q] = {} /\ txn'[q] = txn[q]
        /\ txn'[p] # "insert"
    BY <1>7, <2>1 DEF InsertEvent, database, TypeInv, TypeOK
  <2>3. EventOf(p).seq = sequence[p]
    BY DEF EventOf
  <2>4. \A e \in pending[p] : e.seq < sequence[p] /\ e.seq \in Nat
    BY <1>7, SequenceTypes DEF InsertEvent, SequenceInv, SequenceIsNext
  <2>5. SequencesOf(events \cup pending[p]) \cup {sequence[p]}
          \subseteq SequencesOf(events' \cup pending'[p])
    BY <2>2, <2>3 DEF SequencesOf
  <2>6. PendingAboveLog'
    <3> SUFFICES ASSUME NEW e \in pending'[p]
                 PROVE  /\ \A f \in events : f.seq < e.seq
                        /\ \A n \in 0 .. e.seq : n \in SequencesOf(events' \cup pending'[p])
      BY <2>2 DEF PendingAboveLog
    <3>1. CASE e = EventOf(p)
      BY <3>1, <2>1, <2>3, <2>5
    <3>2. CASE e \in pending[p]
      BY <3>2, <2>5 DEF SequenceInv, PendingAboveLog
    <3> QED BY <3>1, <3>2, <2>2
  <2>7. SequenceIsNext'
    <3> SUFFICES ASSUME NEW q \in Reqs, txn'[q] = "insert"
                 PROVE  /\ \A n \in 0 .. sequence'[q] - 1 : n \in SequencesOf(events' \cup pending'[q])
                        /\ \A e \in pending'[q] : e.seq < sequence'[q]
      BY DEF SequenceIsNext
    <3>1. q # p /\ pending'[q] = pending[q] /\ txn[q] = "insert"
      BY <2>1, <2>2
    <3> QED BY <3>1, <2>2 DEF SequenceInv, SequenceIsNext
  <2>8. OneWriter'
    BY <2>2 DEF OneWriter
  <2>9. RowsAreUnique'
    BY <2>2, <2>3, <2>4 DEF SequenceInv, RowsAreUnique
  <2> QED BY <2>2, <2>6, <2>7, <2>8, <2>9 DEF SequenceInv, EventSequencesHaveNoGap
<1>8. ASSUME NEW p \in Reqs, Commit(p) PROVE Rest'
  <2>1. /\ events' = events \cup pending[p]
        /\ pending'[p] = {} /\ txn'[p] = "closed"
        /\ \A q \in Reqs \ {p} : /\ pending'[q] = pending[q] /\ txn'[q] = txn[q]
                                 /\ sequence'[q] = sequence[q]
    BY <1>8 DEF Commit, WriteRow, EndTransaction, TypeInv, TypeOK
  <2>2. \A e \in events \cup pending[p] : e.seq \in Nat
    BY DEF TypeInv, TypeOK, Events
  <2>3. EventSequencesHaveNoGap'
    <3>1. ASSUME NEW e \in events, NEW n \in 0 .. e.seq
          PROVE  n \in SequencesOf(events \cup pending[p])
      BY DEF SequenceInv, EventSequencesHaveNoGap, SequencesOf
    <3>2. ASSUME NEW e \in pending[p], NEW n \in 0 .. e.seq
          PROVE  n \in SequencesOf(events \cup pending[p])
      BY DEF SequenceInv, PendingAboveLog
    <3> QED BY <3>1, <3>2, <2>1 DEF EventSequencesHaveNoGap
  <2>4. \A q \in Reqs \ {p} : pending'[q] # {} => events' = events
    BY <2>1 DEF SequenceInv, OneWriter
  <2>5. PendingAboveLog'
    BY <2>1, <2>4 DEF SequenceInv, PendingAboveLog
  <2>6. SequenceIsNext'
    <3> SUFFICES ASSUME NEW q \in Reqs, txn'[q] = "insert"
                 PROVE  /\ \A n \in 0 .. sequence'[q] - 1 : n \in SequencesOf(events' \cup pending'[q])
                        /\ \A e \in pending'[q] : e.seq < sequence'[q]
      BY DEF SequenceIsNext
    <3>1. q # p
      BY <2>1
    <3>2. /\ \A n \in 0 .. sequence[q] - 1 : n \in SequencesOf(events \cup pending[q])
          /\ \A e \in pending[q] : e.seq < sequence[q]
      BY <3>1, <2>1 DEF SequenceInv, SequenceIsNext
    <3>3. SequencesOf(events \cup pending[q]) \subseteq SequencesOf(events' \cup pending'[q])
      BY <3>1, <2>1 DEF SequencesOf
    <3> QED BY <3>1, <3>2, <3>3, <2>1
  <2>7. OneWriter'
    BY <2>1 DEF SequenceInv, OneWriter
  <2>8. RowsAreUnique'
    <3>1. \A e \in pending[p], f \in events : f.seq < e.seq
      BY DEF SequenceInv, PendingAboveLog
    <3>2. \A e \in pending[p], f \in events : e.seq # f.seq
      BY <3>1, <2>2
    <3> QED BY <3>2, <2>1 DEF SequenceInv, RowsAreUnique
  <2> QED BY <2>3, <2>5, <2>6, <2>7, <2>8
<1>9. ASSUME NEW p \in Reqs, Rollback(p) PROVE Rest'
  <2>1. /\ events' = events
        /\ pending'[p] = {} /\ txn'[p] = "closed"
        /\ \A q \in Reqs \ {p} : /\ pending'[q] = pending[q] /\ txn'[q] = txn[q]
                                 /\ sequence'[q] = sequence[q]
    BY <1>9 DEF Rollback, EndTransaction, TypeInv, TypeOK
  <2> QED BY <2>1 DEF SequenceInv, EventSequencesHaveNoGap, PendingAboveLog,
                      SequenceIsNext, OneWriter, RowsAreUnique
<1> QED
  BY <1>1, <1>2, <1>3, <1>4, <1>5, <1>6, <1>7, <1>8, <1>9, StepKinds

\* No two events of a run share a sequence number.
THEOREM SequencesUnique == Spec => []EventSequencesAreUnique
<1>1. ASSUME TypeInv, SequenceInv PROVE EventSequencesAreUnique
  <2>1. \A p \in Reqs : \A e \in pending[p], f \in events : e.seq # f.seq
    <3>1. \A p \in Reqs : \A e \in pending[p], f \in events : f.seq < e.seq
      BY <1>1 DEF SequenceInv, PendingAboveLog
    <3> QED BY <3>1, <1>1, SequenceTypes
  <2> QED BY <2>1, <1>1 DEF SequenceInv, OneWriter, RowsAreUnique, EventSequencesAreUnique
<1> QED BY <1>1, InitTypeInv, NextTypeInv, InitSequenceInv, NextSequenceInv, PTL DEF Spec

\* The sequence numbers of a run's events leave no gap.
THEOREM SequencesHaveNoGap == Spec => []EventSequencesHaveNoGap
<1>1. SequenceInv => EventSequencesHaveNoGap
  BY DEF SequenceInv
<1> QED BY <1>1, InitTypeInv, NextTypeInv, InitSequenceInv, NextSequenceInv, PTL DEF Spec

\* The log is numbered exactly, at any time.
THEOREM SequencesExact == Spec => []SequencesAreExact
BY SequencesUnique, SequencesHaveNoGap, PTL DEF SequencesAreExact

\* A step only adds events above the ones that were there.
LEMMA StepGrowsLog ==
  ASSUME TypeInv, SequenceInv, [Next]_vars
  PROVE  /\ events \subseteq events'
         /\ \A e \in events' \ events, f \in events : f.seq < e.seq
<1>1. CASE Create
  BY <1>1 DEF Create, SequenceInv, CreatedInv
<1>2. CASE QuietStep \/ UNCHANGED vars \/ BeginNotes
  BY <1>2 DEF QuietStep, vars, database, BeginNotes
<1>3. ASSUME NEW p \in Reqs, Commit(p)
      PROVE  /\ events \subseteq events'
             /\ \A e \in events' \ events, f \in events : f.seq < e.seq
  BY <1>3 DEF Commit, WriteRow, SequenceInv, PendingAboveLog
<1>4. ASSUME NEW p \in Reqs,
             \/ BeginTransition(p) \/ UpdateRow(p) \/ SelectSequence(p)
             \/ InsertEvent(p) \/ Rollback(p)
      PROVE  events' = events
  BY <1>4 DEF BeginTransition, UpdateRow, SelectSequence, InsertEvent, Rollback, database
<1> QED BY <1>1, <1>2, <1>3, <1>4, StepKinds

\* Events become visible in the order of their numbers, and none goes away.
THEOREM LogGrows == Spec => LogGrowsAtItsEnd
<1>1. TypeInv /\ SequenceInv /\ [Next]_vars =>
        [ /\ events \subseteq events'
          /\ \A e \in events' \ events, f \in events : f.seq < e.seq ]_vars
  BY StepGrowsLog
<1> QED
  BY <1>1, InitTypeInv, NextTypeInv, InitSequenceInv, NextSequenceInv, PTL DEF Spec, LogGrowsAtItsEnd

-----------------------------------------------------------------------------
(* The run's row against its log. *)

\* Every step keeps the row's lock exclusive.
LEMMA NextLockInv == TypeInv /\ LockInv /\ [Next]_vars => LockInv'
<1> SUFFICES ASSUME TypeInv, LockInv, [Next]_vars PROVE LockInv'
  OBVIOUS
<1> USE DEF TypeInv, TypeOK, LockInv
<1>1. CASE Create
  BY <1>1 DEF Create, session
<1>2. CASE QuietStep \/ UNCHANGED vars
  BY <1>2 DEF QuietStep, vars, database, session
<1>3. CASE BeginNotes
  BY <1>3 DEF BeginNotes, database, Reqs, TransactionsInv, TransactionInv
<1>4. ASSUME NEW p \in Reqs, BeginTransition(p) PROVE LockInv'
  BY <1>4 DEF BeginTransition, database, TransactionsInv, TransactionInv
<1>5. ASSUME NEW p \in Reqs, UpdateRow(p) PROVE LockInv'
  BY <1>5 DEF UpdateRow, TransactionsInv, TransactionInv
<1>6. ASSUME NEW p \in Reqs, SelectSequence(p) PROVE LockInv'
  BY <1>6 DEF SelectSequence, database
<1>7. ASSUME NEW p \in Reqs, InsertEvent(p) PROVE LockInv'
  BY <1>7 DEF InsertEvent, database
<1>8. ASSUME NEW p \in Reqs, Commit(p) PROVE LockInv'
  BY <1>8 DEF Commit, WriteRow, EndTransaction
<1>9. ASSUME NEW p \in Reqs, Rollback(p) PROVE LockInv'
  BY <1>9 DEF Rollback, EndTransaction
<1> QED BY <1>1, <1>2, <1>3, <1>4, <1>5, <1>6, <1>7, <1>8, <1>9, StepKinds

\* A step that leaves the transactions alone leaves the copies alone that an
\* open one writes from.
LEMMA QuietKeepsViews ==
  ASSUME TypeInv, CreatedInv, Next, QuietStep, NEW p \in Reqs, txn[p] # "closed"
  PROVE  view'[p] = view[p]
<1>1. stage[p] \in TransitionStages \cup NoteStages
  BY DEF TypeInv, TransactionsInv, TransactionInv
<1>2. stage[p] \notin {"post", "recover"}
  BY <1>1 DEF TransitionStages, NoteStages
<1>3. CASE OwnerStep
  <2>1. ~ Create
    BY DEF Create, QuietStep, database, CreatedInv
  <2> QED
    BY <1>2, <1>3 DEF OwnerStep, Create, BeginNotes, StageRaises, ContextRaisesInTransaction, Recover,
       TypeInv, TypeOK, Reqs
<1>4. ASSUME NEW c \in Cancellers, CancelStep(c) PROVE view'[p] = view[p]
  BY <1>2, <1>4 DEF CancelStep, CancelReads, CancelFindsNoRun, TypeInv, TypeOK
<1>5. ASSUME NEW q \in Reqs, WriteStep(q) \/ Abort(q) PROVE view'[p] = view[p]
  <2>1. ~ Commit(q)
    BY DEF Commit, WriteRow, EndTransaction, QuietStep, session, TypeInv, TypeOK
  <2> QED
    BY <1>5, <2>1 DEF WriteStep, BeginTransition, RefuseTransition, UpdateRow, SelectSequence,
       InsertEvent, InsertConflicts, Abort, Rollback
<1> QED BY <1>3, <1>4, <1>5 DEF Next

\* Every step keeps what the transactions have inserted as PendingInv says.
LEMMA NextPendingInv == TypeInv /\ CreatedInv /\ PendingInv /\ [Next]_vars => PendingInv'
<1> SUFFICES ASSUME TypeInv, CreatedInv, PendingInv, [Next]_vars PROVE PendingInv'
  OBVIOUS
<1> USE DEF TypeInv, TypeOK
<1>1. CASE Create
  BY <1>1 DEF Create, session, CreatedInv, PendingInv, TransactionsInv, TransactionInv
<1>2. CASE UNCHANGED vars
  BY <1>2 DEF vars, database, session, PendingInv, EventOf
<1>3. ASSUME Next, QuietStep PROVE PendingInv'
  <2>1. \A p \in Reqs : txn[p] # "closed" => view'[p] = view[p]
    BY <1>3, QuietKeepsViews
  <2>2. \A p \in Reqs : txn[p] # "closed" => EventOf(p)' = EventOf(p)
    BY <1>3, <2>1 DEF QuietStep, session, EventOf
  <2> QED BY <1>3, <2>2 DEF QuietStep, session, PendingInv
<1>4. CASE BeginNotes
  BY <1>4 DEF BeginNotes, Reqs, PendingInv, EventOf
<1>5. ASSUME NEW p \in Reqs, BeginTransition(p) PROVE PendingInv'
  BY <1>5 DEF BeginTransition, PendingInv, EventOf
<1>6. ASSUME NEW p \in Reqs, UpdateRow(p) PROVE PendingInv'
  BY <1>6 DEF UpdateRow, PendingInv, EventOf
<1>7. ASSUME NEW p \in Reqs, SelectSequence(p) PROVE PendingInv'
  BY <1>7 DEF SelectSequence, PendingInv, EventOf
<1>8. ASSUME NEW p \in Reqs, InsertEvent(p) PROVE PendingInv'
  <2>1. \A q \in Reqs : EventOf(q)' = EventOf(q)
    BY <1>8 DEF InsertEvent, EventOf
  <2>2. EventOf(p).to = target[p]
    BY DEF EventOf
  <2> QED BY <1>8, <2>1, <2>2 DEF InsertEvent, PendingInv
<1>9. ASSUME NEW p \in Reqs, Commit(p) PROVE PendingInv'
  <2>1. \A q \in Reqs \ {p} : EventOf(q)' = EventOf(q)
    BY <1>9 DEF Commit, WriteRow, EndTransaction, EventOf
  <2> QED BY <1>9, <2>1 DEF Commit, WriteRow, EndTransaction, PendingInv
<1>10. ASSUME NEW p \in Reqs, Rollback(p) PROVE PendingInv'
  <2>1. \A q \in Reqs \ {p} : EventOf(q)' = EventOf(q)
    BY <1>10 DEF Rollback, EndTransaction, EventOf
  <2> QED BY <1>10, <2>1 DEF Rollback, EndTransaction, PendingInv
<1> QED BY <1>1, <1>2, <1>3, <1>4, <1>5, <1>6, <1>7, <1>8, <1>9, <1>10, StepKinds

LogInv ==
  /\ TypeInv /\ SequenceInv /\ LockInv /\ PendingInv
  /\ StatusMatchesLog /\ CompletionMatchesLog /\ AcknowledgedCancelIsLogged

\* A commit that changes the status adds the one status event that says so, and
\* adds it above every other.
LEMMA CommitLogsTarget ==
  ASSUME LogInv, NEW p \in Reqs, Commit(p), target[p] # "none"
  PROVE  \E e \in events' :
           /\ StatusEvents' = StatusEvents \cup {e}
           /\ e.to = target[p] /\ e.by = p
           /\ \A f \in StatusEvents : f.seq < e.seq
           /\ e.seq \in Nat
<1> DEFINE e == EventOf(p)
<1>1. pending[p] = {e} /\ events' = events \cup {e}
  BY DEF LogInv, PendingInv, Commit, WriteRow
<1>2. e.to = target[p] /\ e.by = p
  BY DEF EventOf
<1>3. StatusEvents' = StatusEvents \cup {e}
  BY <1>1, <1>2 DEF StatusEvents
<1>4. \A f \in events : f.seq < e.seq
  BY <1>1 DEF LogInv, SequenceInv, PendingAboveLog
<1>5. e.seq \in Nat
  BY <1>1, SequenceTypes DEF LogInv
<1> HIDE DEF e
<1> QED BY <1>1, <1>2, <1>3, <1>4, <1>5 DEF StatusEvents

\* A commit of notes adds no status event.
LEMMA CommitOfNotes ==
  ASSUME LogInv, NEW p \in Reqs, Commit(p), target[p] = "none"
  PROVE  StatusEvents' = StatusEvents /\ status' = status /\ completedAt' = completedAt
BY DEF LogInv, PendingInv, Commit, WriteRow, StatusEvents

\* The agreement of the row and the log holds initially.
LEMMA InitLogInv == Init => LogInv
<1> SUFFICES ASSUME Init PROVE LogInv
  OBVIOUS
<1>1. TypeInv /\ SequenceInv
  BY InitTypeInv, InitSequenceInv
<1>2. LockInv /\ PendingInv
  BY DEF Init, LockInv, PendingInv
<1>3. StatusMatchesLog /\ CompletionMatchesLog /\ AcknowledgedCancelIsLogged
  BY DEF Init, StatusMatchesLog, CompletionMatchesLog, AcknowledgedCancelIsLogged, StatusEvents, Reqs
<1> QED BY <1>1, <1>2, <1>3 DEF LogInv

\* Every step keeps it.
LEMMA NextLogInv == LogInv /\ [Next]_vars => LogInv'
<1> SUFFICES ASSUME LogInv, [Next]_vars PROVE LogInv'
  OBVIOUS
<1>0. TypeInv' /\ SequenceInv' /\ LockInv' /\ PendingInv'
  BY NextTypeInv, NextSequenceInv, NextLockInv, NextPendingInv DEF LogInv, SequenceInv
<1> DEFINE Agreement == StatusMatchesLog /\ CompletionMatchesLog
<1>1. Agreement'
  <2>1. CASE Create
    <3>1. events = {} /\ ~ completedAt /\ completedAt' = completedAt
      BY <2>1 DEF Create, LogInv, SequenceInv, CreatedInv
    <3>2. StatusEvents' = {[seq |-> 0, from |-> "none", to |-> "requested", by |-> Owner]}
      BY <2>1 DEF Create, StatusEvents
    <3> QED BY <2>1, <3>1, <3>2 DEF Create, StatusMatchesLog, CompletionMatchesLog, TerminalStatuses
  <2>2. CASE QuietStep \/ UNCHANGED vars \/ BeginNotes
    BY <2>2 DEF QuietStep, BeginNotes, vars, database, LogInv, StatusMatchesLog, CompletionMatchesLog, StatusEvents
  <2>3. ASSUME NEW p \in Reqs,
               \/ BeginTransition(p) \/ UpdateRow(p) \/ SelectSequence(p) \/ InsertEvent(p) \/ Rollback(p)
        PROVE  Agreement'
    <3>1. status' = status /\ completedAt' = completedAt /\ events' = events
      BY <2>3 DEF BeginTransition, UpdateRow, SelectSequence, InsertEvent, Rollback, database
    <3> QED BY <3>1 DEF LogInv, StatusMatchesLog, CompletionMatchesLog, StatusEvents
  <2>4. ASSUME NEW p \in Reqs, Commit(p) PROVE Agreement'
    <3>1. CASE target[p] = "none"
      <4>1. StatusEvents' = StatusEvents /\ status' = status /\ completedAt' = completedAt
        BY <2>4, <3>1, CommitOfNotes
      <4> QED BY <4>1 DEF LogInv, StatusMatchesLog, CompletionMatchesLog
    <3>2. CASE target[p] # "none"
      <4>1. PICK e \in events' :
              /\ StatusEvents' = StatusEvents \cup {e}
              /\ e.to = target[p]
              /\ \A f \in StatusEvents : f.seq < e.seq
              /\ e.seq \in Nat
        BY <2>4, <3>2, CommitLogsTarget
      <4>2. /\ status' = target[p]
            /\ completedAt' = (completedAt \/ target[p] \in TerminalStatuses)
        BY <2>4, <3>2 DEF Commit, WriteRow
      <4>3. \A f \in StatusEvents : f.seq \in Nat
        BY SequenceTypes DEF LogInv, StatusEvents
      <4>4. StatusMatchesLog'
        BY <4>1, <4>2, <4>3 DEF StatusMatchesLog
      <4>5. CompletionMatchesLog'
        BY <4>1, <4>2 DEF LogInv, CompletionMatchesLog
      <4> QED BY <4>4, <4>5
    <3> QED BY <3>1, <3>2
  <2> QED BY <2>1, <2>2, <2>3, <2>4, StepKinds
<1>2. AcknowledgedCancelIsLogged'
  <2> SUFFICES ASSUME NEW c \in Cancellers, stage'[c] = "returned"
               PROVE  \E e \in events' : e.by = c /\ e.to = "cancelled"
    BY DEF AcknowledgedCancelIsLogged
  <2>1. c \in Reqs /\ c # Owner
    BY OwnerAssumption DEF Reqs
  <2>2. events \subseteq events'
    BY StepGrowsLog DEF LogInv
  <2>3. CASE stage[c] = "returned"
    BY <2>2, <2>3 DEF LogInv, AcknowledgedCancelIsLogged
  <2>4. CASE stage[c] # "returned"
    <3>1. Commit(c)
      <4>1. stage' # stage
        BY <2>4
      <4>2. ~ OwnerStep
        BY <2>1, <2>4 DEF OwnerStep, Create, BeginNotes, StageRaises, ContextRaisesInTransaction, Recover,
           LogInv, TypeInv, TypeOK, Reqs
      <4>3. \A d \in Cancellers : ~ CancelStep(d)
        BY <2>1, <2>4 DEF CancelStep, CancelReads, CancelFindsNoRun, LogInv, TypeInv, TypeOK, Reqs
      <4>4. \A q \in Reqs : WriteStep(q) \/ Abort(q) => Commit(q)
        BY <2>1, <2>4, <4>1 DEF WriteStep, BeginTransition, RefuseTransition, UpdateRow, SelectSequence,
           InsertEvent, InsertConflicts, Abort, LogInv, TypeInv, TypeOK
      <4>5. \A q \in Reqs : Commit(q) => q = c
        BY <2>1, <2>4 DEF Commit, WriteRow, LogInv, TypeInv, TypeOK
      <4> QED BY <4>1, <4>2, <4>3, <4>4, <4>5 DEF Next, vars
    <3>2. stage[c] = "cancel" /\ target[c] = "cancelled"
      BY <2>1, <3>1 DEF Commit, WriteRow, LogInv, TypeInv, TypeOK, TransactionsInv, TransactionInv, Targets,
         TransitionStages, NoteStages, Stages, Ended
    <3> QED BY <2>1, <3>1, <3>2, CommitLogsTarget
  <2> QED BY <2>3, <2>4
<1> QED BY <1>0, <1>1, <1>2 DEF LogInv

\* The row's status and completed_at are what the status events say.
THEOREM RowMatchesLog == Spec => []RowAgreesWithLog
<1>1. LogInv => RowAgreesWithLog
  BY DEF LogInv, RowAgreesWithLog
<1> QED BY <1>1, InitLogInv, NextLogInv, PTL DEF Spec

\* A cancellation that was acknowledged is in the log.
THEOREM CancelsAreLogged == Spec => []AcknowledgedCancelIsLogged
<1>1. LogInv => AcknowledgedCancelIsLogged
  BY DEF LogInv
<1> QED BY <1>1, InitLogInv, NextLogInv, PTL DEF Spec

\* The status leaves the table only when a request writes the run from a stale
\* copy: such a step is a commit, its transaction holds the row's lock, and its
\* target was validated against the copy.
THEOREM OnlyStaleCopies == Spec => OnlyStaleCopiesLeaveTheTable
<1> DEFINE Follows == status \notin {"absent", status'} =>
                        \/ Lifecycle!LegalTransition(status, status')
                        \/ \E p \in rowLock : view[p] # status
<1>1. LogInv /\ [Next]_vars => [Follows]_vars
  <2> SUFFICES ASSUME LogInv, Next, status \notin {"absent", status'} PROVE Follows
    OBVIOUS
  <2>1. PICK p \in Reqs : Commit(p)
    <3>1. ~ Create
      BY DEF Create, LogInv, SequenceInv, CreatedInv
    <3>2. \A p \in Reqs : ~ (\/ BeginTransition(p) \/ UpdateRow(p) \/ SelectSequence(p)
                             \/ InsertEvent(p) \/ Rollback(p))
      BY DEF BeginTransition, UpdateRow, SelectSequence, InsertEvent, Rollback, database
    <3> QED BY <3>1, <3>2, StepKinds DEF QuietStep, BeginNotes, database
  <2>2. target[p] # "none" /\ status' = target[p]
    BY <2>1 DEF Commit, WriteRow
  <2>3. p \in rowLock
    BY <2>1, <2>2 DEF Commit, WriteRow, LogInv, LockInv
  <2>4. Lifecycle!LegalTransition(view[p], target[p])
    BY <2>2 DEF LogInv, TypeInv, TransactionsInv, TransactionInv, Validated
  <2> QED BY <2>2, <2>3, <2>4
<1> QED BY <1>1, InitLogInv, NextLogInv, PTL DEF Spec, OnlyStaleCopiesLeaveTheTable

\* The audit rows count the status events.
AuditInv == IsFiniteSet(StatusEvents) /\ AuditsMatchLog

\* Every step keeps the count.
LEMMA NextAuditInv == LogInv /\ AuditInv /\ [Next]_vars => AuditInv'
<1> SUFFICES ASSUME LogInv, AuditInv, [Next]_vars PROVE AuditInv'
  OBVIOUS
<1> USE DEF AuditInv, AuditsMatchLog
<1>1. CASE Create
  <2>1. StatusEvents' = {[seq |-> 0, from |-> "none", to |-> "requested", by |-> Owner]} /\ audits' = 1
    BY <1>1 DEF Create, StatusEvents
  <2> QED BY <2>1, FS_Singleton
<1>2. CASE QuietStep \/ UNCHANGED vars \/ BeginNotes
  BY <1>2 DEF QuietStep, BeginNotes, vars, database, StatusEvents
<1>3. ASSUME NEW p \in Reqs,
             \/ BeginTransition(p) \/ UpdateRow(p) \/ SelectSequence(p) \/ InsertEvent(p) \/ Rollback(p)
      PROVE  AuditInv'
  <2>1. audits' = audits /\ events' = events
    BY <1>3 DEF BeginTransition, UpdateRow, SelectSequence, InsertEvent, Rollback, database
  <2> QED BY <2>1 DEF StatusEvents
<1>4. ASSUME NEW p \in Reqs, Commit(p) PROVE AuditInv'
  <2>1. CASE target[p] = "none"
    BY <1>4, <2>1, CommitOfNotes DEF Commit, WriteRow
  <2>2. CASE target[p] # "none"
    <3>1. PICK e \in events' :
            /\ StatusEvents' = StatusEvents \cup {e}
            /\ \A f \in StatusEvents : f.seq < e.seq
            /\ e.seq \in Nat
      BY <1>4, <2>2, CommitLogsTarget
    <3>2. e \notin StatusEvents
      BY <3>1
    <3>3. audits' = audits + 1
      BY <1>4, <2>2 DEF Commit, WriteRow
    <3> QED BY <3>1, <3>2, <3>3, FS_AddElement
  <2> QED BY <2>1, <2>2
<1> QED BY <1>1, <1>2, <1>3, <1>4, StepKinds

\* Every status event has its audit row and every audit row its status event.
THEOREM AuditsCountStatusEvents == Spec => []AuditsMatchLog
<1>1. Init => AuditInv
  BY FS_EmptySet DEF Init, AuditInv, AuditsMatchLog, StatusEvents
<1>2. AuditInv => AuditsMatchLog
  BY DEF AuditInv
<1> QED BY <1>1, <1>2, InitLogInv, NextLogInv, NextAuditInv, PTL DEF Spec

\* Row, log and audit never disagree.
THEOREM RecordsAlwaysAgree == Spec => []RecordsAgree
BY RowMatchesLog, AuditsCountStatusEvents, PTL DEF RecordsAgree

-----------------------------------------------------------------------------
(* What the owner is told. *)

\* The stages of create_and_execute before its error handler.
PlanStages == {"validate", "context", "plan", "queue", "start", "execute", "run", "finish"}

\* The owner's copy is what the stage says, and the row differs from it only by
\* a cancellation; an error leaves a run that "failed" is legal for, or one
\* that is terminal.
SettledInv ==
  /\ stage[Owner] = "validate" => view[Owner] = "requested"
  /\ stage[Owner] \in {"context", "plan", "queue"} => view[Owner] = "validating"
  /\ stage[Owner] = "start" => view[Owner] = "queued"
  /\ stage[Owner] \in {"execute", "run", "finish"} => view[Owner] = "running"
  /\ stage[Owner] \in PlanStages => status \in {view[Owner], "cancelled"}
  /\ stage[Owner] = "recover" => status \in {"validating", "running", "cancelled"}
  /\ stage[Owner] = "fail" => view[Owner] \in {"validating", "running"}
  /\ stage[Owner] # "cancel"
  /\ AnsweredRunIsSettled

\* What other requests do leaves the owner where it is and at most cancels.
LEMMA OthersOnlyCancel ==
  ASSUME TypeInv, Next, NEW c \in Cancellers, CancelStep(c) \/ WriteStep(c) \/ Abort(c)
  PROVE  /\ stage'[Owner] = stage[Owner] /\ view'[Owner] = view[Owner]
         /\ status' \in {status, "cancelled"}
<1>1. c \in Reqs /\ c # Owner /\ Owner \in Reqs
  BY OwnerAssumption DEF Reqs
<1>2. CASE Commit(c)
  <2>1. target[c] \in {"none", "cancelled"}
    BY <1>1, <1>2 DEF Commit, WriteRow, TypeInv, TransactionsInv, TransactionInv, Targets, TransitionStages, Stages, Ended
  <2> QED BY <1>1, <1>2, <2>1 DEF Commit, WriteRow, TypeInv, TypeOK
<1>3. CASE ~ Commit(c)
  BY <1>1, <1>3 DEF CancelStep, CancelReads, CancelFindsNoRun, WriteStep, Abort, Rollback, BeginTransition, RefuseTransition,
     UpdateRow, SelectSequence, InsertEvent, InsertConflicts, database, TypeInv, TypeOK
<1> QED BY <1>2, <1>3

\* The invariant of the owner's answers holds initially.
LEMMA InitSettledInv == Init => SettledInv
BY DEF Init, Reqs, SettledInv, AnsweredRunIsSettled, PlanStages

\* Every step keeps it.
LEMMA NextSettledInv == TypeInv /\ SettledInv /\ [Next]_vars => SettledInv'
<1> SUFFICES ASSUME TypeInv, SettledInv, [Next]_vars PROVE SettledInv'
  OBVIOUS
<1>0. Owner \in Reqs
  BY DEF Reqs
<1> USE <1>0 DEF SettledInv, AnsweredRunIsSettled, PlanStages
<1>1. CASE Create
  BY <1>1 DEF Create, TypeInv, TypeOK
<1>2. CASE BeginNotes
  BY <1>2 DEF BeginNotes, database
<1>3. CASE StageRaises
  BY <1>3 DEF StageRaises, database, NoteStages, TypeInv, TypeOK
<1>4. CASE ContextRaisesInTransaction
  BY <1>4 DEF ContextRaisesInTransaction, TypeInv, TypeOK
<1>5. CASE Recover
  BY <1>5 DEF Recover, database, TypeInv, TypeOK, TerminalStatuses
<1>6. ASSUME NEW c \in Cancellers, Next, CancelStep(c) \/ WriteStep(c) \/ Abort(c) PROVE SettledInv'
  BY <1>6, OthersOnlyCancel DEF TerminalStatuses
<1>7. CASE BeginTransition(Owner)
  BY <1>7 DEF BeginTransition, database
<1>8. CASE RefuseTransition(Owner)
  <2>1. PICK goal \in Targets(Owner) : ~ Validated(Owner, goal)
    BY <1>8 DEF RefuseTransition
  <2>2. FALSE
    BY <1>8, <2>1 DEF RefuseTransition, Targets, Outcomes, Validated, FailTarget, TransitionStages, Lifecycle!LegalTransition,
       Lifecycle!RunStatuses, Lifecycle!RUN_STATUS_TRANSITIONS
  <2> QED BY <2>2
<1>9. CASE UpdateRow(Owner) \/ SelectSequence(Owner) \/ InsertEvent(Owner)
  BY <1>9 DEF UpdateRow, SelectSequence, InsertEvent, database
<1>10. CASE InsertConflicts(Owner) \/ Abort(Owner)
  BY <1>10 DEF InsertConflicts, Abort, Rollback, TypeInv, TypeOK
<1>11. CASE Commit(Owner)
  <2>1. stage'[Owner] = NextStage(Owner)
    BY <1>11 DEF Commit, WriteRow, TypeInv, TypeOK
  <2>2. CASE target[Owner] = "none"
    <3>1. stage[Owner] \in NoteStages /\ status' = status /\ view' = view
      BY <1>11, <2>2 DEF Commit, WriteRow, TypeInv, TransactionsInv, TransactionInv
    <3> QED BY <2>1, <3>1 DEF NextStage, NoteStages
  <2>3. CASE target[Owner] # "none"
    <3>1. /\ stage[Owner] \in TransitionStages /\ target[Owner] \in Targets(Owner)
          /\ status' = target[Owner] /\ view'[Owner] = target[Owner]
      BY <1>11, <2>3 DEF Commit, WriteRow, TypeInv, TypeOK, TransactionsInv, TransactionInv
    <3> QED
      BY <2>1, <3>1 DEF NextStage, Targets, TransitionStages, Outcomes, FailTarget, TerminalStatuses
  <2> QED BY <2>2, <2>3
<1>12. CASE UNCHANGED vars
  BY <1>12 DEF vars, database
<1> QED
  BY <1>1, <1>2, <1>3, <1>4, <1>5, <1>6, <1>7, <1>8, <1>9, <1>10, <1>11, <1>12
     DEF Next, OwnerStep, WriteStep, Reqs

\* A request that answers the owner leaves the run settled.
THEOREM AnswersAreSettled == Spec => []AnsweredRunIsSettled
<1>1. SettledInv => AnsweredRunIsSettled
  BY DEF SettledInv
<1> QED BY <1>1, InitTypeInv, NextTypeInv, InitSettledInv, NextSettledInv, PTL DEF Spec

\* Answers can be relied on.
THEOREM AnswersTrue == Spec => []AnswersAreTrue
BY AnswersAreSettled, CancelsAreLogged, PTL DEF AnswersAreTrue

-----------------------------------------------------------------------------
(* The lifecycle, when nobody cancels. *)

\* With no cancelling request the owner's copy is never stale.
SoloInv == Cancellers = {} => view[Owner] = status

\* Every step keeps the copy fresh.
LEMMA NextSoloInv == TypeInv /\ SoloInv /\ [Next]_vars => SoloInv'
<1> SUFFICES ASSUME TypeInv, SoloInv, [Next]_vars, Cancellers = {} PROVE view'[Owner] = status'
  BY DEF SoloInv
<1>1. Reqs = {Owner} /\ view[Owner] = status
  BY DEF Reqs, SoloInv
<1>2. CASE OwnerStep
  BY <1>1, <1>2 DEF OwnerStep, Create, BeginNotes, StageRaises, ContextRaisesInTransaction, Recover,
     database, TypeInv, TypeOK
<1>3. CASE WriteStep(Owner) \/ Abort(Owner)
  <2>1. CASE Commit(Owner)
    <3>1. CASE target[Owner] = "none"
      BY <1>1, <2>1, <3>1 DEF Commit, WriteRow
    <3>2. CASE target[Owner] # "none"
      BY <1>1, <2>1, <3>2 DEF Commit, WriteRow, TypeInv, TypeOK
    <3> QED BY <3>1, <3>2
  <2>2. CASE ~ Commit(Owner)
    BY <1>1, <1>3, <2>2 DEF WriteStep, BeginTransition, RefuseTransition, UpdateRow, SelectSequence,
       InsertEvent, InsertConflicts, Abort, Rollback, database
  <2> QED BY <2>1, <2>2
<1>4. CASE UNCHANGED vars
  BY <1>1, <1>4 DEF vars, database
<1> QED BY <1>1, <1>2, <1>3, <1>4 DEF Next

\* A step of the run is a step of its lifecycle when nobody cancels.
LEMMA StepFollowsLifecycle ==
  ASSUME LogInv, SoloInv, [Next]_vars, Cancellers = {}
  PROVE  [Lifecycle!Next]_status
<1> SUFFICES ASSUME Next, status' # status PROVE Lifecycle!Next
  BY DEF vars, database
<1>1. CASE Create
  BY <1>1 DEF Create, LogInv, SequenceInv, CreatedInv, Lifecycle!Next, Lifecycle!Create
<1>2. ASSUME NEW p \in Reqs, Commit(p) PROVE Lifecycle!Next
  <2>1. p = Owner /\ view[p] = status
    BY DEF Reqs, SoloInv
  <2>2. target[p] # "none" /\ status' = target[p]
    BY <1>2 DEF Commit, WriteRow
  <2>3. Lifecycle!LegalTransition(status, status')
    BY <2>1, <2>2 DEF LogInv, TypeInv, TransactionsInv, TransactionInv, Validated
  <2>4. status' \in Lifecycle!RunStatuses
    BY <2>3, LegalTransitionType DEF RunStatuses
  <2> QED BY <2>3, <2>4 DEF Lifecycle!Next, Lifecycle!Transition
<1>3. ~ (QuietStep \/ BeginNotes)
  BY DEF QuietStep, BeginNotes, database
<1>4. \A p \in Reqs : ~ (\/ BeginTransition(p) \/ UpdateRow(p) \/ SelectSequence(p)
                         \/ InsertEvent(p) \/ Rollback(p))
  BY DEF BeginTransition, UpdateRow, SelectSequence, InsertEvent, Rollback, database
<1> QED BY <1>1, <1>2, <1>3, <1>4, StepKinds

\* The handlers implement the lifecycle of policies.py for a run only one
\* request writes.
THEOREM SoloRefinement == ASSUME Cancellers = {} PROVE Spec => FollowsLifecycle
<1>1. Init => Lifecycle!Init /\ SoloInv
  BY DEF Init, Lifecycle!Init, SoloInv, Reqs
<1>2. LogInv /\ SoloInv /\ [Next]_vars => [Lifecycle!Next]_status
  BY StepFollowsLifecycle
<1>3. LogInv => TypeInv
  BY DEF LogInv
<1> QED
  BY <1>1, <1>2, <1>3, InitLogInv, NextLogInv, NextSoloInv, PTL DEF Spec, FollowsLifecycle, Lifecycle!Spec

-----------------------------------------------------------------------------

(***************************************************************************)
(* What LifecycleAgentRuntime keeps, for any number of calls and runs.     *)
(* RuntimeInv is inductive: it says what the lifecycle of a call is at the *)
(* one await execute has, and what it can have become once execute is      *)
(* left, whatever the limit is.  That a result only goes missing for a log *)
(* the backend has filled needs room for the six events of the lifecycle's *)
(* own; RuntimeConfiguration allows any limit above zero, and with a small *)
(* one an attempt fills the log by itself, or never gets to its backend.   *)
(***************************************************************************)

\* The lifecycle of a call that awaits its backend.
Awaiting(lc) ==
  /\ lc.status = "running" /\ lc.raised = "none" /\ lc.error = "none" /\ ~ lc.retryable
  /\ Len(lc.events) = 4 /\ MaxEvents >= 4

\* The limit has room for the events of any lifecycle.
RoomForLifecycle == MaxEvents >= 6

\* The log is full, of events the backend has sent unless there is no room
\* even without them.
Full(lc) ==
  /\ Len(lc.events) = MaxEvents
  /\ RoomForLifecycle => \E i \in 1 .. MaxEvents : lc.events[i] = "backend"

\* The lifecycle of a call that has left execute, by a result or an exception.
Left(lc) ==
  /\ lc.cancelled => lc.status # "succeeded"
  /\ lc.raised = "none" =>
       /\ lc.retryable <=> lc.status = "retriable"
       /\ lc.error = "none" <=> lc.status = "succeeded"
       /\ lc.events[Len(lc.events)] = lc.status
  /\ lc.raised \in {"none", "validation", "limit", "lifecycle"}
  /\ lc.raised \in {"limit", "lifecycle"} => Full(lc)
  /\ lc.raised = "lifecycle" => ~ RoomForLifecycle

CallInv(c) ==
  /\ pc[c] \in {"idle", "refused"} => lifecycle[c] = NewLifecycle
  /\ pc[c] = "awaiting" => Awaiting(lifecycle[c])
  /\ pc[c] = "returned" => lifecycle[c].raised = "none"
  /\ pc[c] = "raised" => lifecycle[c].raised # "none"
  /\ pc[c] \in {"returned", "raised"} => Left(lifecycle[c])

RuntimeInv ==
  /\ RuntimeTypeOK
  /\ ActiveIsTheOneExecuting
  /\ \A c \in Calls : CallInv(c)

-----------------------------------------------------------------------------
(* The methods of a lifecycle. *)

LEMMA NewType == NewLifecycle \in Lifecycles
BY DEF NewLifecycle, Lifecycles, EventNames, RuntimeStatuses, Exceptions, Handled

\* The parts of a lifecycle.
LEMMA Parts ==
  ASSUME NEW lc \in Lifecycles
  PROVE  /\ lc.status \in RuntimeStatuses /\ lc.events \in Seq(EventNames)
         /\ lc.cancelled \in BOOLEAN /\ lc.raised \in Exceptions \cup {"none"}
         /\ lc.error \in Exceptions \cup {"none"} /\ lc.retryable \in BOOLEAN
         /\ Len(lc.events) \in Nat
BY DEF Lifecycles

\* A transition the table allows is recorded, unless the log is full.
LEMMA TransitionFields ==
  ASSUME NEW lc \in Lifecycles, NEW goal \in RuntimeStatuses, lc.raised = "none",
         goal \in RUNTIME_STATUS_TRANSITIONS[lc.status],
         NEW new, new = Transition(lc, goal)
  PROVE  /\ new \in Lifecycles
         /\ new.error = lc.error
         /\ new.cancelled <=> lc.cancelled
         /\ new.retryable <=> lc.retryable
         /\ Len(lc.events) >= MaxEvents =>
              new.raised = "limit" /\ new.status = lc.status /\ new.events = lc.events
         /\ Len(lc.events) < MaxEvents =>
              new.raised = "none" /\ new.status = goal /\ new.events = Append(lc.events, goal)
<1>1. Append(lc.events, goal) \in Seq(EventNames)
  BY DEF Lifecycles, EventNames
<1>2. CASE Len(lc.events) >= MaxEvents
  <2>1. new = [lc EXCEPT !.raised = "limit"]
    BY <1>2 DEF Transition
  <2> QED BY <1>2, <2>1, Parts, LimitAssumption DEF Lifecycles, Exceptions, Handled
<1>3. CASE Len(lc.events) < MaxEvents
  <2>1. PICK longer : longer = Append(lc.events, goal)
    OBVIOUS
  <2>2. new = [lc EXCEPT !.status = goal, !.events = longer]
    BY <1>3, <2>1, Parts, LimitAssumption DEF Transition
  <2>3. /\ new.status = goal /\ new.events = longer /\ new.raised = lc.raised /\ new.error = lc.error
        /\ new.cancelled = lc.cancelled /\ new.retryable = lc.retryable
    BY <2>2 DEF Lifecycles
  <2>4. new \in Lifecycles
    BY <1>1, <2>1, <2>2 DEF Lifecycles
  <2> QED BY <1>3, <2>1, <2>3, <2>4, Parts, LimitAssumption
<1> QED BY <1>2, <1>3, Parts, LimitAssumption

\* An exception in flight passes through a transition.
LEMMA TransitionRaised ==
  ASSUME NEW lc, NEW goal, lc.raised # "none"
  PROVE  Transition(lc, goal) = lc
BY DEF Transition

\* A lifecycle before its await: nobody can have cancelled it.
OnItsWay(lc, was, n) ==
  /\ lc \in Lifecycles /\ lc.status = was /\ lc.raised = "none" /\ ~ lc.cancelled
  /\ lc.error = "none" /\ ~ lc.retryable /\ Len(lc.events) = n

\* With room in the log it goes on.
LEMMA Advances ==
  ASSUME NEW lc, NEW was, NEW n \in Nat, OnItsWay(lc, was, n), n < MaxEvents,
         NEW goal \in RuntimeStatuses, goal \in RUNTIME_STATUS_TRANSITIONS[was],
         NEW new, new = Transition(lc, goal)
  PROVE  OnItsWay(new, goal, n + 1) /\ CheckCancelled(new) = new
<1> USE DEF OnItsWay
<1>1. /\ new \in Lifecycles /\ new.error = "none" /\ ~ new.cancelled /\ ~ new.retryable
      /\ new.raised = "none" /\ new.status = goal /\ new.events = Append(lc.events, goal)
  BY TransitionFields
<1>2. Len(new.events) = n + 1
  BY <1>1, Parts
<1> QED BY <1>1, <1>2 DEF CheckCancelled

\* An exception in flight passes through the check for a cancellation too.
LEMMA CheckRaised ==
  ASSUME NEW lc, lc.raised # "none"
  PROVE  CheckCancelled(lc) = lc
BY DEF CheckCancelled

\* A lifecycle whose log is full before it gets to its backend.
CutEarly(lc) ==
  /\ lc \in Lifecycles /\ lc.status \in {"requested", "validating", "queued"}
  /\ lc.raised = "limit" /\ ~ lc.cancelled
  /\ Len(lc.events) = MaxEvents /\ MaxEvents < 4

\* Without room it is cut off, and stays so.
LEMMA CutsOff ==
  ASSUME NEW lc, NEW was \in {"requested", "validating", "queued"}, NEW n \in 1 .. 3,
         OnItsWay(lc, was, n), n = MaxEvents,
         NEW goal \in RuntimeStatuses, goal \in RUNTIME_STATUS_TRANSITIONS[was],
         NEW new, new = Transition(lc, goal)
  PROVE  CutEarly(new) /\ CheckCancelled(new) = new /\ \A s : Transition(new, s) = new
<1>1. /\ lc \in Lifecycles /\ lc.raised = "none" /\ lc.status = was /\ ~ lc.cancelled
      /\ Len(lc.events) = n /\ n \in Nat /\ n < 4
  BY DEF OnItsWay
<1>2. Len(lc.events) >= MaxEvents
  BY <1>1
<1>3. /\ new \in Lifecycles /\ ~ new.cancelled
      /\ new.raised = "limit" /\ new.status = was /\ new.events = lc.events
  BY <1>1, <1>2, TransitionFields
<1>4. CutEarly(new)
  BY <1>1, <1>3 DEF CutEarly
<1>5. CheckCancelled(new) = new
  BY <1>3, CheckRaised
<1>6. \A s : Transition(new, s) = new
  BY <1>3, TransitionRaised
<1> QED BY <1>4, <1>5, <1>6

\* execute awaits its backend with a running lifecycle and four events, unless
\* the limit has no room for them.
LEMMA StartedLifecycle ==
  LET validating == CheckCancelled(Transition(NewLifecycle, "validating"))
      queued     == CheckCancelled(Transition(validating, "queued"))
      running    == CheckCancelled(Transition(queued, "running"))
  IN  (OnItsWay(running, "running", 4) /\ MaxEvents >= 4) \/ CutEarly(running)
<1>1. OnItsWay(NewLifecycle, "requested", 1)
  BY NewType DEF NewLifecycle, OnItsWay
<1>2. /\ "validating" \in RUNTIME_STATUS_TRANSITIONS["requested"] /\ "validating" \in RuntimeStatuses
      /\ "queued" \in RUNTIME_STATUS_TRANSITIONS["validating"] /\ "queued" \in RuntimeStatuses
      /\ "running" \in RUNTIME_STATUS_TRANSITIONS["queued"] /\ "running" \in RuntimeStatuses
  BY DEF RUNTIME_STATUS_TRANSITIONS, RuntimeStatuses
<1>3. MaxEvents \in Nat /\ MaxEvents > 0 /\ 1 + 1 = 2 /\ 2 + 1 = 3 /\ 3 + 1 = 4 /\ {1, 2, 3} \subseteq Nat
  BY LimitAssumption
<1>4. PICK v : v = Transition(NewLifecycle, "validating")
  OBVIOUS
<1>5. PICK q : q = Transition(v, "queued")
  OBVIOUS
<1>6. PICK r : r = Transition(q, "running")
  OBVIOUS
<1>7. CASE MaxEvents = 1
  <2>1. CutEarly(v) /\ CheckCancelled(v) = v /\ \A s : Transition(v, s) = v
    BY <1>1, <1>2, <1>4, <1>7, CutsOff
  <2> QED BY <1>4, <2>1
<1>8. CASE MaxEvents > 1
  <2>1. OnItsWay(v, "validating", 1 + 1) /\ CheckCancelled(v) = v
    BY <1>1, <1>2, <1>3, <1>4, <1>8, Advances
  <2>2. CASE MaxEvents = 2
    <3>1. CutEarly(q) /\ CheckCancelled(q) = q /\ \A s : Transition(q, s) = q
      BY <1>2, <1>3, <1>5, <2>1, <2>2, CutsOff
    <3> QED BY <1>4, <1>5, <2>1, <3>1
  <2>3. CASE MaxEvents > 2
    <3>1. OnItsWay(q, "queued", 2 + 1) /\ CheckCancelled(q) = q
      BY <1>2, <1>3, <1>5, <2>1, <2>3, Advances
    <3>2. CASE MaxEvents = 3
      <4>1. CutEarly(r) /\ CheckCancelled(r) = r
        BY <1>2, <1>3, <1>6, <3>1, <3>2, CutsOff
      <4> QED BY <1>4, <1>5, <1>6, <2>1, <3>1, <4>1
    <3>3. CASE MaxEvents > 3
      <4>1. OnItsWay(r, "running", 3 + 1) /\ CheckCancelled(r) = r
        BY <1>2, <1>3, <1>6, <3>1, <3>3, Advances
      <4> QED BY <1>3, <1>4, <1>5, <1>6, <2>1, <3>1, <3>3, <4>1
    <3> QED BY <1>3, <2>3, <3>2, <3>3
  <2> QED BY <1>3, <1>8, <2>2, <2>3
<1> QED BY <1>3, <1>7, <1>8

\* What _failure_result makes of a lifecycle that was cut off so early: the
\* table refuses the failure, or the log has no place for it.
LEMMA CutEarlyLeaves ==
  ASSUME NEW lc, CutEarly(lc), NEW final, final = FailureResult(lc)
  PROVE  final \in Lifecycles /\ Left(final) /\ final.raised # "none"
<1>1. /\ lc \in Lifecycles /\ lc.status \in {"requested", "validating", "queued"}
      /\ lc.raised = "limit" /\ ~ lc.cancelled
      /\ Len(lc.events) = MaxEvents /\ MaxEvents < 4
  BY DEF CutEarly
<1>2. FailureStatus("limit") = "failed" /\ lc.status \notin TERMINAL_RUNTIME_STATUSES
  BY <1>1 DEF FailureStatus, TERMINAL_RUNTIME_STATUSES
<1>3. PICK caught : caught = [lc EXCEPT !.error = "limit", !.raised = "none", !.retryable = FALSE]
  OBVIOUS
<1>4. final = Transition(caught, "failed")
  <2>1. [lc EXCEPT !.error = lc.raised, !.raised = "none", !.retryable = ("failed" = "retriable")] = caught
    BY <1>1, <1>3
  <2> QED BY <1>1, <1>2, <2>1 DEF FailureResult
<1>5. /\ caught \in Lifecycles /\ caught.status = lc.status /\ caught.raised = "none"
      /\ caught.events = lc.events /\ ~ caught.cancelled
  BY <1>1, <1>3 DEF Lifecycles, Exceptions, Handled
<1>6. Len(caught.events) >= MaxEvents
  BY <1>1, <1>5, LimitAssumption
<1>7. PICK x \in {"limit", "lifecycle"} : final = [caught EXCEPT !.raised = x]
  BY <1>4, <1>5, <1>6 DEF Transition
<1>8. /\ final \in Lifecycles /\ final.raised = x /\ final.events = lc.events /\ ~ final.cancelled
  BY <1>5, <1>7 DEF Lifecycles, Exceptions, Handled
<1>9. Full(final) /\ ~ RoomForLifecycle
  BY <1>1, <1>8, LimitAssumption DEF Full, RoomForLifecycle
<1> QED BY <1>8, <1>9 DEF Left

\* A running lifecycle with an exception in flight: a log longer than the
\* lifecycle's own events has one of the backend's.
Broken(lc) ==
  /\ lc \in Lifecycles /\ lc.status = "running" /\ lc.error = "none" /\ ~ lc.retryable
  /\ lc.raised \in Handled \cup {"validation"}
  /\ Len(lc.events) \in 4 .. MaxEvents
  /\ Len(lc.events) > 4 => \E i \in 1 .. Len(lc.events) : lc.events[i] = "backend"

\* An exception that is handled becomes a result, or meets a full log.
LEMMA FailureLeaves ==
  ASSUME NEW lc, Broken(lc), lc.raised \in Handled,
         NEW final, final = FailureResult(lc)
  PROVE  final \in Lifecycles /\ Left(final)
<1> DEFINE goal == FailureStatus(lc.raised)
<1>1. lc \in Lifecycles /\ lc.status = "running" /\ lc.raised # "none"
  BY DEF Broken, Handled
<1>2. goal \in {"cancelled", "retriable", "failed"}
  BY DEF FailureStatus
<1>3. PICK caught :
        caught = [lc EXCEPT !.error = lc.raised, !.raised = "none", !.retryable = (goal = "retriable")]
  OBVIOUS
<1> HIDE DEF goal
<1>4. /\ caught \in Lifecycles /\ caught.status = "running" /\ caught.raised = "none"
      /\ caught.error = lc.raised /\ (caught.retryable <=> goal = "retriable")
      /\ caught.events = lc.events /\ (caught.cancelled <=> lc.cancelled)
  BY <1>1, <1>3, Parts DEF Lifecycles
<1>5. /\ Len(lc.events) \in 4 .. MaxEvents /\ lc.events \in Seq(EventNames)
      /\ Len(lc.events) > 4 => \E i \in 1 .. Len(lc.events) : lc.events[i] = "backend"
  BY Parts DEF Broken
<1>6. /\ {"cancelled", "retriable", "failed"} \subseteq RuntimeStatuses
      /\ {"cancelled", "retriable", "failed"} \subseteq RUNTIME_STATUS_TRANSITIONS["running"]
      /\ "retriable" \in RUNTIME_STATUS_TRANSITIONS["failed"]
      /\ "running" \notin TERMINAL_RUNTIME_STATUSES
  BY DEF RuntimeStatuses, RUNTIME_STATUS_TRANSITIONS, TERMINAL_RUNTIME_STATUSES
<1>7. CASE goal # "retriable"
  <2>1. final = Transition(caught, goal)
    BY <1>1, <1>3, <1>6, <1>7 DEF FailureResult, goal
  <2>2. final \in Lifecycles /\ final.error # "none" /\ ~ final.retryable
    BY <1>1, <1>2, <1>4, <1>6, <1>7, <2>1, TransitionFields
  <2>3. CASE Len(lc.events) >= MaxEvents
    BY <1>2, <1>4, <1>5, <1>6, <2>1, <2>2, <2>3, TransitionFields, LimitAssumption
    DEF Left, Full, RoomForLifecycle
  <2>4. CASE Len(lc.events) < MaxEvents
    <3>1. final.raised = "none" /\ final.status = goal /\ final.events = Append(lc.events, goal)
      BY <1>2, <1>4, <1>6, <2>1, <2>4, TransitionFields
    <3>2. final.events[Len(final.events)] = goal
      BY <1>5, <3>1
    <3> QED BY <1>2, <1>7, <2>2, <3>1, <3>2 DEF Left
  <2> QED BY <1>5, <2>2, <2>3, <2>4, LimitAssumption
<1>8. CASE goal = "retriable"
  <2>1. PICK failed : failed = Transition(caught, "failed")
    OBVIOUS
  <2>2. final = Transition(failed, "retriable")
    BY <1>1, <1>3, <1>6, <1>8, <2>1 DEF FailureResult, goal
  <2>3. failed \in Lifecycles /\ failed.error # "none" /\ failed.retryable
    BY <1>1, <1>4, <1>6, <1>8, <2>1, TransitionFields
  <2>4. CASE Len(lc.events) >= MaxEvents
    <3>1. failed.raised = "limit" /\ failed.status = "running" /\ failed.events = lc.events
      BY <1>4, <1>6, <2>1, <2>4, TransitionFields
    <3>2. final = failed
      BY <2>2, <3>1, TransitionRaised
    <3> QED BY <1>5, <2>3, <2>4, <3>1, <3>2, LimitAssumption DEF Left, Full, RoomForLifecycle
  <2>5. CASE Len(lc.events) < MaxEvents
    <3>1. failed.raised = "none" /\ failed.status = "failed" /\ failed.events = Append(lc.events, "failed")
      BY <1>4, <1>6, <2>1, <2>5, TransitionFields
    <3>2. final \in Lifecycles /\ final.error # "none" /\ final.retryable
      BY <1>6, <2>2, <2>3, <3>1, TransitionFields
    <3>3. Len(failed.events) = Len(lc.events) + 1
          /\ \A i \in 1 .. Len(lc.events) : failed.events[i] = lc.events[i]
      BY <1>5, <3>1
    <3>4. CASE Len(failed.events) >= MaxEvents
      <4>1. final.raised = "limit" /\ final.status = "failed" /\ final.events = failed.events
        BY <1>6, <2>2, <2>3, <3>1, <3>4, TransitionFields
      <4> QED BY <1>5, <2>5, <3>2, <3>3, <3>4, <4>1, LimitAssumption DEF Left, Full, RoomForLifecycle
    <3>5. CASE Len(failed.events) < MaxEvents
      <4>1. /\ final.raised = "none" /\ final.status = "retriable"
            /\ final.events = Append(failed.events, "retriable")
        BY <1>6, <2>2, <2>3, <3>1, <3>5, TransitionFields
      <4>2. final.events[Len(final.events)] = "retriable"
        BY <2>3, <4>1, Parts
      <4> QED BY <3>2, <4>1, <4>2 DEF Left
    <3> QED BY <1>5, <3>2, <3>3, <3>4, <3>5, LimitAssumption
  <2> QED BY <1>5, <2>4, <2>5, LimitAssumption
<1> QED BY <1>7, <1>8

-----------------------------------------------------------------------------
(* The actions. *)

LEMMA InitRuntimeInv == RuntimeInit => RuntimeInv
<1> SUFFICES ASSUME RuntimeInit PROVE RuntimeInv
  OBVIOUS
<1> QED BY NewType, CallsAssumption, RunOfAssumption
  DEF RuntimeInit, RuntimeInv, RuntimeTypeOK, Positions, ActiveIsTheOneExecuting, CallInv

\* A call leaves execute with what Leave makes of its lifecycle.
LEMMA LeaveTo ==
  ASSUME RuntimeInv, NEW c \in Calls, pc[c] = "awaiting" \/ active[RunOf[c]] = NoCall,
         NEW lc, Leave(c, lc), NEW final \in Lifecycles, Left(final),
         final = IF lc.raised \in Handled THEN FailureResult(lc) ELSE lc
  PROVE  RuntimeInv'
<1>1. /\ lifecycle' = [lifecycle EXCEPT ![c] = final]
      /\ pc' = [pc EXCEPT ![c] = IF final.raised = "none" THEN "returned" ELSE "raised"]
      /\ active' = [active EXCEPT ![RunOf[c]] = NoCall]
  BY DEF Leave
<1>2. RuntimeTypeOK'
  BY <1>1, RunOfAssumption DEF RuntimeInv, RuntimeTypeOK, Positions
<1>3. ActiveIsTheOneExecuting'
  BY <1>1, CallsAssumption, RunOfAssumption
  DEF RuntimeInv, RuntimeTypeOK, Positions, ActiveIsTheOneExecuting
<1>4. ASSUME NEW d \in Calls PROVE CallInv(d)'
  BY <1>1 DEF RuntimeInv, RuntimeTypeOK, CallInv
<1> QED BY <1>2, <1>3, <1>4 DEF RuntimeInv

\* The lifecycle a call has after its await is a success or an exception in a
\* lifecycle that runs.
LEMMA LeaveKeeps ==
  ASSUME RuntimeInv, NEW c \in Calls, pc[c] = "awaiting",
         NEW lc \in Lifecycles, Leave(c, lc),
         Broken(lc) \/ (lc.raised = "none" /\ Left(lc))
  PROVE  RuntimeInv'
<1>1. PICK final : final = IF lc.raised \in Handled THEN FailureResult(lc) ELSE lc
  OBVIOUS
<1>2. final \in Lifecycles /\ Left(final)
  <2>1. CASE lc.raised \in Handled
    BY <1>1, <2>1, FailureLeaves DEF Handled
  <2>2. CASE lc.raised = "none" /\ Left(lc)
    BY <1>1, <2>2 DEF Handled
  <2>3. CASE Broken(lc) /\ lc.raised = "validation"
    BY <1>1, <2>3 DEF Broken, Left, Handled
  <2> QED BY <2>1, <2>2, <2>3 DEF Broken
<1> QED BY <1>1, <1>2, LeaveTo

LEMMA ExecuteKeeps ==
  ASSUME RuntimeInv, NEW c \in Calls, Execute(c)
  PROVE  RuntimeInv'
<1>1. pc[c] = "idle" /\ active[RunOf[c]] = NoCall
  BY DEF Execute
<1>2. PICK running :
        /\ (OnItsWay(running, "running", 4) /\ MaxEvents >= 4) \/ CutEarly(running)
        /\ running.raised # "none" => Leave(c, running)
        /\ running.raised = "none" =>
             /\ lifecycle' = [lifecycle EXCEPT ![c] = running]
             /\ pc' = [pc EXCEPT ![c] = "awaiting"]
             /\ active' = [active EXCEPT ![RunOf[c]] = c]
  BY StartedLifecycle DEF Execute
<1>3. CASE CutEarly(running)
  <2>1. running.raised = "limit" /\ running.raised \in Handled
    BY <1>3 DEF CutEarly, Handled
  <2>2. PICK final : final = FailureResult(running)
    OBVIOUS
  <2>3. final \in Lifecycles /\ Left(final)
    BY <1>3, <2>2, CutEarlyLeaves
  <2>4. Leave(c, running)
    BY <1>2, <2>1
  <2> QED BY <1>1, <2>1, <2>2, <2>3, <2>4, LeaveTo
<1>4. CASE OnItsWay(running, "running", 4) /\ MaxEvents >= 4
  <2>1. running \in Lifecycles /\ Awaiting(running)
    BY <1>4 DEF Awaiting, OnItsWay
  <2>2. /\ lifecycle' = [lifecycle EXCEPT ![c] = running]
        /\ pc' = [pc EXCEPT ![c] = "awaiting"]
        /\ active' = [active EXCEPT ![RunOf[c]] = c]
    BY <1>2, <1>4 DEF OnItsWay
  <2>3. RuntimeTypeOK'
    BY <2>1, <2>2, RunOfAssumption DEF RuntimeInv, RuntimeTypeOK, Positions
  <2>4. ActiveIsTheOneExecuting'
    BY <1>1, <2>2, CallsAssumption, RunOfAssumption
    DEF RuntimeInv, RuntimeTypeOK, Positions, ActiveIsTheOneExecuting
  <2>5. ASSUME NEW d \in Calls PROVE CallInv(d)'
    BY <2>1, <2>2 DEF RuntimeInv, RuntimeTypeOK, CallInv
  <2> QED BY <2>3, <2>4, <2>5 DEF RuntimeInv
<1> QED BY <1>2, <1>3, <1>4

LEMMA RefuseKeeps ==
  ASSUME RuntimeInv, NEW c \in Calls, RefuseRequest(c)
  PROVE  RuntimeInv'
<1> QED BY DEF RefuseRequest, RuntimeInv, RuntimeTypeOK, Positions, ActiveIsTheOneExecuting, CallInv

\* The backend's answer: refused by the validator or the cancellation, cut off
\* by the limit, or a success.
LEMMA ReturnKeeps ==
  ASSUME RuntimeInv, NEW c \in Calls, BackendReturns(c)
  PROVE  RuntimeInv'
<1>1. pc[c] = "awaiting" /\ lifecycle[c] \in Lifecycles /\ Awaiting(lifecycle[c])
  BY DEF BackendReturns, RuntimeInv, RuntimeTypeOK, CallInv
<1>2. PICK count \in 0 .. MaxEvents + 1, valid \in BOOLEAN :
        Leave(c, Transition(RecordBackend(
                   CheckCancelled(ValidateExecution(lifecycle[c], count, valid)), count), "succeeded"))
  BY DEF BackendReturns
<1>3. PICK lc : lc = lifecycle[c]
  OBVIOUS
<1>4. PICK checked : checked = CheckCancelled(ValidateExecution(lc, count, valid))
  OBVIOUS
<1>5. /\ checked \in Lifecycles /\ checked.status = "running" /\ checked.error = "none"
      /\ ~ checked.retryable /\ checked.events = lc.events
      /\ checked.raised \in {"none", "validation", "limit", "cancelled"}
      /\ checked.raised = "none" => ~ checked.cancelled
  <2>1. \A x \in {"validation", "limit", "cancelled"} :
          /\ [lc EXCEPT !.raised = x] \in Lifecycles /\ [lc EXCEPT !.raised = x].raised = x
          /\ [lc EXCEPT !.raised = x].status = "running" /\ [lc EXCEPT !.raised = x].error = "none"
          /\ ~ [lc EXCEPT !.raised = x].retryable /\ [lc EXCEPT !.raised = x].events = lc.events
    BY <1>1, <1>3 DEF Lifecycles, Exceptions, Handled, Awaiting
  <2>2. \/ checked = lc /\ ~ lc.cancelled
        \/ \E x \in {"validation", "limit", "cancelled"} : checked = [lc EXCEPT !.raised = x]
    BY <1>1, <1>3, <1>4 DEF CheckCancelled, ValidateExecution, Awaiting
  <2>3. CASE checked = lc /\ ~ lc.cancelled
    BY <1>1, <1>3, <2>3 DEF Awaiting
  <2>4. CASE \E x \in {"validation", "limit", "cancelled"} : checked = [lc EXCEPT !.raised = x]
    BY <2>1, <2>4
  <2> QED BY <2>2, <2>3, <2>4
<1>6. lc.events \in Seq(EventNames) /\ Len(lc.events) = 4 /\ MaxEvents \in Nat /\ MaxEvents >= 4
  BY <1>1, <1>3, Parts, LimitAssumption DEF Awaiting
<1>7. CASE checked.raised # "none"
  <2>1. Transition(RecordBackend(checked, count), "succeeded") = checked
    BY <1>7 DEF RecordBackend, Transition
  <2>2. Broken(checked)
    BY <1>5, <1>6, <1>7 DEF Broken, Handled
  <2> QED BY <1>1, <1>2, <1>3, <1>4, <1>5, <2>1, <2>2, LeaveKeeps
<1>8. CASE checked.raised = "none"
  <2>1. PICK room \in Nat :
          room = IF count <= MaxEvents - Len(checked.events) THEN count ELSE MaxEvents - Len(checked.events)
    BY <1>5, <1>6
  <2>2. PICK backend : backend = [i \in 1 .. room |-> "backend"]
    OBVIOUS
  <2>3. backend \in Seq(EventNames) /\ Len(backend) = room /\ \A i \in 1 .. room : backend[i] = "backend"
    BY <2>2 DEF EventNames
  <2>4. PICK log : log = checked.events \o backend
    OBVIOUS
  <2>5. /\ log \in Seq(EventNames) /\ Len(log) = 4 + room
        /\ room > 0 => log[5] = "backend"
    <3>1. checked.events \in Seq(EventNames) /\ Len(checked.events) = 4
      BY <1>5, <1>6
    <3>2. /\ log \in Seq(EventNames) /\ Len(log) = Len(checked.events) + Len(backend)
          /\ \A i \in 1 .. Len(checked.events) + Len(backend) :
               log[i] = IF i <= Len(checked.events) THEN checked.events[i]
                                                    ELSE backend[i - Len(checked.events)]
      BY <2>3, <2>4, <3>1, ConcatProperties
    <3> QED BY <2>3, <3>1, <3>2
  <2>6. PICK recorded : recorded = RecordBackend(checked, count)
    OBVIOUS
  <2>7. recorded = [checked EXCEPT !.events = log, !.raised = IF room < count THEN "limit" ELSE "none"]
    BY <1>8, <2>1, <2>2, <2>4, <2>6 DEF RecordBackend
  <2>8. /\ recorded \in Lifecycles /\ recorded.status = "running" /\ recorded.error = "none"
        /\ ~ recorded.retryable /\ recorded.events = log /\ ~ recorded.cancelled
        /\ recorded.raised = IF room < count THEN "limit" ELSE "none"
    BY <1>5, <1>8, <2>5, <2>7 DEF Lifecycles, Exceptions, Handled
  <2>9. PICK final : final = Transition(recorded, "succeeded")
    OBVIOUS
  <2>10. room <= MaxEvents - 4
    <3>1. Len(checked.events) = 4
      BY <1>5, <1>6
    <3> QED BY <1>6, <2>1, <3>1
  <2>11. CASE room < count
    <3>1. final = recorded
      BY <2>8, <2>9, <2>11, TransitionRaised
    <3>2. Broken(recorded)
      BY <1>6, <2>5, <2>8, <2>10, <2>11 DEF Broken, Handled
    <3> QED BY <1>1, <1>2, <1>3, <1>4, <2>6, <2>8, <2>9, <3>1, <3>2, LeaveKeeps
  <2>12. CASE room = count
    <3>1. /\ "succeeded" \in RuntimeStatuses
          /\ "succeeded" \in RUNTIME_STATUS_TRANSITIONS["running"]
      BY DEF RuntimeStatuses, RUNTIME_STATUS_TRANSITIONS
    <3>2. recorded.raised = "none"
      BY <2>8, <2>12
    <3>3. /\ final \in Lifecycles /\ final.error = "none" /\ ~ final.retryable /\ ~ final.cancelled
          /\ Len(log) >= MaxEvents =>
               final.raised = "limit" /\ final.status = "running" /\ final.events = log
          /\ Len(log) < MaxEvents =>
               final.raised = "none" /\ final.status = "succeeded" /\ final.events = Append(log, "succeeded")
      BY <2>8, <2>9, <3>1, <3>2, TransitionFields
    <3>4. Broken(final) \/ (final.raised = "none" /\ Left(final))
      <4>1. CASE Len(log) >= MaxEvents
        BY <1>6, <2>5, <2>10, <3>3, <4>1 DEF Broken, Handled
      <4>2. CASE Len(log) < MaxEvents
        <5>1. final.events[Len(final.events)] = "succeeded"
          BY <2>5, <3>3, <4>2
        <5> QED BY <3>3, <4>2, <5>1 DEF Left
      <4> QED BY <1>6, <2>5, <4>1, <4>2
    <3> QED BY <1>1, <1>2, <1>3, <1>4, <2>6, <2>9, <3>3, <3>4, LeaveKeeps
  <2> QED BY <1>5, <1>6, <2>1, <2>11, <2>12
<1> QED BY <1>7, <1>8

\* The backend's failures, the timeout among them.
LEMMA FailKeeps ==
  ASSUME RuntimeInv, NEW c \in Calls, BackendFails(c) \/ TimesOut(c)
  PROVE  RuntimeInv'
<1>1. pc[c] = "awaiting" /\ lifecycle[c] \in Lifecycles /\ Awaiting(lifecycle[c])
  BY DEF BackendFails, TimesOut, RuntimeInv, RuntimeTypeOK, CallInv
<1>2. PICK exception \in Handled : Leave(c, [lifecycle[c] EXCEPT !.raised = exception])
  BY DEF BackendFails, TimesOut, Handled
<1>3. PICK lc : lc = [lifecycle[c] EXCEPT !.raised = exception]
  OBVIOUS
<1>4. /\ lc \in Lifecycles /\ lc.status = "running" /\ lc.error = "none" /\ ~ lc.retryable
      /\ lc.raised = exception /\ lc.events = lifecycle[c].events
  BY <1>1, <1>3 DEF Awaiting, Lifecycles, Exceptions
<1>5. Len(lc.events) = 4 /\ 4 \in 4 .. MaxEvents
  BY <1>1, <1>4, LimitAssumption DEF Awaiting
<1>6. Broken(lc)
  BY <1>4, <1>5 DEF Broken
<1> QED BY <1>1, <1>2, <1>3, <1>4, <1>6, LeaveKeeps

\* A cancellation marks the lifecycle of a call that awaits its backend.
LEMMA CancelKeeps ==
  ASSUME RuntimeInv, NEW r \in Runs, Cancel(r)
  PROVE  RuntimeInv'
<1>1. PICK c \in Calls : c = active[r] /\ pc[c] = "awaiting"
  BY DEF Cancel, RuntimeInv, RuntimeTypeOK, ActiveIsTheOneExecuting
<1>2. PICK lc : lc = lifecycle[c]
  OBVIOUS
<1>3. PICK marked : marked = [lc EXCEPT !.cancelled = TRUE]
  OBVIOUS
<1>4. lc \in Lifecycles /\ Awaiting(lc)
  BY <1>1, <1>2 DEF RuntimeInv, RuntimeTypeOK, CallInv
<1>5. marked \in Lifecycles /\ Awaiting(marked)
  BY <1>3, <1>4 DEF Awaiting, Lifecycles
<1>6. lifecycle' = [lifecycle EXCEPT ![c] = marked] /\ UNCHANGED <<active, pc>>
  BY <1>1, <1>2, <1>3 DEF Cancel
<1>7. RuntimeTypeOK' /\ ActiveIsTheOneExecuting'
  BY <1>5, <1>6 DEF RuntimeInv, RuntimeTypeOK, ActiveIsTheOneExecuting
<1>8. ASSUME NEW d \in Calls PROVE CallInv(d)'
  BY <1>1, <1>5, <1>6 DEF RuntimeInv, RuntimeTypeOK, CallInv
<1> QED BY <1>7, <1>8 DEF RuntimeInv

LEMMA StepKeepsRuntimeInv == RuntimeInv /\ [RuntimeNext]_runtimeVars => RuntimeInv'
<1> SUFFICES ASSUME RuntimeInv, [RuntimeNext]_runtimeVars PROVE RuntimeInv'
  OBVIOUS
<1>1. CASE \E c \in Calls : Execute(c)
  BY <1>1, ExecuteKeeps
<1>2. CASE \E c \in Calls : RefuseRequest(c)
  BY <1>2, RefuseKeeps
<1>3. CASE \E c \in Calls : BackendReturns(c)
  BY <1>3, ReturnKeeps
<1>4. CASE \E c \in Calls : BackendFails(c) \/ TimesOut(c)
  BY <1>4, FailKeeps
<1>5. CASE \E r \in Runs : Cancel(r)
  BY <1>5, CancelKeeps
<1>6. CASE UNCHANGED runtimeVars
  BY <1>6 DEF runtimeVars, RuntimeInv, RuntimeTypeOK, ActiveIsTheOneExecuting, CallInv
<1> QED BY <1>1, <1>2, <1>3, <1>4, <1>5, <1>6 DEF RuntimeNext

\* RuntimeInv holds in every state of every behaviour: what the lifecycle of a
\* call of execute can be at its await and after it, for any limit of events.
THEOREM RuntimeInvariant == RuntimeSpec => []RuntimeInv
BY InitRuntimeInv, StepKeepsRuntimeInv, PTL DEF RuntimeSpec

\* The variables keep their types, for any number of calls and runs.
THEOREM RuntimeTypeCorrect == RuntimeSpec => []RuntimeTypeOK
<1>1. RuntimeInv => RuntimeTypeOK
  BY DEF RuntimeInv
<1> QED BY <1>1, RuntimeInvariant, PTL

\* An attempt that ends without a result ends so for its invalid output or for
\* a full log, whoever has filled it, however small the limit is.
OnlyLimitsCostTheResult ==
  \A c \in Calls : pc[c] = "raised" /\ lifecycle[c].raised # "validation" =>
    lifecycle[c].raised \in {"limit", "lifecycle"} /\ Len(lifecycle[c].events) = MaxEvents

\* Whatever the limit of events is: one call per run executes, a cancellation
\* that was acknowledged never ends in success, the result says of a retry what
\* its status says, and the log is full where a result is missing.
THEOREM AttemptsWithinAnyLimit ==
  RuntimeSpec => [](/\ ActiveIsTheOneExecuting /\ CancelledNeverSucceeds
                    /\ RetryMatchesStatus /\ OnlyLimitsCostTheResult)
<1>1. RuntimeInv => CancelledNeverSucceeds
  BY DEF RuntimeInv, RuntimeTypeOK, Positions, CallInv, Left, Awaiting, NewLifecycle, CancelledNeverSucceeds
<1>2. RuntimeInv => RetryMatchesStatus
  BY DEF RuntimeInv, CallInv, Left, RetryMatchesStatus
<1>3. RuntimeInv => OnlyLimitsCostTheResult
  BY DEF RuntimeInv, CallInv, Left, Full, OnlyLimitsCostTheResult
<1>4. RuntimeInv => ActiveIsTheOneExecuting
  BY DEF RuntimeInv
<1> QED BY <1>1, <1>2, <1>3, <1>4, RuntimeInvariant, PTL

\* The caller of an attempt sees what happened in it, however calls of execute
\* and cancel, the backend and its timeout race; and if the limit has room for
\* the lifecycle's own events, only a log the backend has filled costs the
\* result.
THEOREM AttemptsStaySound ==
  ASSUME RoomForLifecycle
  PROVE  RuntimeSpec => []AttemptsAreSound
<1>1. RuntimeInv => OnlyAFullLogCostsTheResult
  BY DEF RuntimeInv, CallInv, Left, Full, OnlyAFullLogCostsTheResult
<1> QED BY <1>1, RuntimeInvariant, AttemptsWithinAnyLimit, PTL DEF AttemptsAreSound
=============================================================================
