----------------------------- MODULE MemoryItems -----------------------------
(***************************************************************************)
(* One memory of one user and the requests that touch it: the one that     *)
(* creates it, recalls and reinforcements, updates and deletes.  Memories  *)
(* share no rows.  Each request has a session of its own at READ COMMITTED *)
(* and works on the copy it has read: its UPDATE names the columns whose   *)
(* value it has changed, with the values computed from the copy.           *)
(*                                                                         *)
(* An UPDATE waits for the row's lock, which its transaction keeps; a      *)
(* DELETE of the references waits for another transaction that has deleted *)
(* one of the rows it has seen, and does not see rows committed meanwhile. *)
(* Everything else a transaction writes becomes visible with its COMMIT.   *)
(*                                                                         *)
(* Of expires_at only whether it is set and whether it has passed matters; *)
(* the memory types other than short_term behave alike.  Texts, scores and *)
(* last_accessed_at are left out; an update of the texts alone would take  *)
(* the row's lock too, which only removes interleavings.                   *)
(***************************************************************************)
EXTENDS Naturals, FiniteSets

CONSTANTS
  Recalls,      \* requests that read the memory, which reinforces it
  Reinforces,   \* requests that reinforce it
  Updates,      \* requests that edit it
  Deletes,      \* requests that delete it
  MaxAmount,    \* bound: the amount of a reinforcement (10 in the schema)
  Edits         \* bound: what updates may ask for

ASSUME MaxAmountAssumption == MaxAmount \in Nat \ {0}
ASSUME RequestsAreDistinct ==
  /\ Recalls \cap Reinforces = {}
  /\ (Recalls \cup Reinforces) \cap (Updates \cup Deletes) = {}
  /\ Updates \cap Deletes = {}

VARIABLES
  row,       \* the memory_items row
  refs,      \* the memory_references rows of the memory
  log,       \* the memory_events rows of the memory, each with its audit row
  rowLock,   \* the request whose transaction has updated the row
  stage,     \* where the handler of each request is
  copy,      \* the memory as the request has read it
  request,   \* what the request asks for
  seen       \* the references its DELETE has found

database == <<row, refs, log, rowLock>>
vars == <<database, stage, copy, request, seen>>

Reqs == Recalls \cup Reinforces \cup Updates \cup Deletes

Types == {"short_term", "long_term"}
Expiries == {"none", "future", "past"}
Rows ==
  [type : Types, expires : Expiries, count : Nat, deleted : BOOLEAN, exists : BOOLEAN]

\* An update that gives references gives none, or two of its own.
Refs == Updates \X {1, 2}

\* What a request asks for.  "unset" is a field the payload leaves out.
Payloads ==
  [amount : 0 .. MaxAmount,
   type : Types \cup {"unset"},
   expires : {"unset", "none", "future"},
   references : {"unset", "empty", "pair"}]

ASSUME EditsAssumption == Edits \subseteq {q \in Payloads : q.amount = 0}

NoPayload ==
  [amount |-> 0, type |-> "unset", expires |-> "unset", references |-> "unset"]

LogEntries == [by : Reqs, amount : 0 .. MaxAmount]

\* The ways a request ends: 2xx, an error the route answers, no answer.
Ended == {"answered", "refused", "aborted"}
Stages == Ended \cup {"post", "flush", "find", "erase", "reflush", "commit"}

TypeOK ==
  /\ row \in Rows
  /\ refs \subseteq Refs
  /\ log \subseteq LogEntries
  /\ rowLock \subseteq Reqs
  /\ stage \in [Reqs -> Stages]
  /\ copy \in [Reqs -> Rows]
  /\ request \in [Reqs -> Payloads]
  /\ seen \in [Reqs -> SUBSET Refs]

\* No memory yet.
NoRow ==
  [type |-> "long_term", expires |-> "none", count |-> 0, deleted |-> FALSE, exists |-> FALSE]

Init ==
  /\ row = NoRow
  /\ refs = {}
  /\ log = {}
  /\ rowLock = {}
  /\ stage = [p \in Reqs |-> "post"]
  /\ copy = [p \in Reqs |-> NoRow]
  /\ request = [p \in Reqs |-> NoPayload]
  /\ seen = [p \in Reqs |-> {}]

-----------------------------------------------------------------------------
(* The helpers of the services. *)

\* A short-term memory without an expiry gets the default one, on create
\* (_resolve_expiration) and at the end of an update.
Expiry(type, expires) ==
  IF type = "short_term" /\ expires = "none" THEN "future" ELSE expires

\* Mutant: the filters keep deleted memories.
FindsDeleted(p) ==
  /\ row.exists
  /\ p \in Deletes \/ row.expires # "past"

\* _apply_lifecycle_filters: deleted memories are never found, expired ones
\* only by a delete.
Finds(p) ==
  /\ row.exists
  /\ ~ row.deleted
  /\ p \in Deletes \/ row.expires # "past"

\* What a request may ask for; an expiry that has passed is refused.
PayloadsOf(p) ==
  CASE p \in Recalls    -> {[NoPayload EXCEPT !.amount = 1]}
    [] p \in Reinforces -> {[NoPayload EXCEPT !.amount = n] : n \in 1 .. MaxAmount}
    [] p \in Deletes    -> {NoPayload}
    [] OTHER            -> Edits

\* Mutant: fields the payload leaves out are set as well.
FieldAlways(old, new) == new

\* The value of a field after setattr, if the payload has it.
Field(old, new) == IF new = "unset" THEN old ELSE new

\* The copy of p once its handler has set every attribute it sets.
Edited(p) ==
  LET type == Field(copy[p].type, request[p].type)
      expires == Field(copy[p].expires, request[p].expires)
  IN [copy[p] EXCEPT !.type = type,
                     !.expires = IF p \in Updates THEN Expiry(type, expires) ELSE @,
                     !.count = @ + request[p].amount,
                     !.deleted = @ \/ p \in Deletes]

\* A new expiry is another time than the old one, so its column changes.
SetsExpiry(p) == Edited(p).expires # copy[p].expires \/ request[p].expires = "future"

\* Whether the attributes the payload names change a column; the default
\* expiry is set later.
PayloadChangesRow(p) ==
  \/ p \notin Updates
  \/ Field(copy[p].type, request[p].type) # copy[p].type
  \/ Field(copy[p].expires, request[p].expires) # copy[p].expires
  \/ request[p].expires = "future"

\* The references p stores.
NewRefs(p) == IF request[p].references = "pair" THEN {p} \X {1, 2} ELSE {}

-----------------------------------------------------------------------------

\* MemoryCreateService.create: nobody knows the memory before its COMMIT.
Create ==
  /\ ~ row.exists
  /\ \E type \in Types, expires \in {"none", "future"} :
       row' = [NoRow EXCEPT !.type = type, !.expires = Expiry(type, expires), !.exists = TRUE]
  /\ UNCHANGED <<refs, log, rowLock, stage, copy, request, seen>>

\* expires_at passes.
Expire ==
  /\ row.expires = "future"
  /\ row' = [row EXCEPT !.expires = "past"]
  /\ UNCHANGED <<refs, log, rowLock, stage, copy, request, seen>>

\* _get_active_memory finds the memory and the handler edits its copy.
Read(p) ==
  /\ stage[p] = "post"
  /\ Finds(p)
  /\ copy' = [copy EXCEPT ![p] = row]
  /\ \E q \in PayloadsOf(p) : request' = [request EXCEPT ![p] = q]
  /\ stage' = [stage EXCEPT ![p] = "flush"]
  /\ UNCHANGED <<database, seen>>

\* _get_active_memory raises MemoryNotFoundError: 404.
FindsNothing(p) ==
  /\ stage[p] = "post"
  /\ ~ Finds(p)
  /\ stage' = [stage EXCEPT ![p] = "refused"]
  /\ UNCHANGED <<database, copy, request, seen>>

\* An UPDATE of the row, if there is something to write: waits for its lock.
TakeLock(p, writes) ==
  IF writes THEN rowLock \subseteq {p} /\ rowLock' = {p} ELSE UNCHANGED rowLock

\* The first flush: db.flush(), or the one DELETE makes of its own accord; an
\* update has another one to come.
Flush(p) ==
  /\ stage[p] = "flush"
  /\ TakeLock(p, PayloadChangesRow(p))
  /\ stage' = [stage EXCEPT ![p] =
                 CASE p \notin Updates -> "commit"
                   [] request[p].references # "unset" -> "find"
                   [] OTHER -> "reflush"]
  /\ UNCHANGED <<row, refs, log, copy, request, seen>>

\* replace_references: the DELETE finds the references committed so far.
FindRefs(p) ==
  /\ stage[p] = "find"
  /\ seen' = [seen EXCEPT ![p] = refs]
  /\ stage' = [stage EXCEPT ![p] = "erase"]
  /\ UNCHANGED <<database, copy, request>>

\* The DELETE waits for the transactions that have deleted one of them, skips
\* what they have removed and deletes the rest.
EraseRefs(p) ==
  /\ stage[p] = "erase"
  /\ \A q \in Updates \ {p} :
       stage[q] \in {"reflush", "commit"} => seen[q] \cap seen[p] \cap refs = {}
  /\ stage' = [stage EXCEPT ![p] = "reflush"]
  /\ UNCHANGED <<database, copy, request, seen>>

\* The flush after the default expiry; the new references are inserted.
Reflush(p) ==
  /\ stage[p] = "reflush"
  /\ TakeLock(p, Edited(p).expires # Field(copy[p].expires, request[p].expires))
  /\ stage' = [stage EXCEPT ![p] = "commit"]
  /\ UNCHANGED <<row, refs, log, copy, request, seen>>

\* Mutant: the UPDATE writes every column of the copy.
WrittenWhole(p) == Edited(p)

\* The row after the UPDATEs of p: the columns p changes, from its copy.
Written(p) ==
  [row EXCEPT !.type = IF Edited(p).type # copy[p].type THEN Edited(p).type ELSE @,
              !.expires = IF SetsExpiry(p) THEN Edited(p).expires ELSE @,
              !.count = IF request[p].amount > 0 THEN Edited(p).count ELSE @,
              !.deleted = @ \/ Edited(p).deleted]

\* The memory event and the audit row p adds.
Logged(p) == {[by |-> p, amount |-> request[p].amount]}

\* Mutant: only the references the request itself knows of are replaced.
ReplacedOneByOne(p) == (refs \ (seen[p] \cap (Updates \X {1}))) \cup NewRefs(p)

\* The references after the transaction of p.
Replaced(p) == (refs \ seen[p]) \cup NewRefs(p)

\* The locals of p at its end.
Forget(p) ==
  /\ rowLock' = rowLock \ {p}
  /\ copy' = [copy EXCEPT ![p] = NoRow]
  /\ request' = [request EXCEPT ![p] = NoPayload]
  /\ seen' = [seen EXCEPT ![p] = {}]

\* COMMIT, and the answer.
Commit(p) ==
  /\ stage[p] = "commit"
  /\ row' = Written(p)
  /\ refs' = Replaced(p)
  /\ log' = log \cup Logged(p)
  /\ stage' = [stage EXCEPT ![p] = "answered"]
  /\ Forget(p)

\* The request dies or its transaction fails (two that wait for each other
\* lose one): everything it wrote is rolled back.
Abort(p) ==
  /\ stage[p] \notin Ended \cup {"post"}
  /\ stage' = [stage EXCEPT ![p] = "aborted"]
  /\ Forget(p)
  /\ UNCHANGED <<row, refs, log>>

-----------------------------------------------------------------------------

Step(p) ==
  \/ Read(p)
  \/ FindsNothing(p)
  \/ Flush(p)
  \/ FindRefs(p)
  \/ EraseRefs(p)
  \/ Reflush(p)
  \/ Commit(p)
  \/ Abort(p)

Next ==
  \/ Create
  \/ Expire
  \/ \E p \in Reqs : Step(p)

Spec == Init /\ [][Next]_vars

-----------------------------------------------------------------------------

Reinforcements == {e \in log : e.amount > 0}

\* What some events add to the count, one by one.
Units(events) == {u \in events \X (1 .. MaxAmount) : u[2] <= u[1].amount}

\* Lost updates or not, the count never exceeds what the events add up to, and
\* no edit takes it back below all of them: an update writes the columns it has
\* changed, not the count its copy has.
CountIsWithinEvents ==
  /\ row.count <= Cardinality(Units(log))
  /\ Reinforcements # {} => \E e \in Reinforcements : row.count >= e.amount

\* No request makes a deleted memory come back, and a request that begins
\* after a delete was answered adds no event to it.
DeletedIsFinal ==
  [][ row.deleted =>
        /\ row'.deleted
        /\ \A p \in Reqs : stage[p] = "post" => stage'[p] \in {"post", "refused"} ]_vars

\* The references of an update are stored all or not at all, although other
\* updates delete and insert references of the same memory meanwhile.
ReferencesAreWhole ==
  \A p \in Updates : (\E r \in refs : r[1] = p) => {p} \X {1, 2} \subseteq refs

\* A short-term memory has an expiry (test_memory.py,
\* test_short_term_memory_gets_default_expiration), although update decides on
\* the default one from its copy: it takes two updates, each of which wrote the
\* column the other had only read, to leave it without one.
OneUpdateKeepsTheExpiry ==
  row.exists /\ row.type = "short_term" /\ row.expires = "none" =>
    \E p, q \in Updates : p # q /\ stage[p] = "answered" /\ stage[q] = "answered"

\* What an update leaves is one update's: its references whole, and the expiry
\* its type calls for, unless two updates have interfered.
EditsAreWhole == ReferencesAreWhole /\ OneUpdateKeepsTheExpiry
=============================================================================
