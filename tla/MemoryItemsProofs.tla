-------------------------- MODULE MemoryItemsProofs --------------------------
(***************************************************************************)
(* What MemoryItems keeps of a memory, for any number of requests.  The    *)
(* inductive invariant MemoryInv relates the copy a request works on to    *)
(* the row it will write to: a type or an expiry that differs was written  *)
(* by an update that has been answered since.  CountInv adds what the      *)
(* counts owe to the events.                                               *)
(***************************************************************************)
EXTENDS MemoryItems, FiniteSetTheorems, TLAPS

Working == Stages \ (Ended \cup {"post"})

\* References come in pairs: a set of them has both of an update's or neither.
Whole(S) == \A u \in Updates : <<u, 1>> \in S <=> <<u, 2>> \in S

\* An update other than p has been answered.
AnotherAnswered(p) == \E q \in Updates \ {p} : stage[q] = "answered"

\* Only updates ask for other columns than the count and the deletion.
RequestOf(p) ==
  p \notin Updates => /\ request[p].type = "unset" /\ request[p].expires = "unset"
                      /\ request[p].references = "unset"

\* What has changed between the copy of p and the row, an update has changed.
CopyOf(p) ==
  stage[p] \in Working =>
    /\ row.exists
    /\ copy[p].exists
    /\ copy[p].type # row.type => AnotherAnswered(p)
    /\ copy[p].expires # "none" /\ row.expires = "none" => AnotherAnswered(p)

MemoryInv ==
  /\ TypeOK
  /\ row.deleted => row.exists
  /\ Whole(refs) /\ \A p \in Reqs : Whole(seen[p])
  /\ \A p \in Reqs : RequestOf(p) /\ CopyOf(p)
  /\ OneUpdateKeepsTheExpiry

-----------------------------------------------------------------------------

LEMMA InitMemoryInv == Init => MemoryInv
<1> SUFFICES ASSUME Init PROVE MemoryInv
  OBVIOUS
<1> USE DEF Init
<1>1. TypeOK
  BY MaxAmountAssumption
  DEF TypeOK, Rows, NoRow, Types, Expiries, Payloads, NoPayload, Stages, Ended
<1>2. (row.deleted => row.exists) /\ OneUpdateKeepsTheExpiry
  BY DEF NoRow, OneUpdateKeepsTheExpiry
<1>3. Whole(refs) /\ \A p \in Reqs : Whole(seen[p])
  BY DEF Whole
<1>4. \A p \in Reqs : RequestOf(p) /\ CopyOf(p)
  BY DEF RequestOf, CopyOf, NoPayload, Working
<1> QED BY <1>1, <1>2, <1>3, <1>4 DEF MemoryInv

\* Taking references away that came in pairs, and adding a pair, leaves pairs.
LEMMA ReplacedAreWhole ==
  ASSUME MemoryInv, NEW p \in Reqs
  PROVE  Whole(Replaced(p))
<1>1. Whole(NewRefs(p))
  BY DEF Whole, NewRefs
<1> QED BY <1>1 DEF MemoryInv, Replaced, Whole

\* The parts of the row and of a copy.
LEMMA RowParts ==
  ASSUME NEW r \in Rows
  PROVE  /\ r.type \in Types /\ r.expires \in Expiries /\ r.count \in Nat
         /\ r.deleted \in BOOLEAN /\ r.exists \in BOOLEAN
BY DEF Rows

-----------------------------------------------------------------------------
(* Steps that leave the rows alone. *)

\* A request that has read the row and goes on, waiting for locks and rows,
\* keeps MemoryInv.
LEMMA WaitingKeeps ==
  ASSUME MemoryInv, NEW p \in Reqs, stage[p] \in Working, NEW s \in Working,
         stage' = [stage EXCEPT ![p] = s],
         UNCHANGED <<row, refs, log, copy, request>>, rowLock' \subseteq Reqs,
         seen' = seen \/ seen' = [seen EXCEPT ![p] = refs]
  PROVE  MemoryInv'
<1> USE DEF MemoryInv
<1>1. TypeOK'
  BY DEF TypeOK, Working
<1>2. Whole(refs)' /\ \A q \in Reqs : Whole(seen[q])'
  BY DEF TypeOK, Whole
<1>3. \A q \in Updates : stage[q] = "answered" <=> stage'[q] = "answered"
  BY DEF TypeOK, Working, Ended, Reqs
<1>4. ASSUME NEW q \in Reqs PROVE RequestOf(q)' /\ CopyOf(q)'
  BY <1>3 DEF RequestOf, CopyOf, AnotherAnswered, TypeOK
<1>5. OneUpdateKeepsTheExpiry'
  BY <1>3 DEF OneUpdateKeepsTheExpiry
<1> QED BY <1>1, <1>2, <1>4, <1>5

\* So does one that is over without having written.
LEMMA LeavingKeeps ==
  ASSUME MemoryInv, NEW p \in Reqs, stage[p] \notin Ended, NEW s \in {"refused", "aborted"},
         stage' = [stage EXCEPT ![p] = s],
         UNCHANGED <<row, refs, log>>, rowLock' \subseteq Reqs,
         UNCHANGED <<copy, request, seen>>
           \/ /\ copy' = [copy EXCEPT ![p] = NoRow] /\ request' = [request EXCEPT ![p] = NoPayload]
              /\ seen' = [seen EXCEPT ![p] = {}]
  PROVE  MemoryInv'
<1> USE DEF MemoryInv
<1>1. NoRow \in Rows /\ NoPayload \in Payloads
  BY MaxAmountAssumption DEF Rows, NoRow, Types, Expiries, Payloads, NoPayload
<1>2. TypeOK'
  BY <1>1 DEF TypeOK, Stages, Ended
<1>3. Whole(refs)' /\ \A q \in Reqs : Whole(seen[q])'
  BY DEF TypeOK, Whole
<1>4. \A q \in Updates : stage[q] = "answered" <=> stage'[q] = "answered"
  BY DEF TypeOK, Ended, Reqs
<1>5. ASSUME NEW q \in Reqs PROVE RequestOf(q)' /\ CopyOf(q)'
  BY <1>4, <1>5 DEF RequestOf, CopyOf, AnotherAnswered, TypeOK, NoPayload, Working, Ended
<1>6. OneUpdateKeepsTheExpiry'
  BY <1>4 DEF OneUpdateKeepsTheExpiry
<1> QED BY <1>2, <1>3, <1>5, <1>6

-----------------------------------------------------------------------------
(* The actions. *)

LEMMA CreateKeeps == MemoryInv /\ Create => MemoryInv'
<1> SUFFICES ASSUME MemoryInv, Create PROVE MemoryInv'
  OBVIOUS
<1> USE DEF MemoryInv, Create
<1>1. PICK type \in Types, expires \in {"none", "future"} :
        row' = [NoRow EXCEPT !.type = type, !.expires = Expiry(type, expires), !.exists = TRUE]
  OBVIOUS
<1>2. /\ row' \in Rows /\ row'.exists /\ ~ row'.deleted
      /\ row'.type = "short_term" => row'.expires # "none"
  BY <1>1 DEF Rows, NoRow, Types, Expiries, Expiry
<1>3. TypeOK'
  BY <1>2 DEF TypeOK
<1>4. \A q \in Reqs : stage[q] \notin Working
  BY DEF CopyOf
<1>5. \A q \in Reqs : RequestOf(q)' /\ CopyOf(q)'
  BY <1>4 DEF RequestOf, CopyOf
<1> QED BY <1>2, <1>3, <1>5 DEF Whole, OneUpdateKeepsTheExpiry

LEMMA ExpireKeeps == MemoryInv /\ Expire => MemoryInv'
<1> SUFFICES ASSUME MemoryInv, Expire PROVE MemoryInv'
  OBVIOUS
<1> USE DEF MemoryInv, Expire
<1>1. /\ row' \in Rows /\ row'.expires = "past"
      /\ row'.type = row.type /\ row'.exists = row.exists /\ row'.deleted = row.deleted
  BY DEF TypeOK, Rows, Expiries
<1>2. TypeOK'
  BY <1>1 DEF TypeOK
<1>3. \A q \in Reqs : RequestOf(q)' /\ CopyOf(q)'
  BY <1>1 DEF RequestOf, CopyOf, AnotherAnswered
<1> QED BY <1>1, <1>2, <1>3 DEF Whole, OneUpdateKeepsTheExpiry

LEMMA PayloadTypes ==
  ASSUME NEW p \in Reqs, NEW q \in PayloadsOf(p)
  PROVE  /\ q \in Payloads
         /\ p \notin Updates => q.type = "unset" /\ q.expires = "unset" /\ q.references = "unset"
BY MaxAmountAssumption, EditsAssumption, RequestsAreDistinct DEF PayloadsOf, Payloads, NoPayload, Reqs

LEMMA ReadKeeps ==
  ASSUME MemoryInv, NEW p \in Reqs, Read(p)
  PROVE  MemoryInv'
<1> USE DEF MemoryInv, Read
<1>1. PICK q \in PayloadsOf(p) : request' = [request EXCEPT ![p] = q]
  OBVIOUS
<1>2. TypeOK'
  BY <1>1, PayloadTypes DEF TypeOK, database, Stages, Ended
<1>3. \A u \in Updates : stage[u] = "answered" <=> stage'[u] = "answered"
  BY DEF TypeOK, Reqs
<1>4. ASSUME NEW r \in Reqs PROVE RequestOf(r)' /\ CopyOf(r)'
  <2>1. CASE r = p
    BY <1>1, <1>3, <2>1, PayloadTypes DEF RequestOf, CopyOf, TypeOK, database, Finds
  <2>2. CASE r # p
    BY <1>1, <1>3, <2>2 DEF RequestOf, CopyOf, AnotherAnswered, TypeOK, database
  <2> QED BY <2>1, <2>2
<1>5. Whole(refs)' /\ (\A r \in Reqs : Whole(seen[r]))'
  BY DEF Whole, database
<1>6. OneUpdateKeepsTheExpiry'
  BY <1>3 DEF OneUpdateKeepsTheExpiry, database
<1> QED BY <1>2, <1>4, <1>5, <1>6 DEF database

\* The columns an update changes, and the values it gives them.
LEMMA WrittenColumns ==
  ASSUME MemoryInv, NEW p \in Reqs, stage[p] \in Working
  PROVE  /\ Written(p) \in Rows /\ Written(p).exists
         /\ row.deleted => Written(p).deleted
         /\ p \notin Updates => Written(p).type = row.type /\ Written(p).expires = row.expires
         /\ Written(p).type = "short_term" /\ Written(p).expires = "none" =>
              (row.type = "short_term" /\ row.expires = "none") \/ AnotherAnswered(p)
<1> DEFINE c == copy[p]
           q == request[p]
<1>1. row \in Rows /\ c \in Rows /\ q \in Payloads
  BY DEF MemoryInv, TypeOK
<1>2. /\ row.exists /\ c.exists
      /\ c.type # row.type => AnotherAnswered(p)
      /\ c.expires # "none" /\ row.expires = "none" => AnotherAnswered(p)
      /\ p \notin Updates => q.type = "unset" /\ q.expires = "unset"
  BY DEF MemoryInv, RequestOf, CopyOf
<1> HIDE DEF c, q
<1>3. PICK edited : edited = Edited(p)
  OBVIOUS
<1>4. /\ edited.type = Field(c.type, q.type)
      /\ edited.expires = IF p \in Updates
                            THEN Expiry(edited.type, Field(c.expires, q.expires))
                            ELSE Field(c.expires, q.expires)
      /\ edited.count = c.count + q.amount /\ edited.deleted \in BOOLEAN
      /\ edited.type \in Types /\ edited.expires \in Expiries /\ edited.count \in Nat
  <2>1. /\ c.type \in Types /\ c.expires \in Expiries /\ c.count \in Nat /\ c.deleted \in BOOLEAN
        /\ q.type \in Types \cup {"unset"} /\ q.expires \in {"unset", "none", "future"}
        /\ q.amount \in Nat
    BY <1>1, MaxAmountAssumption DEF Rows, Payloads
  <2>2. /\ edited.type = Field(c.type, q.type)
        /\ edited.expires = IF p \in Updates
                              THEN Expiry(Field(c.type, q.type), Field(c.expires, q.expires))
                              ELSE Field(c.expires, q.expires)
        /\ edited.count = c.count + q.amount
        /\ edited.deleted = (c.deleted \/ p \in Deletes)
    <3>1. p \notin Updates => Field(c.expires, q.expires) = c.expires
      BY <1>2 DEF Field
    <3> QED BY <1>1, <1>3, <3>1 DEF Edited, Rows, c, q
  <2>3. /\ Field(c.type, q.type) \in Types /\ Field(c.expires, q.expires) \in Expiries
    BY <2>1 DEF Field, Expiries
  <2>4. edited.expires \in Expiries
    BY <2>2, <2>3 DEF Expiry, Expiries
  <2> QED BY <2>1, <2>2, <2>3, <2>4
<1>5. PICK written : written = Written(p)
  OBVIOUS
<1>6. /\ written.type = IF edited.type # c.type THEN edited.type ELSE row.type
      /\ written.expires = IF SetsExpiry(p) THEN edited.expires ELSE row.expires
      /\ written.exists = row.exists /\ written.deleted = (row.deleted \/ edited.deleted)
      /\ written \in Rows
  BY <1>1, <1>3, <1>4, <1>5 DEF Written, Rows, c
<1>7. SetsExpiry(p) <=> edited.expires # c.expires \/ q.expires = "future"
  BY <1>3 DEF SetsExpiry, c, q
<1>8. p \notin Updates => written.type = row.type /\ written.expires = row.expires
  BY <1>2, <1>4, <1>6, <1>7 DEF Field
<1>9. ASSUME written.type = "short_term", written.expires = "none",
             ~ (row.type = "short_term" /\ row.expires = "none")
      PROVE  AnotherAnswered(p)
  <2>1. p \in Updates
    BY <1>8, <1>9
  <2>2. CASE edited.type = "short_term"
    BY <1>2, <1>4, <1>6, <1>7, <1>9, <2>1, <2>2 DEF Expiry, Field
  <2>3. CASE edited.type # "short_term"
    BY <1>2, <1>4, <1>6, <1>9, <2>3
  <2> QED BY <2>2, <2>3
<1> QED BY <1>2, <1>5, <1>6, <1>8, <1>9

LEMMA CommitKeeps ==
  ASSUME MemoryInv, NEW p \in Reqs, Commit(p)
  PROVE  MemoryInv'
<1> USE DEF Commit, Forget
<1>1. stage[p] \in Working /\ row' = Written(p)
  BY DEF Working, Stages, Ended
<1>2. /\ row' \in Rows /\ row'.exists
      /\ p \notin Updates => row'.type = row.type /\ row'.expires = row.expires
      /\ row'.type = "short_term" /\ row'.expires = "none" =>
           (row.type = "short_term" /\ row.expires = "none") \/ AnotherAnswered(p)
  BY <1>1, WrittenColumns
<1>3. NoRow \in Rows /\ NoPayload \in Payloads
  BY MaxAmountAssumption DEF Rows, NoRow, Types, Expiries, Payloads, NoPayload
<1>4. TypeOK'
  <2>1. refs' \subseteq Refs
    BY RequestsAreDistinct DEF Replaced, NewRefs, Refs, MemoryInv, TypeOK, RequestOf
  <2>2. log' \subseteq LogEntries
    BY DEF Logged, LogEntries, MemoryInv, TypeOK, Payloads
  <2> QED BY <1>2, <1>3, <2>1, <2>2 DEF MemoryInv, TypeOK, Stages, Ended
<1>5. Whole(refs)' /\ \A q \in Reqs : Whole(seen[q])'
  BY ReplacedAreWhole DEF MemoryInv, TypeOK, Whole
<1>6. \A q \in Reqs : stage[q] = "answered" => stage'[q] = "answered"
  BY DEF MemoryInv, TypeOK
<1>7. p \in Updates => \A q \in Reqs \ {p} : AnotherAnswered(q)'
  BY DEF AnotherAnswered, MemoryInv, TypeOK
<1>8. ASSUME NEW q \in Reqs PROVE RequestOf(q)' /\ CopyOf(q)'
  <2>1. CASE q = p
    BY <2>1 DEF RequestOf, CopyOf, NoPayload, Working, Ended, MemoryInv, TypeOK
  <2>2. CASE q # p
    <3>1. /\ RequestOf(q) /\ CopyOf(q) /\ stage'[q] = stage[q] /\ copy'[q] = copy[q]
          /\ request'[q] = request[q]
      BY <2>2 DEF MemoryInv, TypeOK
    <3>2. AnotherAnswered(q) => AnotherAnswered(q)'
      BY <1>6 DEF AnotherAnswered, Reqs
    <3> QED BY <1>2, <1>7, <2>2, <3>1, <3>2 DEF RequestOf, CopyOf
  <2> QED BY <2>1, <2>2
<1>9. OneUpdateKeepsTheExpiry'
  <2> SUFFICES ASSUME row'.type = "short_term", row'.expires = "none"
               PROVE  \E u, v \in Updates : u # v /\ stage'[u] = "answered" /\ stage'[v] = "answered"
    BY DEF OneUpdateKeepsTheExpiry
  <2>1. CASE row.type = "short_term" /\ row.expires = "none"
    BY <1>1, <1>6, <2>1 DEF MemoryInv, CopyOf, OneUpdateKeepsTheExpiry, Reqs
  <2>2. CASE ~ (row.type = "short_term" /\ row.expires = "none")
    <3>1. p \in Updates /\ AnotherAnswered(p)
      BY <1>2, <2>2
    <3> QED BY <1>6, <3>1 DEF AnotherAnswered, Reqs, MemoryInv, TypeOK
  <2> QED BY <2>1, <2>2
<1> QED BY <1>2, <1>4, <1>5, <1>8, <1>9 DEF MemoryInv

LEMMA StepKeepsMemoryInv == MemoryInv /\ [Next]_vars => MemoryInv'
<1> SUFFICES ASSUME MemoryInv, [Next]_vars PROVE MemoryInv'
  OBVIOUS
<1>1. ASSUME NEW p \in Reqs, Flush(p) \/ FindRefs(p) \/ EraseRefs(p) \/ Reflush(p)
      PROVE  MemoryInv'
  <2>1. /\ stage[p] \in Working /\ \E s \in Working : stage' = [stage EXCEPT ![p] = s]
        /\ UNCHANGED <<row, refs, log, copy, request>>
        /\ seen' = seen \/ seen' = [seen EXCEPT ![p] = refs]
    BY <1>1 DEF Flush, FindRefs, EraseRefs, Reflush, Working, Stages, Ended, database
  <2>2. rowLock' \subseteq Reqs
    BY <1>1 DEF Flush, FindRefs, EraseRefs, Reflush, TakeLock, database, MemoryInv, TypeOK
  <2> QED BY <2>1, <2>2, WaitingKeeps
<1>2. ASSUME NEW p \in Reqs, FindsNothing(p) \/ Abort(p) PROVE MemoryInv'
  <2>1. /\ stage[p] \notin Ended
        /\ \E s \in {"refused", "aborted"} : stage' = [stage EXCEPT ![p] = s]
        /\ UNCHANGED <<row, refs, log>>
        /\ \/ UNCHANGED <<copy, request, seen>>
           \/ /\ copy' = [copy EXCEPT ![p] = NoRow] /\ request' = [request EXCEPT ![p] = NoPayload]
              /\ seen' = [seen EXCEPT ![p] = {}]
    BY <1>2 DEF FindsNothing, Abort, Forget, Ended, database
  <2>2. rowLock' \subseteq Reqs
    BY <1>2 DEF FindsNothing, Abort, Forget, database, MemoryInv, TypeOK
  <2> QED BY <2>1, <2>2, LeavingKeeps
<1>3. ASSUME NEW p \in Reqs, Read(p) \/ Commit(p) PROVE MemoryInv'
  BY <1>3, ReadKeeps, CommitKeeps
<1>4. CASE Create \/ Expire
  BY <1>4, CreateKeeps, ExpireKeeps
<1>5. CASE UNCHANGED vars
  BY <1>5
  DEF vars, database, MemoryInv, TypeOK, Whole, RequestOf, CopyOf, AnotherAnswered,
      OneUpdateKeepsTheExpiry
<1> QED BY <1>1, <1>2, <1>3, <1>4, <1>5 DEF Next, Step

-----------------------------------------------------------------------------
(* The count and the events. *)

\* No count, of the row or of a copy, is more than the events add up to; the
\* event of a request comes with its answer.
CountInv ==
  /\ IsFiniteSet(log)
  /\ \A e \in log : stage[e.by] = "answered"
  /\ log # {} => row.exists
  /\ \A p \in Reqs : copy[p].count <= Cardinality(Units(log))
  /\ CountIsWithinEvents

LEMMA UnitsOfOne ==
  ASSUME NEW x, NEW n \in Nat
  PROVE  IsFiniteSet({x} \X (1 .. n)) /\ Cardinality({x} \X (1 .. n)) = n
<1> DEFINE pair == [i \in 1 .. n |-> <<x, i>>]
<1>1. IsFiniteSet(1 .. n) /\ Cardinality(1 .. n) = n
  BY FS_Interval
<1>2. pair \in [1 .. n -> {x} \X (1 .. n)] /\ IsInjective(pair)
  BY DEF IsInjective
<1>3. ASSUME NEW u \in {x} \X (1 .. n) PROVE \E i \in 1 .. n : pair[i] = u
  <2>1. u[2] \in 1 .. n /\ u = <<x, u[2]>>
    OBVIOUS
  <2>2. pair[u[2]] = u
    BY <2>1
  <2> QED BY <2>1, <2>2
<1>4. ExistsBijection(1 .. n, {x} \X (1 .. n))
  BY <1>2, <1>3 DEF ExistsBijection, Bijection, Injection, Surjection
<1> QED BY <1>1, <1>4, FS_Bijection

LEMMA UnitsAreFinite ==
  ASSUME NEW S, IsFiniteSet(S)
  PROVE  IsFiniteSet(Units(S)) /\ Cardinality(Units(S)) \in Nat
<1>1. IsFiniteSet(1 .. MaxAmount)
  BY MaxAmountAssumption, FS_Interval
<1>2. IsFiniteSet(S \X (1 .. MaxAmount))
  BY <1>1, FS_Product
<1>3. Units(S) \in SUBSET (S \X (1 .. MaxAmount))
  BY DEF Units
<1> QED BY <1>2, <1>3, FS_Subset, FS_CardinalityType

\* One more event adds its amount.
LEMMA OneMoreEvent ==
  ASSUME NEW S \in SUBSET LogEntries, IsFiniteSet(S), NEW e \in LogEntries, e \notin S
  PROVE  Cardinality(Units(S \cup {e})) = Cardinality(Units(S)) + e.amount
<1>1. e.amount \in Nat /\ e.amount <= MaxAmount /\ MaxAmount \in Nat
  BY MaxAmountAssumption DEF LogEntries
<1>2. /\ IsFiniteSet(Units(S)) /\ Cardinality(Units(S)) \in Nat
      /\ IsFiniteSet({e} \X (1 .. e.amount)) /\ Cardinality({e} \X (1 .. e.amount)) = e.amount
  BY <1>1, UnitsAreFinite, UnitsOfOne
<1>3. Units(S \cup {e}) = Units(S) \cup ({e} \X (1 .. e.amount))
  <2>1. ASSUME NEW u \in Units(S \cup {e}) PROVE u \in Units(S) \cup ({e} \X (1 .. e.amount))
    <3>1. u \in (S \cup {e}) \X (1 .. MaxAmount) /\ u[2] <= u[1].amount
      BY DEF Units
    <3>2. CASE u[1] \in S
      BY <3>1, <3>2 DEF Units
    <3>3. CASE u[1] = e
      <4>1. u = <<u[1], u[2]>> /\ u[2] \in 1 .. MaxAmount
        BY <3>1
      <4>2. u = <<e, u[2]>> /\ u[2] <= e.amount
        BY <3>1, <3>3, <4>1
      <4>3. u[2] \in 1 .. e.amount
        BY <1>1, <4>1, <4>2
      <4> QED BY <4>2, <4>3
    <3> QED BY <3>1, <3>2, <3>3
  <2>2. ASSUME NEW u \in {e} \X (1 .. e.amount) PROVE u \in Units(S \cup {e})
    <3>1. u = <<e, u[2]>> /\ u[2] \in 1 .. e.amount
      OBVIOUS
    <3>2. u[2] \in 1 .. MaxAmount /\ u[2] <= e.amount /\ u[1] = e
      BY <1>1, <3>1
    <3> QED BY <3>1, <3>2 DEF Units
  <2>3. Units(S) \subseteq Units(S \cup {e})
    BY DEF Units
  <2> QED BY <2>1, <2>2, <2>3
<1>4. Units(S) \cap ({e} \X (1 .. e.amount)) = {}
  BY DEF Units
<1>5. Cardinality(Units(S) \cup ({e} \X (1 .. e.amount)))
        = Cardinality(Units(S)) + Cardinality({e} \X (1 .. e.amount)) - Cardinality({})
  BY <1>2, <1>4, FS_Union
<1>6. Cardinality({}) = 0
  BY FS_EmptySet
<1> DEFINE All == Cardinality(Units(S) \cup ({e} \X (1 .. e.amount)))
           Old == Cardinality(Units(S))
           New == Cardinality({e} \X (1 .. e.amount))
<1>7. All = Old + New - 0 /\ New = e.amount /\ Old \in Nat /\ e.amount \in Nat
  BY <1>1, <1>2, <1>5, <1>6
<1>8. Cardinality(Units(S \cup {e})) = All
  BY <1>3
<1> HIDE DEF All, Old, New
<1>9. All = Old + e.amount
  BY <1>7
<1> QED BY <1>8, <1>9 DEF Old

\* The count the transaction of p leaves.
LEMMA WrittenCount ==
  ASSUME MemoryInv, NEW p \in Reqs
  PROVE  /\ Written(p).count = IF request[p].amount > 0 THEN copy[p].count + request[p].amount
                               ELSE row.count
         /\ copy[p].count \in Nat /\ request[p].amount \in 0 .. MaxAmount /\ row.count \in Nat
<1>1. /\ row \in Rows /\ copy[p] \in Rows /\ request[p] \in Payloads
      /\ copy[p].count \in Nat /\ request[p].amount \in 0 .. MaxAmount /\ row.count \in Nat
  BY DEF MemoryInv, TypeOK, Rows, Payloads
<1>2. Edited(p).count = copy[p].count + request[p].amount
  BY <1>1 DEF Edited, Rows
<1>3. Written(p).count = IF request[p].amount > 0 THEN Edited(p).count ELSE row.count
  BY <1>1 DEF Written, Rows
<1> QED BY <1>1, <1>2, <1>3

LEMMA InitCountInv == Init => CountInv
<1> SUFFICES ASSUME Init PROVE CountInv
  OBVIOUS
<1>1. Units({}) = {}
  BY DEF Units
<1>2. IsFiniteSet({}) /\ Cardinality({}) = 0
  BY FS_EmptySet
<1>3. log = {} /\ row.count = 0 /\ \A p \in Reqs : copy[p].count = 0
  BY DEF Init, NoRow
<1> QED BY <1>1, <1>2, <1>3 DEF CountInv, CountIsWithinEvents, Reinforcements

LEMMA StepKeepsCountInv == MemoryInv /\ CountInv /\ [Next]_vars => CountInv'
<1> SUFFICES ASSUME MemoryInv, CountInv, [Next]_vars PROVE CountInv'
  OBVIOUS
<1>0. /\ stage \in [Reqs -> Stages] /\ copy \in [Reqs -> Rows] /\ log \subseteq LogEntries
      /\ row \in Rows /\ \A e \in log : e.by \in Reqs
  BY DEF MemoryInv, TypeOK, LogEntries
<1>1. /\ IsFiniteSet(Units(log)) /\ Cardinality(Units(log)) \in Nat
      /\ Units({}) = {} /\ Cardinality({}) = 0 /\ IsFiniteSet(log)
  BY UnitsAreFinite, FS_EmptySet DEF CountInv, Units
<1>2. CASE Create
  <2>1. log = {} /\ log' = log /\ row'.count = 0 /\ UNCHANGED <<stage, copy>>
    BY <1>2 DEF Create, CountInv, NoRow
  <2> QED BY <1>1, <2>1 DEF CountInv, CountIsWithinEvents, Reinforcements
<1>3. CASE Expire
  <2>1. row'.count = row.count /\ row'.exists = row.exists /\ UNCHANGED <<log, stage, copy>>
    BY <1>0, <1>3 DEF Expire, Rows
  <2> QED BY <2>1 DEF CountInv, CountIsWithinEvents, Reinforcements
<1>4. ASSUME NEW p \in Reqs, Read(p) PROVE CountInv'
  <2>1. /\ row' = row /\ log' = log /\ copy' = [copy EXCEPT ![p] = row]
        /\ stage[p] = "post" /\ stage' = [stage EXCEPT ![p] = "flush"]
    BY <1>4 DEF Read, database
  <2>2. \A e \in log : stage'[e.by] = "answered"
    BY <1>0, <2>1 DEF CountInv
  <2>3. \A q \in Reqs : copy'[q].count <= Cardinality(Units(log))
    BY <1>0, <2>1 DEF CountInv, CountIsWithinEvents
  <2> QED BY <2>1, <2>2, <2>3 DEF CountInv, CountIsWithinEvents, Reinforcements
<1>5. ASSUME NEW p \in Reqs, FindsNothing(p) \/ Flush(p) \/ FindRefs(p) \/ EraseRefs(p) \/ Reflush(p)
      PROVE  CountInv'
  <2>1. row' = row /\ log' = log /\ copy' = copy
    BY <1>5 DEF FindsNothing, Flush, FindRefs, EraseRefs, Reflush, database
  <2>2. stage[p] # "answered" /\ \E s : stage' = [stage EXCEPT ![p] = s]
    BY <1>5 DEF FindsNothing, Flush, FindRefs, EraseRefs, Reflush
  <2>3. \A e \in log : stage'[e.by] = "answered"
    BY <1>0, <2>2 DEF CountInv
  <2> QED BY <2>1, <2>3 DEF CountInv, CountIsWithinEvents, Reinforcements
<1>6. ASSUME NEW p \in Reqs, Abort(p) PROVE CountInv'
  <2>1. /\ row' = row /\ log' = log /\ copy' = [copy EXCEPT ![p] = NoRow]
        /\ stage[p] # "answered" /\ stage' = [stage EXCEPT ![p] = "aborted"]
    BY <1>6 DEF Abort, Forget, Ended
  <2>2. \A e \in log : stage'[e.by] = "answered"
    BY <1>0, <2>1 DEF CountInv
  <2>3. \A q \in Reqs : copy'[q].count <= Cardinality(Units(log))
    BY <1>0, <1>1, <2>1 DEF CountInv, NoRow
  <2> QED BY <2>1, <2>2, <2>3 DEF CountInv, CountIsWithinEvents, Reinforcements
<1>7. ASSUME NEW p \in Reqs, Commit(p) PROVE CountInv'
  <2> DEFINE e == [by |-> p, amount |-> request[p].amount]
  <2>1. /\ row' = Written(p) /\ log' = log \cup {e} /\ copy' = [copy EXCEPT ![p] = NoRow]
        /\ stage[p] = "commit" /\ stage' = [stage EXCEPT ![p] = "answered"]
    BY <1>7 DEF Commit, Forget, Logged
  <2>2. /\ row'.count = IF e.amount > 0 THEN copy[p].count + e.amount ELSE row.count
        /\ copy[p].count \in Nat /\ e.amount \in Nat /\ e.amount \in 0 .. MaxAmount /\ row.count \in Nat
    BY <2>1, MaxAmountAssumption, WrittenCount
  <2>3. e \in LogEntries /\ e.by = p /\ e \notin log
    <3>1. e \in LogEntries /\ e.by = p
      BY <2>2 DEF LogEntries
    <3> HIDE DEF e
    <3> QED BY <2>1, <3>1 DEF CountInv
  <2>4. row'.exists
    <3>1. stage[p] \in Working
      BY <2>1 DEF Working, Stages, Ended
    <3> QED BY <2>1, <3>1, WrittenColumns
  <2> HIDE DEF e
  <2>5. Cardinality(Units(log')) = Cardinality(Units(log)) + e.amount
    BY <1>0, <1>1, <2>1, <2>3, OneMoreEvent
  <2>6. IsFiniteSet(log')
    BY <1>1, <2>1, FS_AddElement
  <2>7. \A f \in log' : stage'[f.by] = "answered"
    BY <1>0, <2>1, <2>3 DEF CountInv
  <2>8. ASSUME NEW q \in Reqs PROVE copy'[q].count <= Cardinality(Units(log'))
    <3>1. copy[q].count \in Nat /\ copy[q].count <= Cardinality(Units(log))
      BY <1>0 DEF Rows, CountInv
    <3>2. copy'[q].count = 0 \/ copy'[q].count = copy[q].count
      BY <1>0, <2>1 DEF NoRow
    <3> QED BY <1>1, <2>2, <2>5, <3>1, <3>2
  <2>9. row'.count <= Cardinality(Units(log'))
    <3>1. copy[p].count <= Cardinality(Units(log)) /\ row.count <= Cardinality(Units(log))
      BY DEF CountInv, CountIsWithinEvents
    <3> QED BY <1>1, <2>2, <2>5, <3>1
  <2>10. ASSUME Reinforcements' # {} PROVE \E f \in Reinforcements' : row'.count >= f.amount
    <3>1. Reinforcements' = {f \in log \cup {e} : f.amount > 0}
      BY <2>1 DEF Reinforcements
    <3>2. CASE e.amount > 0
      <4>1. e \in Reinforcements' /\ row'.count >= e.amount
        BY <2>2, <3>1, <3>2
      <4> QED BY <4>1
    <3>3. CASE ~ (e.amount > 0)
      <4>1. row'.count = row.count
        BY <2>2, <3>3
      <4>2. Reinforcements' = Reinforcements
        BY <3>1, <3>3 DEF Reinforcements
      <4> QED BY <2>10, <4>1, <4>2 DEF CountInv, CountIsWithinEvents
    <3> QED BY <3>2, <3>3
  <2> QED BY <2>4, <2>6, <2>7, <2>8, <2>9, <2>10 DEF CountInv, CountIsWithinEvents
<1>8. CASE UNCHANGED vars
  BY <1>8 DEF vars, database, CountInv, CountIsWithinEvents, Reinforcements
<1> QED BY <1>2, <1>3, <1>4, <1>5, <1>6, <1>7, <1>8 DEF Next, Step

-----------------------------------------------------------------------------
(* The theorems. *)

\* MemoryInv holds in every state of every behaviour.
THEOREM MemoryInvariant == Spec => []MemoryInv
BY InitMemoryInv, StepKeepsMemoryInv, PTL DEF Spec

\* The variables keep their types, for any number of requests and any bound on
\* the amounts.
THEOREM TypeCorrect == Spec => []TypeOK
<1>1. MemoryInv => TypeOK
  BY DEF MemoryInv
<1> QED BY <1>1, MemoryInvariant, PTL

\* Updates store their references whole and one of them alone never leaves a
\* short-term memory without an expiry, however many race.
THEOREM EditsStayWhole == Spec => []EditsAreWhole
<1>1. MemoryInv => EditsAreWhole
  <2> SUFFICES ASSUME MemoryInv PROVE ReferencesAreWhole /\ OneUpdateKeepsTheExpiry
    BY DEF EditsAreWhole
  <2>1. refs \subseteq Updates \X {1, 2} /\ Whole(refs)
    BY DEF MemoryInv, TypeOK, Refs
  <2>2. ASSUME NEW p \in Updates, NEW r \in refs, r[1] = p PROVE {p} \X {1, 2} \subseteq refs
    <3>1. r = <<p, 1>> \/ r = <<p, 2>>
      BY <2>1, <2>2
    <3> QED BY <2>1, <2>2, <3>1 DEF Whole
  <2> QED BY <2>2 DEF MemoryInv, ReferencesAreWhole
<1> QED BY <1>1, MemoryInvariant, PTL

\* A deleted memory does not come back, and no request that begins later finds it.
THEOREM DeletedStays == Spec => DeletedIsFinal
<1>1. MemoryInv /\ [Next]_vars =>
        [ row.deleted =>
            /\ row'.deleted
            /\ \A p \in Reqs : stage[p] = "post" => stage'[p] \in {"post", "refused"} ]_vars
  <2> SUFFICES ASSUME MemoryInv, Next, row.deleted
               PROVE  /\ row'.deleted
                      /\ \A p \in Reqs : stage[p] = "post" => stage'[p] \in {"post", "refused"}
    OBVIOUS
  <2>1. CASE Create
    BY <2>1 DEF Create, MemoryInv
  <2>2. CASE Expire
    BY <2>2 DEF Expire, MemoryInv, TypeOK, Rows
  <2>3. ASSUME NEW p \in Reqs, Step(p)
        PROVE  /\ row'.deleted
               /\ \A q \in Reqs : stage[q] = "post" => stage'[q] \in {"post", "refused"}
    <3>1. CASE Read(p)
      BY <3>1 DEF Read, Finds
    <3>2. CASE Commit(p)
      BY <3>2, WrittenColumns DEF Commit, Working, Stages, Ended, MemoryInv, TypeOK
    <3>3. CASE FindsNothing(p) \/ Flush(p) \/ FindRefs(p) \/ EraseRefs(p) \/ Reflush(p) \/ Abort(p)
      BY <3>3
      DEF FindsNothing, Flush, FindRefs, EraseRefs, Reflush, Abort, database, Ended, MemoryInv, TypeOK
    <3> QED BY <2>3, <3>1, <3>2, <3>3 DEF Step
  <2> QED BY <2>1, <2>2, <2>3 DEF Next
<1> QED BY <1>1, MemoryInvariant, PTL DEF Spec, DeletedIsFinal

\* However many reinforcements and recalls race, the count stays within what
\* their events add up to, and no edit takes it below all of them.
THEOREM CountStaysWithinEvents == Spec => []CountIsWithinEvents
<1>1. CountInv => CountIsWithinEvents
  BY DEF CountInv
<1>2. Spec => []CountInv
  BY InitCountInv, StepKeepsCountInv, MemoryInvariant, PTL DEF Spec
<1> QED BY <1>1, <1>2, PTL
=============================================================================
