------------------------ MODULE ContextPlanningProofs ------------------------
(***************************************************************************)
(* What ContextPlanning keeps, for any set of providers, priorities, data  *)
(* keys, tools and limits the assumptions allow.                           *)
(*                                                                         *)
(* The folds of the model are recursive functions, and the induction of    *)
(* the library cannot be used here; what they compute is shown from the    *)
(* least counterexample instead (LeastNumber, SmallestSet).                *)
(***************************************************************************)
EXTENDS ContextPlanning, FiniteSetTheorems, SequenceTheorems, WellFoundedInduction, TLAPS

-----------------------------------------------------------------------------
(* Least counterexamples. *)

LEMMA LeastNumber ==
  ASSUME NEW S, S \subseteq Nat, S # {}
  PROVE  \E n \in S : \A m \in S : n <= m
<1>1. PICK n \in S : \A m \in S : ~ <<m, n>> \in OpToRel(<, Nat)
  BY NatLessThanWellFounded, WFMin
<1>2. \A m \in S : ~ (m < n)
  BY <1>1 DEF OpToRel
<1> QED BY <1>2

LEMMA SmallestSet ==
  ASSUME NEW S, IsFiniteSet(S), NEW C, C \subseteq SUBSET S, C # {}
  PROVE  \E T \in C : \A U \in C : U \subseteq T => U = T
<1>1. C \subseteq FiniteSubsetsOf(S)
  BY FS_Subset DEF FiniteSubsetsOf
<1>2. PICK T \in C : \A U \in C : ~ <<U, T>> \in StrictSubsetOrdering(S)
  BY <1>1, FS_StrictSubsetOrderingWellFounded, WFMin
<1>3. \A U \in C : ~ (U \in SUBSET S /\ T \in SUBSET S /\ U \subseteq T /\ U # T)
  BY <1>2 DEF StrictSubsetOrdering
<1> QED BY <1>3

-----------------------------------------------------------------------------
(* Providers in their order. *)

\* Outranks orders the providers: NameRank tells apart those of one priority.
LEMMA OutranksOrders ==
  ASSUME NEW p \in Providers, NEW q \in Providers
  PROVE  /\ ~ Outranks(p, p)
         /\ p # q => Outranks(p, q) \/ Outranks(q, p)
         /\ ~ (Outranks(p, q) /\ Outranks(q, p))
         /\ \A r \in Providers : Outranks(p, q) /\ Outranks(q, r) => Outranks(p, r)
<1>1. \A x \in Providers : Priority[x] \in Nat /\ NameRank[x] \in Nat
  BY ProvidersAssumption
<1>2. p # q => NameRank[p] # NameRank[q]
  BY ProvidersAssumption DEF IsInjective
<1> QED BY <1>1, <1>2 DEF Outranks

Before(names, p) == {q \in names : Outranks(q, p)}

\* The place of a provider among some, counted from none before it.
LEMMA Places ==
  ASSUME NEW names \in SUBSET Providers, IsFiniteSet(names), NEW p \in names
  PROVE  /\ IsFiniteSet(Before(names, p))
         /\ Cardinality(Before(names, p)) \in 0 .. Cardinality(names) - 1
         /\ \A q \in names : Outranks(p, q) =>
              Cardinality(Before(names, p)) < Cardinality(Before(names, q))
<1>1. /\ IsFiniteSet(Before(names, p)) /\ Cardinality(Before(names, p)) \in Nat
      /\ Cardinality(Before(names, p)) <= Cardinality(names \ {p})
  <2>1. Before(names, p) \in SUBSET (names \ {p}) /\ IsFiniteSet(names \ {p})
    BY OutranksOrders, FS_RemoveElement DEF Before
  <2> QED BY <2>1, FS_Subset, FS_CardinalityType
<1>2. Cardinality(names \ {p}) = Cardinality(names) - 1 /\ Cardinality(names) \in Nat
  BY FS_RemoveElement, FS_CardinalityType
<1>3. ASSUME NEW q \in names, Outranks(p, q)
      PROVE  Cardinality(Before(names, p)) < Cardinality(Before(names, q))
  <2>1. Before(names, p) \in SUBSET Before(names, q) /\ p \in Before(names, q) \ Before(names, p)
    BY <1>3, OutranksOrders DEF Before
  <2>2. Before(names, q) \in SUBSET names
    BY DEF Before
  <2>3. IsFiniteSet(Before(names, q)) /\ Cardinality(Before(names, q)) \in Nat
    BY <2>2, FS_Subset, FS_CardinalityType
  <2>4. /\ Cardinality(Before(names, p)) <= Cardinality(Before(names, q))
        /\ Cardinality(Before(names, p)) # Cardinality(Before(names, q))
    BY <2>1, <2>3, FS_Subset
  <2> QED BY <1>1, <2>3, <2>4
<1> QED BY <1>1, <1>2, <1>3

\* What Ranked lists: each provider once, none before one that outranks it.
LEMMA RankedLists ==
  ASSUME NEW names \in SUBSET Providers, IsFiniteSet(names)
  PROVE  /\ Ranked(names) \in Seq(Providers) /\ Len(Ranked(names)) = Cardinality(names)
         /\ Cardinality(names) \in Nat /\ DOMAIN Ranked(names) = 1 .. Cardinality(names)
         /\ Range(Ranked(names)) = names
         /\ \A i, j \in 1 .. Cardinality(names) : i < j => Outranks(Ranked(names)[i], Ranked(names)[j])
<1> DEFINE n == Cardinality(names)
           place == [p \in names |-> Cardinality(Before(names, p)) + 1]
<1>1. n \in Nat
  BY FS_CardinalityType
<1>2. place \in [names -> 1 .. n]
  BY <1>1, Places
<1>3. \A p, q \in names : Outranks(p, q) => place[p] < place[q]
  <2>1. \A p \in names : Cardinality(Before(names, p)) \in Nat
    BY <1>1, Places
  <2> QED BY <2>1, Places
<1>4. IsInjective(place)
  <2> SUFFICES ASSUME NEW p \in names, NEW q \in names, place[p] = place[q], p # q PROVE FALSE
    BY DEF IsInjective
  <2>1. Outranks(p, q) \/ Outranks(q, p)
    BY OutranksOrders
  <2>2. place[p] \in Nat /\ place[q] \in Nat
    BY <1>1, <1>2
  <2> QED BY <1>3, <2>1, <2>2
<1>5. IsFiniteSet(1 .. n) /\ Cardinality(1 .. n) = n
  BY <1>1, FS_Interval
<1>6. place \in Surjection(names, 1 .. n)
  <2>1. place \in Injection(names, 1 .. n)
    BY <1>2, <1>4 DEF Injection
  <2> QED BY <1>5, <2>1, FS_Injection
<1>7. \A i \in 1 .. n : \E p \in names : place[p] = i
  BY <1>6 DEF Surjection
<1>8. ASSUME NEW i \in 1 .. n
      PROVE  Ranked(names)[i] \in names /\ place[Ranked(names)[i]] = i
  <2>1. \E p \in names : Cardinality({q \in names : Outranks(q, p)}) = i - 1
    <3>1. PICK p \in names : place[p] = i
      BY <1>7
    <3>2. Cardinality(Before(names, p)) \in Nat /\ Cardinality(Before(names, p)) + 1 = i
      BY <1>1, <3>1, Places
    <3> QED BY <3>2 DEF Before
  <2>2. /\ Ranked(names)[i] \in names
        /\ Cardinality({q \in names : Outranks(q, Ranked(names)[i])}) = i - 1
    BY <2>1 DEF Ranked
  <2> QED BY <2>2 DEF Before
<1>9. DOMAIN Ranked(names) = 1 .. n /\ Ranked(names) \in [1 .. n -> names]
  BY <1>8 DEF Ranked
<1>10. \A p \in names : Ranked(names)[place[p]] = p
  <2>1. \A p \in names : place[p] \in 1 .. n
    BY <1>2
  <2>2. \A p \in names : place[Ranked(names)[place[p]]] = place[p] /\ Ranked(names)[place[p]] \in names
    BY <1>8, <2>1
  <2>3. DOMAIN place = names
    OBVIOUS
  <2> HIDE DEF place
  <2> QED BY <1>4, <2>2, <2>3 DEF IsInjective
<1>11. Range(Ranked(names)) = names
  <2>1. \A p \in names : place[p] \in 1 .. n
    BY <1>2
  <2> HIDE DEF place
  <2> QED BY <1>9, <1>10, <2>1 DEF Range
<1>12. ASSUME NEW i \in 1 .. n, NEW j \in 1 .. n, i < j
       PROVE  Outranks(Ranked(names)[i], Ranked(names)[j])
  <2>1. PICK p \in names : p = Ranked(names)[i] /\ place[p] = i
    BY <1>8
  <2>2. PICK q \in names : q = Ranked(names)[j] /\ place[q] = j
    BY <1>8
  <2>3. p # q /\ ~ Outranks(q, p)
    BY <1>1, <1>3, <1>12, <2>1, <2>2
  <2> QED BY <2>1, <2>2, <2>3, OutranksOrders
<1>13. Ranked(names) \in Seq(Providers) /\ Len(Ranked(names)) = n
  BY <1>1, <1>9
<1> QED BY <1>1, <1>9, <1>11, <1>12, <1>13

-----------------------------------------------------------------------------
(* Sums over finite sets. *)

\* The recursion SumFunctionOnSet chooses a function for.
Summing(fun, S, g) ==
  g = [s \in SUBSET S |->
         IF s = {} THEN 0 ELSE LET x == CHOOSE x \in s : TRUE IN fun[x] + g[s \ {x}]]

LEMMA SumIsTheRecursion ==
  ASSUME NEW fun, NEW S
  PROVE  SumFunctionOnSet(fun, S) = (CHOOSE g : Summing(fun, S, g))[S]
BY DEF SumFunctionOnSet, FoldFunctionOnSet, MapThenFoldSet, Summing

\* As many pairs as a sum has units.
Units(fun, s) == UNION {{x} \X (1 .. fun[x]) : x \in s}

LEMMA UnitsOfOne ==
  ASSUME NEW x, NEW n \in Nat
  PROVE  IsFiniteSet({x} \X (1 .. n)) /\ Cardinality({x} \X (1 .. n)) = n
<1> DEFINE pair == [i \in 1 .. n |-> <<x, i>>]
<1>1. IsFiniteSet(1 .. n) /\ Cardinality(1 .. n) = n
  BY FS_Interval
<1>2. pair \in [1 .. n -> {x} \X (1 .. n)] /\ IsInjective(pair)
  BY DEF IsInjective
<1>3. \A t \in {x} \X (1 .. n) : \E i \in 1 .. n : pair[i] = t
  <2> SUFFICES ASSUME NEW t \in {x} \X (1 .. n) PROVE \E i \in 1 .. n : pair[i] = t
    OBVIOUS
  <2>1. t[2] \in 1 .. n /\ t = <<x, t[2]>>
    OBVIOUS
  <2>2. pair[t[2]] = t
    BY <2>1
  <2> QED BY <2>1, <2>2
<1>4. ExistsBijection(1 .. n, {x} \X (1 .. n))
  BY <1>2, <1>3 DEF ExistsBijection, Bijection, Injection, Surjection
<1> QED BY <1>1, <1>4, FS_Bijection

LEMMA UnitsOfMore ==
  ASSUME NEW S, NEW fun \in [S -> Nat], NEW s \in SUBSET S, NEW x \in s
  PROVE  /\ Units(fun, s) = Units(fun, s \ {x}) \cup ({x} \X (1 .. fun[x]))
         /\ Units(fun, s \ {x}) \cap ({x} \X (1 .. fun[x])) = {}
<1>1. \A y : Units(fun, {}) = {}
  BY DEF Units
<1>2. \A t : t \in Units(fun, s) <=> \E y \in s : t \in {y} \X (1 .. fun[y])
  BY DEF Units
<1>3. \A t : t \in Units(fun, s \ {x}) <=> \E y \in s \ {x} : t \in {y} \X (1 .. fun[y])
  BY DEF Units
<1>4. Units(fun, s \ {x}) \cap ({x} \X (1 .. fun[x])) = {}
  <2> SUFFICES ASSUME NEW t \in Units(fun, s \ {x}), t \in {x} \X (1 .. fun[x]) PROVE FALSE
    OBVIOUS
  <2>1. PICK y \in s \ {x} : t \in {y} \X (1 .. fun[y])
    BY <1>3
  <2>2. t[1] = y /\ t[1] = x
    BY <2>1
  <2> QED BY <2>2
<1>5. Units(fun, s) = Units(fun, s \ {x}) \cup ({x} \X (1 .. fun[x]))
  BY <1>2, <1>3
<1> QED BY <1>4, <1>5

LEMMA UnitsAreFinite ==
  ASSUME NEW S, IsFiniteSet(S), NEW fun \in [S -> Nat], NEW s \in SUBSET S
  PROVE  IsFiniteSet(Units(fun, s)) /\ Cardinality(Units(fun, s)) \in Nat
<1> DEFINE Bad == {u \in SUBSET S : ~ IsFiniteSet(Units(fun, u))}
<1>1. Bad = {}
  <2> SUFFICES ASSUME Bad # {} PROVE FALSE
    OBVIOUS
  <2>0. Bad \in SUBSET (SUBSET S)
    OBVIOUS
  <2>1. PICK u \in Bad : \A v \in Bad : v \subseteq u => v = u
    <3> HIDE DEF Bad
    <3> QED BY <2>0, SmallestSet
  <2>2. CASE u = {}
    BY <2>2, FS_EmptySet DEF Units
  <2>3. CASE u # {}
    <3>1. PICK x : x \in u
      BY <2>3
    <3>2. u \ {x} \in SUBSET S /\ u \ {x} # u /\ u \ {x} \subseteq u
      BY <3>1
    <3>3. IsFiniteSet(Units(fun, u \ {x}))
      BY <2>1, <3>2
    <3>4. fun[x] \in Nat /\ u \in SUBSET S
      BY <3>1
    <3>5. IsFiniteSet({x} \X (1 .. fun[x]))
      BY <3>4, UnitsOfOne
    <3>6. Units(fun, u) = Units(fun, u \ {x}) \cup ({x} \X (1 .. fun[x]))
      BY <3>1, <3>4, UnitsOfMore
    <3>7. IsFiniteSet(Units(fun, u \ {x}) \cup ({x} \X (1 .. fun[x])))
      BY <3>3, <3>5, FS_Union
    <3> QED BY <3>6, <3>7
  <2> QED BY <2>2, <2>3
<1> QED BY <1>1, FS_CardinalityType

\* The recursion has a solution, and every solution counts the units.
LEMMA SumsCount ==
  ASSUME NEW S, IsFiniteSet(S), NEW fun \in [S -> Nat]
  PROVE  /\ \E g : Summing(fun, S, g)
         /\ \A g : Summing(fun, S, g) => \A s \in SUBSET S : g[s] = Cardinality(Units(fun, s))
<1> DEFINE count == [s \in SUBSET S |-> Cardinality(Units(fun, s))]
<1>1. count[{}] = 0 /\ Cardinality(Units(fun, {})) = 0
  BY FS_EmptySet DEF Units
<1>2. ASSUME NEW s \in SUBSET S, NEW x \in s
      PROVE  Cardinality(Units(fun, s)) = fun[x] + Cardinality(Units(fun, s \ {x}))
  <2>1. fun[x] \in Nat /\ s \ {x} \in SUBSET S
    OBVIOUS
  <2>2. /\ IsFiniteSet(Units(fun, s \ {x})) /\ Cardinality(Units(fun, s \ {x})) \in Nat
        /\ IsFiniteSet({x} \X (1 .. fun[x])) /\ Cardinality({x} \X (1 .. fun[x])) = fun[x]
    BY <2>1, UnitsAreFinite, UnitsOfOne
  <2>3. /\ Units(fun, s) = Units(fun, s \ {x}) \cup ({x} \X (1 .. fun[x]))
        /\ Units(fun, s \ {x}) \cap ({x} \X (1 .. fun[x])) = {}
    BY UnitsOfMore
  <2>4. Cardinality(Units(fun, s))
          = Cardinality(Units(fun, s \ {x})) + Cardinality({x} \X (1 .. fun[x])) - Cardinality({})
    BY <2>2, <2>3, FS_Union
  <2> QED BY <2>1, <2>2, <2>4, FS_EmptySet
<1>3. ASSUME NEW s \in SUBSET S
      PROVE  count[s] = IF s = {} THEN 0
                        ELSE LET x == CHOOSE x \in s : TRUE IN fun[x] + count[s \ {x}]
  <2>1. CASE s = {}
    BY <1>1, <2>1
  <2>2. CASE s # {}
    <3>1. PICK x \in s : x = CHOOSE y \in s : TRUE
      BY <2>2
    <3>2. s \ {x} \in SUBSET S /\ count[s] = Cardinality(Units(fun, s))
      OBVIOUS
    <3>3. count[s \ {x}] = Cardinality(Units(fun, s \ {x}))
      BY <3>2
    <3>4. count[s] = fun[x] + count[s \ {x}]
      BY <1>2, <3>2, <3>3
    <3> HIDE DEF count
    <3> QED BY <2>2, <3>1, <3>4
  <2> QED BY <2>1, <2>2
<1>4. Summing(fun, S, count)
  <2>1. count = [s \in SUBSET S |-> count[s]]
    OBVIOUS
  <2> HIDE DEF count
  <2> QED BY <1>3, <2>1 DEF Summing
<1>5. ASSUME NEW g, Summing(fun, S, g)
      PROVE  \A s \in SUBSET S : g[s] = Cardinality(Units(fun, s))
  <2> DEFINE Bad == {s \in SUBSET S : g[s] # Cardinality(Units(fun, s))}
  <2> SUFFICES ASSUME Bad # {} PROVE FALSE
    OBVIOUS
  <2>0. Bad \in SUBSET (SUBSET S)
    OBVIOUS
  <2>1. PICK s \in Bad : \A v \in Bad : v \subseteq s => v = s
    <3> HIDE DEF Bad
    <3> QED BY <2>0, SmallestSet
  <2>2. g[s] = IF s = {} THEN 0 ELSE LET x == CHOOSE x \in s : TRUE IN fun[x] + g[s \ {x}]
    BY <1>5 DEF Summing
  <2>3. CASE s = {}
    BY <1>1, <2>2, <2>3
  <2>4. CASE s # {}
    <3>1. PICK x \in s : x = CHOOSE y \in s : TRUE
      BY <2>4
    <3>2. s \ {x} \in SUBSET S /\ s \ {x} # s /\ s \ {x} \subseteq s /\ s \in SUBSET S
      BY <3>1
    <3>3. g[s \ {x}] = Cardinality(Units(fun, s \ {x}))
      BY <2>1, <3>2
    <3>4. g[s] = fun[x] + g[s \ {x}]
      BY <2>2, <2>4, <3>1
    <3>5. Cardinality(Units(fun, s)) = fun[x] + Cardinality(Units(fun, s \ {x}))
      BY <1>2, <3>2
    <3> QED BY <3>3, <3>4, <3>5
  <2> QED BY <2>3, <2>4
<1> QED BY <1>4, <1>5

\* A sum of numbers is one.
LEMMA SumType ==
  ASSUME NEW D, NEW fun \in [D -> Nat], NEW S \in SUBSET D, IsFiniteSet(S)
  PROVE  SumFunctionOnSet(fun, S) \in Nat
<1> DEFINE part == [x \in S |-> fun[x]]
<1>1. part \in [S -> Nat]
  OBVIOUS
<1>2. \A g : Summing(part, S, g) <=> Summing(fun, S, g)
  <2> SUFFICES ASSUME NEW g PROVE Summing(part, S, g) <=> Summing(fun, S, g)
    OBVIOUS
  <2>1. ASSUME NEW s \in SUBSET S, s # {}
        PROVE  part[CHOOSE x \in s : TRUE] = fun[CHOOSE x \in s : TRUE]
    <3>1. PICK x \in s : x = CHOOSE y \in s : TRUE
      BY <2>1
    <3> QED BY <3>1
  <2>2. [s \in SUBSET S |-> IF s = {} THEN 0
            ELSE LET x == CHOOSE x \in s : TRUE IN part[x] + g[s \ {x}]]
        = [s \in SUBSET S |-> IF s = {} THEN 0
            ELSE LET x == CHOOSE x \in s : TRUE IN fun[x] + g[s \ {x}]]
    <3> HIDE DEF part
    <3> QED BY <2>1
  <2> HIDE DEF part
  <2> QED BY <2>2 DEF Summing
<1> HIDE DEF part
<1>3. \E g : Summing(fun, S, g)
  BY <1>1, <1>2, SumsCount
<1>4. PICK g : g = (CHOOSE f : Summing(fun, S, f))
  OBVIOUS
<1>5. Summing(fun, S, g)
  BY <1>3, <1>4
<1>6. g[S] = Cardinality(Units(part, S)) /\ Cardinality(Units(part, S)) \in Nat
  BY <1>1, <1>2, <1>5, SumsCount, UnitsAreFinite
<1> QED BY <1>4, <1>6, SumIsTheRecursion

-----------------------------------------------------------------------------
(* Which section each key is from. *)

\* The recursion Merged chooses a function for: the sections are merged in
\* their order, so the last of a set of places comes on top of the others.
Merging(order, g) ==
  g = [s \in SUBSET DOMAIN order |->
         IF s = {} THEN <<>> ELSE LET x == Max(s) IN WithTheKeys(g[s \ {x}], order[x])]

LEMMA MergedIsTheRecursion ==
  ASSUME NEW names
  PROVE  Merged(names) = (CHOOSE g : Merging(Ranked(names), g))[DOMAIN Ranked(names)]
BY DEF Merged, FoldLeft, MapThenFoldSet, Merging

LEMMA MaxOfSome ==
  ASSUME NEW n \in Nat, NEW s \in SUBSET (1 .. n), s # {}
  PROVE  Max(s) \in s /\ \A i \in s : i <= Max(s)
<1> DEFINE Above == {m \in 0 .. n : \A i \in s : i <= m}
<1>1. Above \in SUBSET Nat /\ n \in Above
  OBVIOUS
<1>2. PICK m \in Above : \A k \in Above : m <= k
  <2> HIDE DEF Above
  <2> QED BY <1>1, LeastNumber
<1>3. m \in s
  <2> SUFFICES ASSUME m \notin s PROVE FALSE
    OBVIOUS
  <2>1. \A i \in s : i <= m - 1 /\ i >= 1 /\ i \in Nat
    OBVIOUS
  <2>2. m - 1 \in 0 .. n
    <3>1. PICK i \in s : i <= m - 1 /\ i >= 1 /\ i \in Nat
      BY <2>1
    <3>2. m \in 0 .. n
      OBVIOUS
    <3> QED BY <3>1, <3>2
  <2>3. m - 1 \in Above
    BY <2>1, <2>2
  <2> QED BY <1>2, <2>3
<1>4. \A i \in s : i <= m
  OBVIOUS
<1> QED BY <1>3, <1>4 DEF Max

\* The places of some whose section has a key, and the first of them.
Having(order, s, k) == {i \in s : k \in Keys[order[i]]}
First(s) == CHOOSE i \in s : \A j \in s : i <= j

LEMMA FirstOfSome ==
  ASSUME NEW s \in SUBSET Nat, s # {}
  PROVE  First(s) \in s /\ \A j \in s : First(s) <= j
<1>1. PICK i \in s : \A j \in s : i <= j
  BY LeastNumber
<1> QED BY <1>1 DEF First

\* Each key from the first of the places that have it.
FromTheFirst(order, s) ==
  [k \in UNION {Keys[order[i]] : i \in s} |-> order[First(Having(order, s, k))]]

\* A place after all others adds the keys they do not have.
LEMMA OneMorePlace ==
  ASSUME NEW n \in Nat, NEW order, NEW s \in SUBSET (1 .. n), NEW x \in s, \A i \in s : i <= x
  PROVE  FromTheFirst(order, s) = WithTheKeys(FromTheFirst(order, s \ {x}), order[x])
<1> DEFINE rest == s \ {x}
           keys == UNION {Keys[order[i]] : i \in rest}
           left == FromTheFirst(order, rest)
<1>1. DOMAIN left = keys /\ DOMAIN FromTheFirst(order, s) = UNION {Keys[order[i]] : i \in s}
  BY DEF FromTheFirst
<1>2. UNION {Keys[order[i]] : i \in s} = keys \cup Keys[order[x]]
  OBVIOUS
<1>3. ASSUME NEW k \in keys
      PROVE  First(Having(order, s, k)) = First(Having(order, rest, k))
  <2>1. PICK j \in rest : k \in Keys[order[j]]
    OBVIOUS
  <2>2. /\ Having(order, rest, k) \in SUBSET Nat /\ Having(order, rest, k) # {}
        /\ Having(order, s, k) \in SUBSET Nat /\ Having(order, s, k) # {}
    <3>1. j \in Having(order, rest, k) /\ j \in Having(order, s, k)
      BY <2>1 DEF Having
    <3>2. s \in SUBSET Nat /\ rest \in SUBSET Nat
      OBVIOUS
    <3>3. Having(order, rest, k) \subseteq rest /\ Having(order, s, k) \subseteq s
      BY DEF Having
    <3> HIDE DEF rest
    <3> QED BY <3>1, <3>2, <3>3
  <2>3. /\ First(Having(order, rest, k)) \in Having(order, rest, k)
        /\ \A i \in Having(order, rest, k) : First(Having(order, rest, k)) <= i
        /\ First(Having(order, s, k)) \in Having(order, s, k)
        /\ \A i \in Having(order, s, k) : First(Having(order, s, k)) <= i
    BY <2>2, FirstOfSome
  <2>4. \A i \in Having(order, s, k) : i \in Having(order, rest, k) \/ i = x
    BY DEF Having
  <2>5. \A i \in Having(order, rest, k) : i \in Having(order, s, k) /\ i <= x /\ i \in Nat /\ i # x
    BY DEF Having
  <2>6. First(Having(order, s, k)) \in Nat /\ First(Having(order, rest, k)) \in Nat /\ x \in Nat
    BY <2>2, <2>3
  <2> QED BY <2>3, <2>4, <2>5, <2>6
<1>4. ASSUME NEW k \in Keys[order[x]], k \notin keys
      PROVE  First(Having(order, s, k)) = x
  <2>1. Having(order, s, k) = {x}
    BY <1>4 DEF Having
  <2>2. First({x}) \in {x}
    BY FirstOfSome
  <2> QED BY <2>1, <2>2
<1>5. ASSUME NEW k \in keys
      PROVE  left[k] = order[First(Having(order, rest, k))]
  BY DEF FromTheFirst
<1>6. ASSUME NEW k \in keys \cup Keys[order[x]]
      PROVE  FromTheFirst(order, s)[k] = order[First(Having(order, s, k))]
  BY <1>2 DEF FromTheFirst
<1>7. WithTheKeys(left, order[x])
        = [k \in keys \cup Keys[order[x]] |-> IF k \in keys THEN left[k] ELSE order[x]]
  BY <1>1 DEF WithTheKeys
<1>8. FromTheFirst(order, s)
        = [k \in keys \cup Keys[order[x]] |-> order[First(Having(order, s, k))]]
  BY <1>2 DEF FromTheFirst
<1>9. \A k \in keys \cup Keys[order[x]] :
        order[First(Having(order, s, k))] = IF k \in keys THEN left[k] ELSE order[x]
  <2> HIDE DEF keys, left, rest
  <2> QED BY <1>3, <1>4, <1>5
<1> HIDE DEF keys, left
<1>10. [k \in keys \cup Keys[order[x]] |-> order[First(Having(order, s, k))]]
         = [k \in keys \cup Keys[order[x]] |-> IF k \in keys THEN left[k] ELSE order[x]]
  BY <1>9
<1>11. FromTheFirst(order, s) = WithTheKeys(left, order[x])
  BY <1>7, <1>8, <1>10
<1> QED BY <1>11 DEF left

LEMMA NoPlaces ==
  ASSUME NEW order
  PROVE  FromTheFirst(order, {}) = <<>>
<1>1. UNION {Keys[order[i]] : i \in {}} = {}
  OBVIOUS
<1> QED BY <1>1 DEF FromTheFirst

\* The recursion has a solution, and it takes each key from the first place.
LEMMA MergingTakesTheFirst ==
  ASSUME NEW n \in Nat, NEW order, DOMAIN order = 1 .. n
  PROVE  /\ \E g : Merging(order, g)
         /\ \A g : Merging(order, g) => \A s \in SUBSET (1 .. n) : g[s] = FromTheFirst(order, s)
<1> DEFINE firsts == [s \in SUBSET (1 .. n) |-> FromTheFirst(order, s)]
<1>1. ASSUME NEW s \in SUBSET (1 .. n), s # {}
      PROVE  FromTheFirst(order, s) = WithTheKeys(FromTheFirst(order, s \ {Max(s)}), order[Max(s)])
  BY <1>1, MaxOfSome, OneMorePlace
<1>2. \A s \in SUBSET (1 .. n) :
        firsts[s] = IF s = {} THEN <<>>
                    ELSE LET x == Max(s) IN WithTheKeys(firsts[s \ {x}], order[x])
  <2> SUFFICES ASSUME NEW s \in SUBSET (1 .. n)
               PROVE  firsts[s] = IF s = {} THEN <<>>
                                  ELSE LET x == Max(s) IN WithTheKeys(firsts[s \ {x}], order[x])
    OBVIOUS
  <2>1. CASE s = {}
    BY <2>1, NoPlaces
  <2>2. CASE s # {}
    <3>1. s \ {Max(s)} \in SUBSET (1 .. n)
      OBVIOUS
    <3>2. firsts[s] = FromTheFirst(order, s) /\ firsts[s \ {Max(s)}] = FromTheFirst(order, s \ {Max(s)})
      BY <3>1
    <3> HIDE DEF firsts
    <3> QED BY <1>1, <2>2, <3>2
  <2> QED BY <2>1, <2>2
<1>3. Merging(order, firsts)
  <2>1. firsts = [s \in SUBSET (1 .. n) |-> firsts[s]]
    OBVIOUS
  <2> HIDE DEF firsts
  <2>2. [s \in SUBSET (1 .. n) |-> firsts[s]]
          = [s \in SUBSET (1 .. n) |->
               IF s = {} THEN <<>> ELSE LET x == Max(s) IN WithTheKeys(firsts[s \ {x}], order[x])]
    BY <1>2
  <2> QED BY <2>1, <2>2 DEF Merging
<1>4. ASSUME NEW g, Merging(order, g)
      PROVE  \A s \in SUBSET (1 .. n) : g[s] = FromTheFirst(order, s)
  <2> DEFINE Bad == {s \in SUBSET (1 .. n) : g[s] # FromTheFirst(order, s)}
  <2> SUFFICES ASSUME Bad # {} PROVE FALSE
    OBVIOUS
  <2>1. PICK s \in Bad : \A v \in Bad : v \subseteq s => v = s
    <3> DEFINE places == 1 .. n
    <3>1. Bad \in SUBSET (SUBSET places) /\ IsFiniteSet(places)
      BY FS_Interval
    <3> HIDE DEF Bad, places
    <3> QED BY <3>1, SmallestSet
  <2>2. g[s] = IF s = {} THEN <<>> ELSE LET x == Max(s) IN WithTheKeys(g[s \ {x}], order[x])
    BY <1>4 DEF Merging
  <2>3. CASE s = {}
    BY <2>2, <2>3, NoPlaces
  <2>4. CASE s # {}
    <3>1. Max(s) \in s
      BY <2>4, MaxOfSome
    <3>2. s \ {Max(s)} \in SUBSET (1 .. n) /\ s \ {Max(s)} # s /\ s \ {Max(s)} \subseteq s
      BY <3>1
    <3>3. g[s \ {Max(s)}] = FromTheFirst(order, s \ {Max(s)})
      BY <2>1, <3>2
    <3>4. g[s] = WithTheKeys(g[s \ {Max(s)}], order[Max(s)])
      BY <2>2, <2>4
    <3>5. FromTheFirst(order, s) = WithTheKeys(FromTheFirst(order, s \ {Max(s)}), order[Max(s)])
      BY <1>1, <2>4
    <3>6. g[s] # FromTheFirst(order, s)
      OBVIOUS
    <3> HIDE DEF Bad
    <3> QED BY <3>3, <3>4, <3>5, <3>6
  <2> QED BY <2>3, <2>4
<1> QED BY <1>3, <1>4

\* Merging takes each key from the first provider that has it.
LEMMA MergedFromTheFirst ==
  ASSUME NEW names \in SUBSET Providers, IsFiniteSet(names)
  PROVE  Merged(names) = FromTheFirst(Ranked(names), 1 .. Cardinality(names))
<1> DEFINE order == Ranked(names)
           n == Cardinality(names)
<1>1. n \in Nat /\ DOMAIN order = 1 .. n
  BY RankedLists
<1>2. PICK g : g = (CHOOSE f : Merging(order, f))
  OBVIOUS
<1>3. \E f : Merging(order, f)
  BY <1>1, MergingTakesTheFirst
<1>4. Merging(order, g)
  BY <1>2, <1>3
<1>5. g[1 .. n] = FromTheFirst(order, 1 .. n)
  BY <1>1, <1>4, MergingTakesTheFirst
<1> QED BY <1>1, <1>2, <1>5, MergedIsTheRecursion

\* What merging promises: all keys, each from the provider of highest rank.
LEMMA MergedSpeaksForTheHighest ==
  ASSUME NEW names \in SUBSET Providers, IsFiniteSet(names)
  PROVE  /\ DOMAIN Merged(names) = UNION {Keys[p] : p \in names}
         /\ \A k \in DOMAIN Merged(names) :
              /\ k \in Keys[Merged(names)[k]]
              /\ \A p \in names : k \in Keys[p] => ~ Outranks(p, Merged(names)[k])
<1> DEFINE order == Ranked(names)
           n == Cardinality(names)
<1>1. /\ n \in Nat /\ DOMAIN order = 1 .. n /\ Range(order) = names
      /\ \A i, j \in 1 .. n : i < j => Outranks(order[i], order[j])
  BY RankedLists
<1>2. Merged(names) = FromTheFirst(order, 1 .. n)
  BY MergedFromTheFirst
<1>3. /\ \A i \in 1 .. n : order[i] \in names
      /\ \A p \in names : \E i \in 1 .. n : order[i] = p
  <2> HIDE DEF order, n
  <2> QED BY <1>1 DEF Range
<1> HIDE DEF order, n
<1>4. UNION {Keys[order[i]] : i \in 1 .. n} = UNION {Keys[p] : p \in names}
  <2>1. {Keys[order[i]] : i \in 1 .. n} = {Keys[p] : p \in names}
    BY <1>3
  <2> QED BY <2>1
<1>5. DOMAIN Merged(names) = UNION {Keys[order[i]] : i \in 1 .. n}
  BY <1>2 DEF FromTheFirst
<1>6. ASSUME NEW k \in UNION {Keys[order[i]] : i \in 1 .. n}
      PROVE  /\ k \in Keys[Merged(names)[k]]
             /\ \A p \in names : k \in Keys[p] => ~ Outranks(p, Merged(names)[k])
  <2> DEFINE has == Having(order, 1 .. n, k)
  <2>1. has \in SUBSET Nat /\ has # {}
    BY <1>1 DEF Having
  <2>2. PICK f \in has : f = First(has) /\ \A j \in has : f <= j
    <3> HIDE DEF has
    <3> QED BY <2>1, FirstOfSome
  <2>3. Merged(names)[k] = order[f]
    BY <1>2, <2>2 DEF FromTheFirst
  <2>4. f \in 1 .. n /\ k \in Keys[order[f]]
    BY <2>2 DEF Having
  <2>5. ASSUME NEW p \in names, k \in Keys[p], Outranks(p, order[f]) PROVE FALSE
    <3>1. PICK i \in 1 .. n : order[i] = p
      BY <1>3
    <3>2. i \in has
      BY <2>5, <3>1 DEF Having
    <3>3. f <= i
      BY <2>2, <3>2
    <3>4. f # i => Outranks(order[f], order[i])
      BY <1>1, <2>4, <3>1, <3>3
    <3>5. order[f] \in Providers /\ p \in Providers
      BY <1>3, <2>4
    <3> QED BY <2>5, <3>1, <3>4, <3>5, OutranksOrders
  <2> QED BY <2>3, <2>4, <2>5
<1> QED BY <1>4, <1>5, <1>6

-----------------------------------------------------------------------------
(* The plan the planner builds. *)

\* The recursion ToolsOf chooses a function for.
Using(steps, g) ==
  g = [i \in 0 .. Len(steps) |->
         IF i = 0 THEN <<>>
         ELSE IF steps[i].type = "tool" THEN Append(g[i - 1], steps[i].tool) ELSE g[i - 1]]

LEMMA ToolsOfIsTheRecursion ==
  ASSUME NEW steps
  PROVE  ToolsOf(steps) = (CHOOSE g : Using(steps, g))[Len(steps)]
BY DEF ToolsOf, Using

\* The first tools asked for.
FirstTools(asked, i) == [j \in 1 .. i |-> asked[j]]

\* Without tools there is one step, and it uses none.
LEMMA InstructionUsesNothing == ToolsOf(BuildSteps(<<>>)) = <<>>
<1> DEFINE steps == BuildSteps(<<>>)
           none == [i \in 0 .. 1 |-> <<>>]
<1>1. Len(steps) = 1 /\ steps[1].type = "instruction"
  BY DEF BuildSteps
<1> HIDE DEF steps
<1>2. Using(steps, none)
  BY <1>1 DEF Using
<1>3. ASSUME NEW g, Using(steps, g) PROVE g[1] = <<>>
  <2>1. g = [i \in 0 .. 1 |->
               IF i = 0 THEN <<>>
               ELSE IF steps[i].type = "tool" THEN Append(g[i - 1], steps[i].tool) ELSE g[i - 1]]
    BY <1>1, <1>3 DEF Using
  <2>2. g[0] = <<>>
    BY <2>1
  <2>3. g[1] = g[1 - 1]
    BY <1>1, <2>1
  <2> QED BY <2>2, <2>3
<1>4. PICK g : g = (CHOOSE f : Using(steps, f))
  OBVIOUS
<1>5. Using(steps, g)
  BY <1>2, <1>4
<1>6. ToolsOf(steps) = <<>>
  BY <1>1, <1>3, <1>4, <1>5, ToolsOfIsTheRecursion
<1> QED BY <1>6 DEF steps

\* With tools, the steps use them in their order.
LEMMA StepsUseTheTools ==
  ASSUME NEW asked \in Seq(Tools), asked # <<>>
  PROVE  ToolsOf(BuildSteps(asked)) = asked
<1> DEFINE steps == BuildSteps(asked)
           n == Len(asked)
           prefixes == [i \in 0 .. n |-> FirstTools(asked, i)]
<1>1. n \in Nat /\ n > 0 /\ DOMAIN asked = 1 .. n
  OBVIOUS
<1>2. /\ DOMAIN steps = 1 .. n
      /\ \A i \in 1 .. n : steps[i].type = "tool" /\ steps[i].tool = asked[i]
  BY <1>1 DEF BuildSteps
<1>3. Len(steps) = n
  <2>1. steps = [i \in 1 .. n |-> steps[i]]
    BY <1>1 DEF BuildSteps
  <2> HIDE DEF steps, n
  <2> QED BY <1>1, <2>1
<1>4. ASSUME NEW i \in 1 .. n
      PROVE  FirstTools(asked, i) = Append(FirstTools(asked, i - 1), asked[i])
  <2>1. /\ FirstTools(asked, i - 1) \in Seq(Tools) /\ Len(FirstTools(asked, i - 1)) = i - 1
        /\ FirstTools(asked, i) \in Seq(Tools) /\ Len(FirstTools(asked, i)) = i
        /\ asked[i] \in Tools
    BY <1>1 DEF FirstTools
  <2>2. /\ Append(FirstTools(asked, i - 1), asked[i]) \in Seq(Tools)
        /\ Len(Append(FirstTools(asked, i - 1), asked[i])) = i
    BY <2>1, AppendProperties
  <2>3. \A j \in 1 .. i : FirstTools(asked, i)[j] = Append(FirstTools(asked, i - 1), asked[i])[j]
    <3> SUFFICES ASSUME NEW j \in 1 .. i
                 PROVE  FirstTools(asked, i)[j] = Append(FirstTools(asked, i - 1), asked[i])[j]
      OBVIOUS
    <3>1. CASE j = i
      BY <2>1, <3>1, AppendProperties DEF FirstTools
    <3>2. CASE j # i
      <4>1. j \in 1 .. i - 1
        BY <3>2
      <4>2. Append(FirstTools(asked, i - 1), asked[i])[j] = FirstTools(asked, i - 1)[j]
        BY <2>1, <4>1, AppendProperties
      <4> QED BY <4>1, <4>2 DEF FirstTools
    <3> QED BY <3>1, <3>2
  <2> QED BY <2>1, <2>2, <2>3
<1>5. FirstTools(asked, 0) = <<>> /\ FirstTools(asked, n) = asked
  BY <1>1 DEF FirstTools
<1>6. Using(steps, prefixes)
  <2>1. \A i \in 0 .. n :
          prefixes[i] = IF i = 0 THEN <<>>
                        ELSE IF steps[i].type = "tool" THEN Append(prefixes[i - 1], steps[i].tool)
                        ELSE prefixes[i - 1]
    <3> SUFFICES ASSUME NEW i \in 0 .. n
                 PROVE  prefixes[i] = IF i = 0 THEN <<>>
                          ELSE IF steps[i].type = "tool" THEN Append(prefixes[i - 1], steps[i].tool)
                          ELSE prefixes[i - 1]
      OBVIOUS
    <3> HIDE DEF steps
    <3>1. CASE i = 0
      BY <1>5, <3>1
    <3>2. CASE i # 0
      <4>1. i \in 1 .. n /\ i - 1 \in 0 .. n
        BY <3>2, <1>1
      <4>2. prefixes[i - 1] = FirstTools(asked, i - 1) /\ prefixes[i] = FirstTools(asked, i)
        BY <4>1
      <4> HIDE DEF prefixes
      <4> QED BY <1>2, <1>4, <3>2, <4>1, <4>2
    <3> QED BY <3>1, <3>2
  <2>2. prefixes = [i \in 0 .. n |-> prefixes[i]]
    OBVIOUS
  <2> HIDE DEF prefixes, steps, n
  <2> QED BY <1>3, <2>1, <2>2 DEF Using
<1> HIDE DEF prefixes, steps
<1>7. ASSUME NEW g, Using(steps, g) PROVE g[n] = asked
  <2> DEFINE Bad == {i \in 0 .. n : g[i] # FirstTools(asked, i)}
  <2>1. Bad = {}
    <3> SUFFICES ASSUME Bad # {} PROVE FALSE
      OBVIOUS
    <3>1. Bad \in SUBSET Nat
      OBVIOUS
    <3>2. PICK i \in Bad : \A j \in Bad : i <= j
      <4> HIDE DEF Bad
      <4> QED BY <3>1, LeastNumber
    <3>3. g[i] = IF i = 0 THEN <<>>
                 ELSE IF steps[i].type = "tool" THEN Append(g[i - 1], steps[i].tool) ELSE g[i - 1]
      BY <1>3, <1>7 DEF Using
    <3>4. CASE i = 0
      BY <1>5, <3>3, <3>4
    <3>5. CASE i # 0
      <4>1. i \in 1 .. n /\ i - 1 \in 0 .. n /\ i - 1 \notin Bad
        BY <1>1, <3>1, <3>2, <3>5
      <4>2. g[i - 1] = FirstTools(asked, i - 1)
        BY <4>1
      <4>3. g[i] = Append(g[i - 1], asked[i])
        BY <1>2, <3>3, <3>5, <4>1
      <4> QED BY <1>4, <4>1, <4>2, <4>3
    <3> QED BY <3>4, <3>5
  <2>2. n \in 0 .. n
    BY <1>1
  <2> QED BY <1>5, <2>1, <2>2
<1>8. PICK g : g = (CHOOSE f : Using(steps, f))
  OBVIOUS
<1>9. Using(steps, g)
  BY <1>6, <1>8
<1>10. ToolsOf(steps) = asked
  BY <1>3, <1>7, <1>8, <1>9, ToolsOfIsTheRecursion
<1> QED BY <1>10 DEF steps

\* The tools of the steps are the ones asked for, in their order.
LEMMA ToolsComeBack ==
  ASSUME NEW asked \in Seq(Tools)
  PROVE  ToolsOf(BuildSteps(asked)) = asked
BY InstructionUsesNothing, StepsUseTheTools

\* The steps are numbered from one, and each depends on the one before it.
LEMMA StepsAreAChain ==
  ASSUME NEW asked \in Seq(Tools)
  PROVE  /\ BuildSteps(asked) \in Seq(PlanSteps) /\ BuildSteps(asked) # <<>>
         /\ Len(BuildSteps(asked)) = IF asked = <<>> THEN 1 ELSE Len(asked)
         /\ \A i \in DOMAIN BuildSteps(asked) :
              /\ BuildSteps(asked)[i].order = i
              /\ BuildSteps(asked)[i].type = "tool" <=> BuildSteps(asked)[i].tool # NoTool
              /\ BuildSteps(asked)[i].depends_on = IF i = 1 THEN {} ELSE {i - 1}
<1> DEFINE steps == BuildSteps(asked)
<1>1. CASE asked = <<>>
  <2>1. steps = <<[order |-> 1, type |-> "instruction", tool |-> NoTool, depends_on |-> {}]>>
    BY <1>1 DEF BuildSteps
  <2>2. [order |-> 1, type |-> "instruction", tool |-> NoTool, depends_on |-> {}] \in PlanSteps
    BY DEF PlanSteps, StepTypes
  <2> HIDE DEF steps
  <2>3. /\ steps \in Seq(PlanSteps) /\ steps # <<>> /\ Len(steps) = 1
        /\ \A i \in DOMAIN steps :
             /\ steps[i].order = i
             /\ steps[i].type = "tool" <=> steps[i].tool # NoTool
             /\ steps[i].depends_on = IF i = 1 THEN {} ELSE {i - 1}
    BY <2>1, <2>2
  <2> QED BY <1>1, <2>3 DEF steps
<1>2. CASE asked # <<>>
  <2> DEFINE n == Len(asked)
  <2>1. n \in Nat /\ n > 0 /\ DOMAIN asked = 1 .. n /\ \A i \in 1 .. n : asked[i] \in Tools
    BY <1>2
  <2>2. steps = [i \in 1 .. n |->
                   [order |-> i, type |-> "tool", tool |-> asked[i],
                    depends_on |-> IF i = 1 THEN {} ELSE {i - 1}]]
    BY <1>2, <2>1 DEF BuildSteps
  <2> HIDE DEF steps, n
  <2>3. ASSUME NEW i \in 1 .. n
        PROVE  /\ steps[i] \in PlanSteps
               /\ steps[i].order = i /\ steps[i].type = "tool" /\ steps[i].tool # NoTool
               /\ steps[i].depends_on = IF i = 1 THEN {} ELSE {i - 1}
    <3>1. steps[i] = [order |-> i, type |-> "tool", tool |-> asked[i],
                      depends_on |-> IF i = 1 THEN {} ELSE {i - 1}]
      BY <2>2
    <3>2. asked[i] \in Tools /\ asked[i] # NoTool
      BY <2>1, ToolsAssumption
    <3>3. (IF i = 1 THEN {} ELSE {i - 1}) \in SUBSET Nat /\ i \in Nat
      BY <2>1
    <3> QED BY <3>1, <3>2, <3>3 DEF PlanSteps, StepTypes
  <2>4. steps \in Seq(PlanSteps) /\ Len(steps) = n /\ steps # <<>> /\ DOMAIN steps = 1 .. n
    <3>1. DOMAIN steps = 1 .. n /\ steps = [i \in 1 .. n |-> steps[i]]
      BY <2>2
    <3>2. steps \in [1 .. n -> PlanSteps]
      BY <2>3, <3>1
    <3>3. steps \in Seq(PlanSteps) /\ Len(steps) = n
      BY <2>1, <3>2
    <3> QED BY <2>1, <3>1, <3>3
  <2>5. steps \in Seq(PlanSteps) /\ steps # <<>> /\ Len(steps) = Len(asked)
    BY <2>4 DEF n
  <2> QED BY <1>2, <2>3, <2>4, <2>5 DEF steps
<1> QED BY <1>1, <1>2

\* The planner's own checks never refuse what it built.
LEMMA PlannerKeepsItsPlan ==
  ASSUME NEW asked \in Seq(Tools), NEW available, Range(asked) \subseteq available
  PROVE  /\ ValidSteps(BuildSteps(asked))
         /\ ValidForRequest([steps |-> BuildSteps(asked), available |-> available,
                             requested |-> asked], available)
<1> DEFINE steps == BuildSteps(asked)
<1>1. /\ steps \in Seq(PlanSteps) /\ steps # <<>>
      /\ \A i \in DOMAIN steps :
           /\ steps[i].order = i
           /\ steps[i].type = "tool" <=> steps[i].tool # NoTool
           /\ steps[i].depends_on = IF i = 1 THEN {} ELSE {i - 1}
  BY StepsAreAChain
<1>2. ToolsOf(steps) = asked
  BY ToolsComeBack
<1> HIDE DEF steps
<1>3. DOMAIN steps = 1 .. Len(steps) /\ Len(steps) \in Nat
  BY <1>1
<1>4. Range(steps) = {steps[i] : i \in DOMAIN steps}
  BY DEF Range
<1>5. {s.order : s \in Range(steps)} = DOMAIN steps
  <2>1. ASSUME NEW x \in {s.order : s \in Range(steps)} PROVE x \in DOMAIN steps
    <3>1. PICK s \in Range(steps) : x = s.order
      OBVIOUS
    <3>2. PICK i \in DOMAIN steps : s = steps[i]
      BY <1>4
    <3>3. steps[i].order = i
      BY <1>1
    <3> QED BY <3>1, <3>2, <3>3
  <2>2. \A i \in DOMAIN steps : steps[i] \in Range(steps) /\ steps[i].order = i
    BY <1>1, <1>4
  <2>3. \A i \in DOMAIN steps : i \in {s.order : s \in Range(steps)}
    BY <2>2
  <2> QED BY <2>1, <2>3
<1>6. ASSUME NEW s \in Range(steps)
      PROVE  /\ s.type = "tool" <=> s.tool # NoTool
             /\ \A d \in s.depends_on : d \in DOMAIN steps /\ d < s.order
  <2>1. PICK i \in DOMAIN steps : s = steps[i]
    BY <1>4
  <2>2. s.order = i /\ s.depends_on = (IF i = 1 THEN {} ELSE {i - 1})
    BY <1>1, <2>1
  <2>3. \A d \in s.depends_on : d = i - 1 /\ i # 1
    BY <2>2
  <2>4. i # 1 => (i - 1) \in DOMAIN steps /\ i - 1 < i
    BY <1>3
  <2> QED BY <1>1, <2>1, <2>2, <2>3, <2>4
<1>7. ValidSteps(steps)
  BY <1>1, <1>5, <1>6 DEF ValidSteps
<1> QED BY <1>2, <1>7 DEF ValidForRequest, steps

\* The executor's checks after its limit take a plan the planner built.
LEMMA ExecutorTakesThePlan ==
  ASSUME NEW asked \in Seq(Tools), NEW p,
         p.steps = BuildSteps(asked), p.requested = asked, Range(asked) \subseteq p.available
  PROVE  Executable(p)
<1> DEFINE steps == BuildSteps(asked)
<1>0. steps \in Seq(PlanSteps) /\ steps # <<>>
  BY StepsAreAChain
<1>1. \A i \in DOMAIN steps :
        /\ steps[i].order = i
        /\ steps[i].type = "tool" <=> steps[i].tool # NoTool
        /\ steps[i].depends_on = IF i = 1 THEN {} ELSE {i - 1}
  BY StepsAreAChain
<1>2. ToolsOf(steps) = asked /\ p.steps = steps
  BY ToolsComeBack
<1> HIDE DEF steps
<1>4. DOMAIN steps = 1 .. Len(steps) /\ Len(steps) \in Nat
  BY <1>0
<1>5. ASSUME NEW i \in DOMAIN steps, NEW d \in steps[i].depends_on
      PROVE  d \in DOMAIN steps /\ d < i
  <2>1. steps[i].depends_on = IF i = 1 THEN {} ELSE {i - 1}
    BY <1>1
  <2>2. d = i - 1 /\ i # 1
    BY <2>1
  <2> QED BY <1>4, <2>2
<1>6. \A i \in DOMAIN steps : steps[i].order = i
  BY <1>1
<1> QED BY <1>0, <1>2, <1>5, <1>6 DEF Executable

-----------------------------------------------------------------------------
(* The inductive invariant. *)

RegistriesInv == IsFiniteSet(registry) /\ IsFiniteSet({t \in Tools : tools[t] # "absent"})

\* Where assembly is: the queue lists registered providers, the required ones
\* among them, and the page of memories was live when it was read.
AssemblyInv ==
  /\ stage # "failed" => \A p \in Providers : sizes[p] <= MaxSection
  /\ Range(queue) \subseteq registry
  /\ stage \notin {"new", "failed"} => Required \subseteq Range(queue) /\ queue = Ranked(Range(queue))
  /\ stage \in {"asking", "counting"} => at \in 1 .. Len(queue)
  /\ stage = "counting" => \A m \in listed : memories[m] # "unborn"

\* A context is what merging makes of its providers, the empty one included.
ContextInv ==
  /\ Range(context.providers) \subseteq registry
  /\ context.providers = Ranked(Range(context.providers))
  /\ context.data = Merged(Range(context.providers))
  /\ context.size \in Nat
  /\ stage \in {"assembled", "planned", "accepted"} => Range(context.providers) = Range(queue)

\* The plan is the one the planner builds for the request.
Planned ==
  /\ plan.steps = BuildSteps(request.requested) /\ plan.requested = request.requested
  /\ Range(request.requested) \subseteq plan.available

PlanInv ==
  /\ stage \in {"planned", "accepted"} => Planned
  /\ Planned \/ plan = NoPlan

PlanningInv ==
  /\ TypeOK
  /\ RegistriesInv
  /\ AssemblyInv
  /\ ContextInv
  /\ PlanInv
  /\ RefusalsHaveACause
  /\ PlansAreExecutable

\* The sets of providers the variables hold are finite.
LEMMA Ranges ==
  ASSUME PlanningInv
  PROVE  /\ \A names \in SUBSET registry : names \in SUBSET Providers /\ IsFiniteSet(names)
         /\ Range(queue) \in SUBSET registry /\ Range(context.providers) \in SUBSET registry
<1>1. registry \in SUBSET Providers /\ IsFiniteSet(registry)
  BY DEF PlanningInv, TypeOK, RegistriesInv
<1>2. \A names \in SUBSET registry : IsFiniteSet(names)
  BY <1>1, FS_Subset
<1> QED BY <1>1, <1>2 DEF PlanningInv, AssemblyInv, ContextInv

LEMMA Nobody == Range(<<>>) = {} /\ Ranked({}) = <<>> /\ Merged({}) = <<>>
<1>1. Range(<<>>) = {}
  BY DEF Range
<1>2. Cardinality({}) = 0 /\ IsFiniteSet({})
  BY FS_EmptySet
<1>3. Ranked({}) = <<>>
  <2>1. Ranked({}) \in Seq(Providers) /\ Len(Ranked({})) = 0
    BY <1>2, RankedLists
  <2> QED BY <2>1
<1>4. 1 .. 0 = {}
  OBVIOUS
<1>5. Merged({}) = FromTheFirst(Ranked({}), {})
  BY <1>2, <1>4, MergedFromTheFirst
<1> QED BY <1>1, <1>3, <1>5, NoPlaces

LEMMA PlanningInitially == Init => PlanningInv
<1> SUFFICES ASSUME Init PROVE PlanningInv
  OBVIOUS
<1> USE DEF Init
<1>1. Range(queue) = {} /\ Range(context.providers) = {}
  BY Nobody DEF NoContext
<1>2. /\ tools \in [Tools -> ToolStates]
      /\ IsFiniteSet({t \in Tools : tools[t] # "absent"})
      /\ Cardinality({t \in Tools : tools[t] # "absent"}) <= MaxTools
  BY ToolsAssumption
<1>3. TypeOK
  <2>1. registry \subseteq Providers
    BY ProvidersAssumption
  <2>2. tools \in [Tools -> ToolStates] /\ Cardinality({t \in Tools : tools[t] # "absent"}) <= MaxTools
    BY <1>2
  <2>3. memories \in [Memories -> MemoryStates]
    BY DEF MemoryStates
  <2>4. request \in Requests /\ stage \in Stages /\ error \in Codes /\ (error # "none") = (stage = "failed")
    BY DEF Stages, Codes
  <2>5. queue \in Seq(Providers) /\ Len(queue) <= MaxSections /\ at \in 0 .. Len(queue)
    BY LimitsAssumption
  <2>6. sizes \in Sections
    BY DEF Sections
  <2>7. listed \subseteq Memories /\ Cardinality(listed) <= MaxMemories
    BY FS_EmptySet, LimitsAssumption
  <2>8. plan.steps \in Seq(PlanSteps) /\ Len(plan.steps) <= MaxPlanSteps
    BY LimitsAssumption DEF NoPlan
  <2> QED BY <2>1, <2>2, <2>3, <2>4, <2>5, <2>6, <2>7, <2>8 DEF TypeOK
<1>4. RegistriesInv
  BY <1>2, ProvidersAssumption, FS_EmptySet DEF RegistriesInv
<1>5. AssemblyInv
  BY <1>1, LimitsAssumption DEF AssemblyInv
<1>6. ContextInv
  BY <1>1, Nobody DEF ContextInv, NoContext
<1>7. PlanInv
  BY DEF PlanInv
<1>8. RefusalsHaveACause
  BY DEF RefusalsHaveACause
<1>9. PlansAreExecutable
  BY DEF PlansAreExecutable, NoPlan
<1> QED BY <1>3, <1>4, <1>5, <1>6, <1>7, <1>8, <1>9 DEF PlanningInv

-----------------------------------------------------------------------------
(* What a refusal and the rest of the loop keep. *)

\* The errors that PlansAreExecutable allows for any plan.
Refusals == Codes \ {"none", "changed_plan", "executor_validation"}

\* The limits of the planner, as its refusals know them.
BeyondThePlanner ==
  \/ Len(request.requested) > MaxRequested
  \/ context.size > MaxTotal - Overhead
  \/ Len(request.requested) > MaxPlanSteps

\* A refusal that leaves the context and the plan alone, with its cause.
LEMMA Refusing ==
  ASSUME PlanningInv, stage # "failed",
         NEW code \in Refusals, Fail(code),
         UNCHANGED <<registry, tools, memories, request, listed>>,
         queue' \in Seq(Providers), Len(queue') <= MaxSections, at' \in 0 .. Len(queue'),
         sizes' \in Sections, Range(queue') \subseteq registry,
         code = "memory_total" => \E m \in listed : memories[m] \in {"hidden", "deleted"},
         code = "provider_names" => ~ (registry \subseteq Range(queue')),
         code = "planner_limit" => BeyondThePlanner,
         code = "executor_limit" => MaxSteps < Len(plan.steps),
         code = "plan_steps" => Len(request.requested) > LongestPlan,
         code = "plan_metadata" => ~ (Range(queue') \subseteq Identifiers)
  PROVE  PlanningInv'
<1>1. stage' = "failed" /\ error' = code /\ context' = context /\ plan' = plan
  BY DEF Fail
<1>2. TypeOK'
  BY <1>1 DEF PlanningInv, TypeOK, Stages, Refusals
<1>3. RegistriesInv'
  BY DEF PlanningInv, RegistriesInv
<1>4. AssemblyInv'
  BY <1>1 DEF AssemblyInv
<1>5. ContextInv'
  BY <1>1 DEF PlanningInv, ContextInv
<1>6. PlanInv'
  BY <1>1 DEF PlanningInv, PlanInv, Planned
<1>7. RefusalsHaveACause'
  <2>1. Len(plan.steps) <= MaxPlanSteps
    BY DEF PlanningInv, TypeOK
  <2> QED BY <1>1, <2>1 DEF RefusalsHaveACause, BeyondThePlanner
<1>8. PlansAreExecutable'
  BY <1>1 DEF PlanningInv, PlansAreExecutable, Refusals
<1> QED BY <1>2, <1>3, <1>4, <1>5, <1>6, <1>7, <1>8 DEF PlanningInv

\* A refusal of an assembly that stays where it is.
LEMMA RefusingInPlace ==
  ASSUME PlanningInv, stage # "failed",
         NEW code \in Refusals, Fail(code),
         UNCHANGED <<registries, memories, request, assembly>>,
         code = "memory_total" => \E m \in listed : memories[m] \in {"hidden", "deleted"},
         code = "provider_names" => ~ (registry \subseteq Range(queue)),
         code = "planner_limit" => BeyondThePlanner,
         code = "executor_limit" => MaxSteps < Len(plan.steps),
         code = "plan_steps" => Len(request.requested) > LongestPlan,
         code = "plan_metadata" => ~ (Range(queue) \subseteq Identifiers)
  PROVE  PlanningInv'
<1>1. UNCHANGED <<registry, tools, memories, request, listed, queue, at, sizes>>
  BY DEF registries, assembly
<1>2. /\ queue \in Seq(Providers) /\ Len(queue) <= MaxSections /\ at \in 0 .. Len(queue)
      /\ sizes \in Sections /\ Range(queue) \subseteq registry
  BY DEF PlanningInv, TypeOK, AssemblyInv
<1>3. /\ queue' \in Seq(Providers) /\ Len(queue') <= MaxSections /\ at' \in 0 .. Len(queue')
      /\ sizes' \in Sections /\ Range(queue') \subseteq registry /\ Range(queue') = Range(queue)
  BY <1>1, <1>2
<1> QED BY <1>1, <1>3, Refusing

\* What merging the sections of some providers leaves behind.
LEMMA MergingKeeps ==
  ASSUME PlanningInv, stage \in {"new", "asking", "counting"},
         NEW names \in SUBSET registry, Required \subseteq names, Cardinality(names) <= MaxSections,
         NEW size \in Sections, \A p \in Providers : size[p] <= MaxSection,
         queue' = Ranked(names), sizes' = size, at' \in 0 .. Len(queue'),
         UNCHANGED <<registry, tools, memories, request, listed>>,
         Merge(names, size)
  PROVE  PlanningInv'
<1> DEFINE made == [providers |-> Ranked(names), data |-> Merged(names),
                    size |-> MergedSize(names, size)]
<1>1. names \in SUBSET Providers /\ IsFiniteSet(names) /\ registry \in SUBSET Providers /\ IsFiniteSet(registry)
  BY Ranges
<1>2. /\ Ranked(names) \in Seq(Providers) /\ Len(Ranked(names)) <= MaxSections
      /\ Range(Ranked(names)) = names
  BY <1>1, RankedLists
<1>3. MergedSize(names, size) \in Nat
  <2>1. {p \in names : Merged(names)[Bulk[p]] = p} \in SUBSET names
    OBVIOUS
  <2>2. /\ SumFunctionOnSet(size, names) \in Nat
        /\ SumFunctionOnSet(size, {p \in names : Merged(names)[Bulk[p]] = p}) \in Nat
    BY <1>1, <2>1, SumType, FS_Subset DEF Sections
  <2> QED BY <2>2 DEF MergedSize
<1>4. error = "none" /\ stage # "failed"
  BY DEF PlanningInv, TypeOK
<1>5. CASE Fail("context_limit")
  <2>1. "context_limit" \in Refusals
    BY DEF Codes, Refusals
  <2> QED BY <1>2, <1>4, <1>5, <2>1, Refusing
<1>6. CASE Ranked(registry) # Ranked(names) /\ Fail("provider_names")
  <2>1. "provider_names" \in Refusals
    BY DEF Codes, Refusals
  <2>2. ~ (registry \subseteq Range(queue'))
    <3>1. registry # names
      BY <1>6
    <3> QED BY <1>2, <3>1
  <2> QED BY <1>2, <1>4, <1>6, <2>1, <2>2, Refusing
<1>7. CASE /\ made.size <= MaxTotal
           /\ stage' = "assembled" /\ context' = made /\ UNCHANGED <<plan, error>>
  <2>1. /\ context'.providers = Ranked(names) /\ context'.data = Merged(names)
        /\ context'.size = MergedSize(names, size) /\ context'.size <= MaxTotal
        /\ Range(context'.providers) = names
    BY <1>2, <1>7
  <2> HIDE DEF made
  <2>2. TypeOK'
    <3>1. /\ registry' \subseteq Providers /\ tools' \in [Tools -> ToolStates]
          /\ Cardinality({t \in Tools : tools'[t] # "absent"}) <= MaxTools
          /\ memories' \in [Memories -> MemoryStates]
          /\ request' \in Requests
          /\ listed' \subseteq Memories /\ Cardinality(listed') <= MaxMemories
          /\ plan'.steps \in Seq(PlanSteps) /\ Len(plan'.steps) <= MaxPlanSteps
      BY <1>7 DEF PlanningInv, TypeOK
    <3>2. stage' \in Stages /\ error' \in Codes /\ (error' # "none") = (stage' = "failed")
      BY <1>4, <1>7 DEF Stages, Codes
    <3>3. queue' \in Seq(Providers) /\ Len(queue') <= MaxSections /\ at' \in 0 .. Len(queue')
      BY <1>2
    <3>4. \A p \in Providers : sizes'[p] <= MaxSection
      OBVIOUS
    <3>5. Required \subseteq Range(context'.providers)
      BY <2>1
    <3> QED BY <2>1, <3>1, <3>2, <3>3, <3>4, <3>5 DEF TypeOK
  <2>3. RegistriesInv'
    BY DEF PlanningInv, RegistriesInv
  <2>4. AssemblyInv'
    BY <1>2, <1>7 DEF AssemblyInv
  <2>5. ContextInv'
    BY <1>2, <1>3, <2>1 DEF ContextInv
  <2>6. PlanInv'
    BY <1>7 DEF PlanningInv, PlanInv, Planned
  <2>7. RefusalsHaveACause'
    BY <1>4, <1>7 DEF RefusalsHaveACause
  <2>8. PlansAreExecutable'
    BY <1>7 DEF PlanningInv, PlansAreExecutable
  <2> QED BY <2>2, <2>3, <2>4, <2>5, <2>6, <2>7, <2>8 DEF PlanningInv
<1> QED BY <1>5, <1>6, <1>7 DEF Merge

\* The rest of the loop, from any provider of the queue on.
LEMMA GoingOn ==
  ASSUME PlanningInv, stage \in {"new", "asking", "counting"},
         NEW names \in SUBSET registry, Required \subseteq names, Cardinality(names) <= MaxSections,
         NEW order, order = Ranked(names), NEW i \in 0 .. Len(order),
         NEW size \in Sections, \A p \in Providers : size[p] <= MaxSection,
         GoOn(order, i, size), UNCHANGED <<registry, tools, memories, request, listed>>
  PROVE  PlanningInv'
<1> DEFINE waits == {j \in i + 1 .. Len(order) : order[j] \in Waiting}
           next  == IF waits = {} THEN Len(order) + 1
                    ELSE CHOOSE j \in waits : \A k \in waits : j <= k
           atOnce == {order[j] : j \in i + 1 .. next - 1}
           sized == [p \in Providers |-> IF p \in atOnce THEN SizeAtOnce(p) ELSE size[p]]
           fits  == \A p \in atOnce : sized[p] <= MaxSection
           asks  == fits /\ next <= Len(order)
           tooLong == order[next] = Knowledge /\ request.query > MaxQuery
<1>1. /\ queue' = order /\ sizes' = sized /\ at' = IF asks THEN next ELSE i
      /\ \/ ~ fits /\ Fail("context_limit")
         \/ asks /\ tooLong /\ Fail("knowledge_limit")
         \/ asks /\ ~ tooLong /\ stage' = "asking" /\ UNCHANGED <<context, plan, error>>
         \/ fits /\ next > Len(order) /\ Merge(Range(order), sized)
  BY DEF GoOn
<1>2. names \in SUBSET Providers /\ IsFiniteSet(names)
  BY Ranges
<1>3. /\ order \in Seq(Providers) /\ Len(order) <= MaxSections /\ Len(order) \in Nat
      /\ Range(order) = names
  BY <1>2, RankedLists
<1>4. next \in i + 1 .. Len(order) + 1
  <2>1. CASE waits = {}
    BY <1>3, <2>1
  <2>2. CASE waits # {}
    <3>1. waits \in SUBSET Nat
      BY <1>3
    <3>2. \E j \in waits : \A k \in waits : j <= k
      <4> HIDE DEF waits
      <4> QED BY <2>2, <3>1, LeastNumber
    <3>3. next \in waits
      BY <2>2, <3>2
    <3>4. \A j \in waits : j \in i + 1 .. Len(order) + 1
      BY <1>3
    <3> HIDE DEF next, waits
    <3> QED BY <3>3, <3>4
  <2> QED BY <2>1, <2>2
<1> HIDE DEF next
<1>5. sized \in Sections
  <2>1. request.messages \in Nat
    BY LimitsAssumption DEF PlanningInv, TypeOK, Requests
  <2>2. \A p \in Providers : SizeAtOnce(p) \in Nat /\ size[p] \in Nat
    BY <2>1 DEF SizeAtOnce, Sections
  <2> HIDE DEF atOnce
  <2> QED BY <2>2 DEF Sections
<1>6. fits => \A p \in Providers : sized[p] <= MaxSection
  <2> SUFFICES ASSUME fits, NEW p \in Providers PROVE sized[p] <= MaxSection
    OBVIOUS
  <2> HIDE DEF atOnce
  <2> QED OBVIOUS
<1>7. /\ queue' \in Seq(Providers) /\ Len(queue') <= MaxSections /\ at' \in 0 .. Len(queue')
      /\ sizes' \in Sections /\ Range(queue') \subseteq registry
      /\ asks => at' \in 1 .. Len(queue')
  <2>1. i \in Nat /\ i <= Len(order)
    BY <1>3
  <2>2. asks => next \in 1 .. Len(order)
    BY <1>3, <1>4, <2>1
  <2> HIDE DEF asks, sized
  <2> QED BY <1>1, <1>3, <1>5, <2>1, <2>2
<1> HIDE DEF sized, atOnce, waits
<1>8. error = "none" /\ stage # "failed"
  BY DEF PlanningInv, TypeOK
<1>9. CASE ~ fits /\ Fail("context_limit")
  <2>1. "context_limit" \in Refusals
    BY DEF Codes, Refusals
  <2> QED BY <1>7, <1>8, <1>9, <2>1, Refusing
<1>10. CASE asks /\ tooLong /\ Fail("knowledge_limit")
  <2>1. "knowledge_limit" \in Refusals
    BY DEF Codes, Refusals
  <2> QED BY <1>7, <1>8, <1>10, <2>1, Refusing
<1>11. CASE asks /\ ~ tooLong /\ stage' = "asking" /\ UNCHANGED <<context, plan, error>>
  <2>1. \A p \in Providers : sizes'[p] <= MaxSection
    BY <1>1, <1>6, <1>11
  <2> HIDE DEF asks, fits, tooLong
  <2>2. TypeOK'
    <3>1. /\ registry' \subseteq Providers /\ tools' \in [Tools -> ToolStates]
          /\ Cardinality({t \in Tools : tools'[t] # "absent"}) <= MaxTools
          /\ memories' \in [Memories -> MemoryStates]
          /\ request' \in Requests
          /\ listed' \subseteq Memories /\ Cardinality(listed') <= MaxMemories
          /\ plan'.steps \in Seq(PlanSteps) /\ Len(plan'.steps) <= MaxPlanSteps
      BY <1>11 DEF PlanningInv, TypeOK
    <3>2. stage' \in Stages /\ error' \in Codes /\ (error' # "none") = (stage' = "failed")
      BY <1>8, <1>11 DEF Stages, Codes
    <3> QED BY <1>7, <1>11, <3>1, <3>2 DEF TypeOK
  <2>3. RegistriesInv'
    BY DEF PlanningInv, RegistriesInv
  <2>4. AssemblyInv'
    BY <1>1, <1>3, <1>7, <1>11, <2>1 DEF AssemblyInv
  <2>5. ContextInv'
    BY <1>11 DEF PlanningInv, ContextInv
  <2>6. PlanInv'
    BY <1>11 DEF PlanningInv, PlanInv, Planned
  <2>7. RefusalsHaveACause'
    BY <1>8, <1>11 DEF RefusalsHaveACause
  <2>8. PlansAreExecutable'
    BY <1>11 DEF PlanningInv, PlansAreExecutable
  <2> QED BY <2>2, <2>3, <2>4, <2>5, <2>6, <2>7, <2>8 DEF PlanningInv
<1>12. CASE fits /\ next > Len(order) /\ Merge(Range(order), sized)
  <2>1. \A p \in Providers : sized[p] <= MaxSection
    BY <1>6, <1>12
  <2>2. Merge(names, sized)
    BY <1>3, <1>12
  <2> QED BY <1>1, <1>5, <1>7, <2>1, <2>2, MergingKeeps
<1> HIDE DEF fits, asks, tooLong
<1> QED BY <1>1, <1>9, <1>10, <1>11, <1>12

-----------------------------------------------------------------------------
(* Every step keeps it: the registries and the memories. *)

LEMMA RegisterProviderKeeps ==
  ASSUME PlanningInv, stage \notin {"accepted", "failed"}, NEW p \in Providers, RegisterProvider(p)
  PROVE  PlanningInv'
<1>1. /\ registry' = registry \cup {p}
      /\ UNCHANGED <<tools, memories, request, stage, queue, at, sizes, listed, context, plan, error>>
  BY DEF RegisterProvider, assembly
<1>2. error = "none"
  BY DEF PlanningInv, TypeOK
<1>3. TypeOK'
  BY <1>1 DEF PlanningInv, TypeOK
<1>4. RegistriesInv'
  BY <1>1, FS_AddElement DEF PlanningInv, RegistriesInv
<1>5. AssemblyInv'
  BY <1>1 DEF PlanningInv, AssemblyInv
<1>6. ContextInv'
  BY <1>1 DEF PlanningInv, ContextInv
<1>7. PlanInv'
  BY <1>1 DEF PlanningInv, PlanInv, Planned
<1>8. RefusalsHaveACause'
  BY <1>1, <1>2 DEF RefusalsHaveACause
<1>9. PlansAreExecutable'
  BY <1>1 DEF PlanningInv, PlansAreExecutable
<1> QED BY <1>3, <1>4, <1>5, <1>6, <1>7, <1>8, <1>9 DEF PlanningInv

LEMMA RegisterToolKeeps ==
  ASSUME PlanningInv, stage \notin {"accepted", "failed"},
         NEW t \in Tools, NEW state \in {"enabled", "disabled"}, RegisterTool(t, state)
  PROVE  PlanningInv'
<1> DEFINE there == {u \in Tools : tools[u] # "absent"}
<1>1. /\ tools[t] = "absent" /\ Cardinality(there) < MaxTools
      /\ tools' = [tools EXCEPT ![t] = state]
      /\ UNCHANGED <<registry, memories, request, stage, queue, at, sizes, listed, context, plan, error>>
  BY DEF RegisterTool, assembly
<1>2. tools \in [Tools -> ToolStates] /\ IsFiniteSet(there) /\ error = "none"
  BY DEF PlanningInv, TypeOK, RegistriesInv
<1>3. tools' \in [Tools -> ToolStates]
  BY <1>1, <1>2 DEF ToolStates
<1>4. {u \in Tools : tools'[u] # "absent"} = there \cup {t}
  BY <1>1, <1>2
<1>5. IsFiniteSet(there \cup {t}) /\ Cardinality(there \cup {t}) <= MaxTools
  <2>1. t \notin there /\ Cardinality(there) \in Nat /\ MaxTools \in Nat
    BY <1>1, <1>2, FS_CardinalityType, LimitsAssumption
  <2>2. IsFiniteSet(there \cup {t}) /\ Cardinality(there \cup {t}) = Cardinality(there) + 1
    <3> HIDE DEF there
    <3> QED BY <1>2, <2>1, FS_AddElement
  <2> QED BY <1>1, <2>1, <2>2
<1> HIDE DEF there
<1>6. TypeOK'
  <2>1. Cardinality({u \in Tools : tools'[u] # "absent"}) <= MaxTools
    BY <1>4, <1>5
  <2> QED BY <1>1, <1>3, <2>1 DEF PlanningInv, TypeOK
<1>7. RegistriesInv'
  BY <1>1, <1>4, <1>5 DEF PlanningInv, RegistriesInv
<1>8. AssemblyInv'
  BY <1>1 DEF PlanningInv, AssemblyInv
<1>9. ContextInv'
  BY <1>1 DEF PlanningInv, ContextInv
<1>10. PlanInv'
  BY <1>1 DEF PlanningInv, PlanInv, Planned
<1>11. RefusalsHaveACause'
  BY <1>1, <1>2 DEF RefusalsHaveACause
<1>12. PlansAreExecutable'
  BY <1>1 DEF PlanningInv, PlansAreExecutable
<1> QED BY <1>6, <1>7, <1>8, <1>9, <1>10, <1>11, <1>12 DEF PlanningInv

LEMMA MemoriesKeep ==
  ASSUME PlanningInv, stage \notin {"accepted", "failed"},
         NEW m \in Memories, StoreMemory(m) \/ EditMemory(m) \/ DeleteMemory(m)
  PROVE  PlanningInv'
<1>1. UNCHANGED <<registry, tools, request, stage, queue, at, sizes, listed, context, plan, error>>
  BY DEF StoreMemory, EditMemory, DeleteMemory, registries, assembly
<1>2. memories \in [Memories -> MemoryStates] /\ listed \subseteq Memories /\ error = "none"
  BY DEF PlanningInv, TypeOK
<1>3. /\ memories' \in [Memories -> MemoryStates]
      /\ \A n \in Memories : memories'[n] = "unborn" => memories[n] = "unborn"
  BY <1>2 DEF StoreMemory, EditMemory, DeleteMemory, MemoryStates
<1>4. TypeOK'
  BY <1>1, <1>3 DEF PlanningInv, TypeOK
<1>5. RegistriesInv'
  BY <1>1 DEF PlanningInv, RegistriesInv
<1>6. AssemblyInv'
  <2>1. stage' = "counting" => \A n \in listed' : memories'[n] # "unborn"
    BY <1>1, <1>2, <1>3 DEF PlanningInv, AssemblyInv
  <2> QED BY <1>1, <2>1 DEF PlanningInv, AssemblyInv
<1>7. ContextInv'
  BY <1>1 DEF PlanningInv, ContextInv
<1>8. PlanInv'
  BY <1>1 DEF PlanningInv, PlanInv, Planned
<1>9. RefusalsHaveACause'
  BY <1>1, <1>2 DEF RefusalsHaveACause
<1>10. PlansAreExecutable'
  BY <1>1 DEF PlanningInv, PlansAreExecutable
<1> QED BY <1>4, <1>5, <1>6, <1>7, <1>8, <1>9, <1>10 DEF PlanningInv

-----------------------------------------------------------------------------
(* Assembling the context. *)

LEMMA BeginKeeps ==
  ASSUME PlanningInv, Begin
  PROVE  PlanningInv'
<1>1. stage = "new" /\ UNCHANGED <<registry, tools, memories, request>>
  BY DEF Begin, registries
<1>2. CASE ~ (Required \subseteq registry) /\ Fail("configuration") /\ UNCHANGED assembly
  <2>1. "configuration" \in Refusals
    BY DEF Codes, Refusals
  <2> QED BY <1>1, <1>2, <2>1, RefusingInPlace DEF registries
<1>3. CASE Fail("context_limit") /\ UNCHANGED assembly
  <2>1. "context_limit" \in Refusals
    BY DEF Codes, Refusals
  <2> QED BY <1>1, <1>3, <2>1, RefusingInPlace DEF registries
<1>4. CASE /\ Required \subseteq registry /\ Cardinality(registry) <= MaxSections
           /\ GoOn(Ranked(registry), 0, sizes) /\ UNCHANGED listed
  <2>1. sizes \in Sections /\ \A p \in Providers : sizes[p] <= MaxSection
    BY <1>1 DEF PlanningInv, TypeOK, AssemblyInv
  <2>2. 0 \in 0 .. Len(Ranked(registry))
    <3>1. Len(Ranked(registry)) \in Nat
      BY Ranges, RankedLists
    <3> QED BY <3>1
  <2> QED BY <1>1, <1>4, <2>1, <2>2, GoingOn
<1> QED BY <1>2, <1>3, <1>4 DEF Begin

LEMMA ListMemoriesKeeps ==
  ASSUME PlanningInv, ListMemories
  PROVE  PlanningInv'
<1>1. /\ stage = "asking" /\ stage' = "counting"
      /\ listed' \subseteq Live /\ Cardinality(listed') <= MaxMemories
      /\ UNCHANGED <<registry, tools, memories, request, queue, at, sizes, context, plan, error>>
  BY DEF ListMemories, registries
<1>2. error = "none" /\ memories \in [Memories -> MemoryStates]
  BY <1>1 DEF PlanningInv, TypeOK
<1>3. listed' \subseteq Memories /\ \A m \in listed' : memories'[m] # "unborn"
  BY <1>1, <1>2 DEF Live
<1>4. TypeOK'
  BY <1>1, <1>2, <1>3 DEF PlanningInv, TypeOK, Stages
<1>5. RegistriesInv'
  BY <1>1 DEF PlanningInv, RegistriesInv
<1>6. AssemblyInv'
  BY <1>1, <1>3 DEF PlanningInv, AssemblyInv
<1>7. ContextInv'
  BY <1>1 DEF PlanningInv, ContextInv
<1>8. PlanInv'
  BY <1>1 DEF PlanningInv, PlanInv, Planned
<1>9. RefusalsHaveACause'
  BY <1>1, <1>2 DEF RefusalsHaveACause
<1>10. PlansAreExecutable'
  BY <1>1 DEF PlanningInv, PlansAreExecutable
<1> QED BY <1>4, <1>5, <1>6, <1>7, <1>8, <1>9, <1>10 DEF PlanningInv

\* A total below the page: a memory of the page is gone.
LEMMA MisleadingTotal ==
  ASSUME PlanningInv, stage = "counting", TotalMisleads
  PROVE  \E m \in listed : memories[m] \in {"hidden", "deleted"}
<1> SUFFICES ASSUME \A m \in listed : memories[m] \notin {"hidden", "deleted"} PROVE FALSE
  OBVIOUS
<1>1. /\ memories \in [Memories -> MemoryStates] /\ listed \subseteq Memories
      /\ \A m \in listed : memories[m] # "unborn"
  BY DEF PlanningInv, TypeOK, AssemblyInv
<1>2. listed \in SUBSET Live
  BY <1>1 DEF Live, MemoryStates
<1>3. IsFiniteSet(Live) /\ Live \in SUBSET Memories
  <2>1. Live \in SUBSET Memories
    BY DEF Live
  <2> QED BY <2>1, FS_Subset, MemoriesAssumption
<1>4. Cardinality(listed) <= Cardinality(Live) /\ Cardinality(listed) \in Nat /\ Cardinality(Live) \in Nat
  BY <1>2, <1>3, FS_Subset, FS_CardinalityType
<1> QED BY <1>4 DEF TotalMisleads

\* The queue, from the provider that answers with a section of some size on.
LEMMA AnsweringKeeps ==
  ASSUME PlanningInv, stage \in {"asking", "counting"}, NEW p, NEW size \in Sizes, size <= MaxSection,
         GoOn(queue, at, [sizes EXCEPT ![p] = size]),
         UNCHANGED <<registries, memories, request, listed>>
  PROVE  PlanningInv'
<1>1. /\ Range(queue) \in SUBSET registry /\ Required \subseteq Range(queue)
      /\ queue = Ranked(Range(queue)) /\ at \in 0 .. Len(queue) /\ Len(queue) <= MaxSections
      /\ sizes \in Sections /\ \A q \in Providers : sizes[q] <= MaxSection
  BY DEF PlanningInv, TypeOK, AssemblyInv
<1>2. Cardinality(Range(queue)) <= MaxSections
  <2>1. Len(Ranked(Range(queue))) = Cardinality(Range(queue))
    BY Ranges, RankedLists
  <2> QED BY <1>1, <2>1
<1>3. [sizes EXCEPT ![p] = size] \in Sections
  BY <1>1, LimitsAssumption DEF Sections
<1>4. \A q \in Providers : [sizes EXCEPT ![p] = size][q] <= MaxSection
  BY <1>1 DEF Sections
<1>5. PICK sized : sized = [sizes EXCEPT ![p] = size]
  OBVIOUS
<1>6. UNCHANGED <<registry, tools, memories, request, listed>>
  BY DEF registries
<1> QED BY <1>1, <1>2, <1>3, <1>4, <1>5, <1>6, GoingOn

LEMMA CountMemoriesKeeps ==
  ASSUME PlanningInv, CountMemories
  PROVE  PlanningInv'
<1>1. stage = "counting" /\ UNCHANGED <<registries, memories, request>>
  BY DEF CountMemories
<1>2. PICK size \in Sizes :
        \/ TotalMisleads /\ Fail("memory_total") /\ UNCHANGED assembly
        \/ Fail("memory_limit") /\ UNCHANGED assembly
        \/ /\ size <= MaxSection
           /\ GoOn(queue, at, [sizes EXCEPT ![Memory] = size]) /\ UNCHANGED listed
  BY DEF CountMemories
<1>3. CASE TotalMisleads /\ Fail("memory_total") /\ UNCHANGED assembly
  <2>1. "memory_total" \in Refusals
    BY DEF Codes, Refusals
  <2>2. \E m \in listed : memories[m] \in {"hidden", "deleted"}
    BY <1>1, <1>3, MisleadingTotal
  <2> QED BY <1>1, <1>3, <2>1, <2>2, RefusingInPlace
<1>4. CASE Fail("memory_limit") /\ UNCHANGED assembly
  <2>1. "memory_limit" \in Refusals
    BY DEF Codes, Refusals
  <2> QED BY <1>1, <1>4, <2>1, RefusingInPlace
<1>5. CASE /\ size <= MaxSection
           /\ GoOn(queue, at, [sizes EXCEPT ![Memory] = size]) /\ UNCHANGED listed
  BY <1>1, <1>5, AnsweringKeeps
<1> QED BY <1>2, <1>3, <1>4, <1>5

LEMMA AnswerKeeps ==
  ASSUME PlanningInv, Answer
  PROVE  PlanningInv'
<1>1. stage = "asking" /\ UNCHANGED <<registries, memories, request>>
  BY DEF Answer
<1>2. PICK size \in Sizes :
        \/ /\ Fail(IF queue[at] = Knowledge THEN "knowledge_limit" ELSE "context_limit")
           /\ UNCHANGED assembly
        \/ /\ size <= MaxSection
           /\ GoOn(queue, at, [sizes EXCEPT ![queue[at]] = size]) /\ UNCHANGED listed
  BY DEF Answer
<1>3. CASE /\ Fail(IF queue[at] = Knowledge THEN "knowledge_limit" ELSE "context_limit")
           /\ UNCHANGED assembly
  <2>1. PICK code \in {"knowledge_limit", "context_limit"} : Fail(code)
    BY <1>3
  <2>2. /\ code \in Refusals
        /\ code \notin {"memory_total", "provider_names", "planner_limit", "executor_limit",
                       "plan_metadata", "plan_steps"}
    BY DEF Codes, Refusals
  <2> QED BY <1>1, <1>3, <2>1, <2>2, RefusingInPlace
<1>4. CASE /\ size <= MaxSection
           /\ GoOn(queue, at, [sizes EXCEPT ![queue[at]] = size]) /\ UNCHANGED listed
  BY <1>1, <1>4, AnsweringKeeps
<1> QED BY <1>2, <1>3, <1>4

LEMMA ProviderFailsKeeps ==
  ASSUME PlanningInv, ProviderFails
  PROVE  PlanningInv'
<1>1. /\ stage # "failed" /\ Fail("provider")
      /\ UNCHANGED <<registries, memories, request, assembly>>
  BY DEF ProviderFails
<1>2. "provider" \in Refusals
  BY DEF Codes, Refusals
<1> QED BY <1>1, <1>2, RefusingInPlace

-----------------------------------------------------------------------------
(* Planning, and the executor's view of the plan. *)

\* The plan that is made for a request whose tools are all enabled.
LEMMA PlanMade ==
  ASSUME PlanningInv, stage = "assembled", Len(BuildSteps(request.requested)) <= MaxPlanSteps,
         Range(request.requested) \subseteq Enabled,
         stage' = "planned",
         plan' = [steps |-> BuildSteps(request.requested), available |-> Enabled,
                  requested |-> request.requested],
         UNCHANGED <<registries, memories, request, assembly, context, error>>
  PROVE  PlanningInv'
<1> DEFINE steps == BuildSteps(request.requested)
<1>1. /\ UNCHANGED <<registry, tools, memories, request, queue, at, sizes, listed, context, error>>
      /\ error = "none"
  BY DEF registries, assembly, PlanningInv, TypeOK
<1>2. request.requested \in Seq(Tools)
  BY ToolsAssumption DEF PlanningInv, TypeOK, Requests
<1>3. /\ plan'.steps = steps /\ plan'.available = Enabled /\ plan'.requested = request.requested
  OBVIOUS
<1>4. steps \in Seq(PlanSteps) /\ Len(steps) <= MaxPlanSteps
  BY <1>2, StepsAreAChain
<1>5. \A i \in DOMAIN steps : steps[i].depends_on = IF i = 1 THEN {} ELSE {i - 1}
  BY <1>2, StepsAreAChain
<1> HIDE DEF steps
<1>7. TypeOK'
  <2>1. stage' \in Stages /\ error' \in Codes /\ (error' # "none") = (stage' = "failed")
    BY <1>1 DEF Stages, Codes
  <2>2. plan'.steps \in Seq(PlanSteps) /\ Len(plan'.steps) <= MaxPlanSteps
    BY <1>3, <1>4
  <2> QED BY <1>1, <2>1, <2>2 DEF PlanningInv, TypeOK
<1>8. RegistriesInv'
  BY <1>1 DEF PlanningInv, RegistriesInv
<1>9. AssemblyInv'
  BY <1>1 DEF PlanningInv, AssemblyInv
<1>10. ContextInv'
  BY <1>1 DEF PlanningInv, ContextInv
<1>11. PlanInv'
  BY <1>1, <1>3 DEF PlanInv, Planned, steps
<1>12. RefusalsHaveACause'
  BY <1>1 DEF RefusalsHaveACause
<1>13. PlansAreExecutable'
  <2>1. ASSUME NEW i \in DOMAIN steps, i > 1 PROVE (i - 1) \in steps[i].depends_on
    <3>1. steps[i].depends_on = IF i = 1 THEN {} ELSE {i - 1}
      BY <1>5
    <3> QED BY <2>1, <3>1
  <2> QED BY <1>1, <1>3, <2>1 DEF PlansAreExecutable
<1> QED BY <1>7, <1>8, <1>9, <1>10, <1>11, <1>12, <1>13 DEF PlanningInv

LEMMA PlanKeeps ==
  ASSUME PlanningInv, Plan
  PROVE  PlanningInv'
<1> DEFINE asked == request.requested
           steps == BuildSteps(asked)
           made  == [steps |-> steps, available |-> Enabled, requested |-> asked]
           resolved == WellFormed /\ WithinPlannerLimits /\ Range(asked) \subseteq Enabled
           named == Range(context.providers) \subseteq Identifiers
           built == resolved /\ named /\ Len(steps) <= LongestPlan /\ ValidSteps(steps)
           short == Len(steps) <= MaxPlanSteps
<1>1. stage = "assembled" /\ UNCHANGED <<registries, memories, request, assembly>>
  BY DEF Plan
<1>2. \/ ~ WellFormed /\ Fail("planning_request")
      \/ ~ WithinPlannerLimits /\ Fail("planner_limit")
      \/ Fail("unavailable_tool")
      \/ ~ named /\ Fail("plan_metadata")
      \/ resolved /\ named /\ ~ built /\ Fail("plan_steps")
      \/ ~ short /\ Fail("planner_limit")
      \/ resolved /\ ~ ValidForRequest(made, Enabled)
      \/ /\ resolved /\ short
         /\ stage' = "planned" /\ plan' = made /\ UNCHANGED <<context, error>>
  BY DEF Plan
<1>3. resolved => ValidSteps(steps) /\ ValidForRequest(made, Enabled)
  <2>1. asked \in Seq(Tools)
    BY ToolsAssumption DEF PlanningInv, TypeOK, Requests
  <2> QED BY <2>1, PlannerKeepsItsPlan
<1>4. Len(steps) \in Nat /\ \A n \in Nat \ {0} : Len(steps) > n => Len(asked) > n
  <2>1. asked \in Seq(Tools)
    BY ToolsAssumption DEF PlanningInv, TypeOK, Requests
  <2>2. Len(steps) = IF asked = <<>> THEN 1 ELSE Len(asked)
    BY <2>1, StepsAreAChain
  <2> QED BY <2>1, <2>2
<1> HIDE DEF steps
<1>5. {"planning_request", "planner_limit", "unavailable_tool", "plan_metadata", "plan_steps"}
        \subseteq Refusals
  BY DEF Codes, Refusals
<1>6. CASE ~ WellFormed /\ Fail("planning_request")
  BY <1>1, <1>5, <1>6, RefusingInPlace
<1>7. CASE ~ WithinPlannerLimits /\ Fail("planner_limit")
  <2>1. context.size \in Nat /\ MaxTotal \in Nat /\ Overhead \in Nat /\ MaxRequested \in Nat
    BY LimitsAssumption DEF PlanningInv, ContextInv
  <2>2. Len(asked) \in Nat
    BY ToolsAssumption DEF PlanningInv, TypeOK, Requests
  <2>3. BeyondThePlanner
    BY <1>7, <2>1, <2>2 DEF WithinPlannerLimits, BeyondThePlanner
  <2> QED BY <1>1, <1>5, <1>7, <2>3, RefusingInPlace
<1>8. CASE Fail("unavailable_tool")
  BY <1>1, <1>5, <1>8, RefusingInPlace
<1>9. CASE ~ named /\ Fail("plan_metadata")
  <2>1. ~ (Range(queue) \subseteq Identifiers)
    BY <1>1, <1>9 DEF PlanningInv, ContextInv
  <2> QED BY <1>1, <1>5, <1>9, <2>1, RefusingInPlace
<1>10. CASE resolved /\ named /\ ~ built /\ Fail("plan_steps")
  <2>1. LongestPlan \in Nat \ {0} /\ Len(steps) > LongestPlan
    <3>1. LongestPlan \in Nat \ {0} /\ Len(steps) \in Nat
      BY <1>4, LimitsAssumption
    <3> QED BY <1>3, <1>10, <3>1
  <2>2. Len(asked) > LongestPlan
    BY <1>4, <2>1
  <2> QED BY <1>1, <1>5, <1>10, <2>2, RefusingInPlace
<1>11. CASE ~ short /\ Fail("planner_limit")
  <2>1. MaxPlanSteps \in Nat \ {0} /\ Len(steps) > MaxPlanSteps
    BY <1>11, <1>4, LimitsAssumption
  <2>2. BeyondThePlanner
    BY <1>4, <2>1 DEF BeyondThePlanner
  <2> QED BY <1>1, <1>5, <1>11, <2>2, RefusingInPlace
<1>12. CASE /\ resolved /\ short
            /\ stage' = "planned" /\ plan' = made /\ UNCHANGED <<context, error>>
  BY <1>1, <1>12, PlanMade DEF steps
<1> QED BY <1>2, <1>3, <1>6, <1>7, <1>8, <1>9, <1>10, <1>11, <1>12

LEMMA AcceptingKeeps ==
  ASSUME PlanningInv, stage = "planned", stage' = "accepted",
         UNCHANGED <<registries, memories, request, assembly, context, plan, error>>
  PROVE  PlanningInv'
<1>1. UNCHANGED <<registry, tools, memories, request, queue, at, sizes, listed, context, plan, error>>
  BY DEF registries, assembly
<1>2. error = "none"
  BY DEF PlanningInv, TypeOK
<1>3. TypeOK'
  BY <1>1, <1>2 DEF PlanningInv, TypeOK, Stages
<1>4. RegistriesInv'
  BY <1>1 DEF PlanningInv, RegistriesInv
<1>5. AssemblyInv'
  BY <1>1 DEF PlanningInv, AssemblyInv
<1>6. ContextInv'
  BY <1>1 DEF PlanningInv, ContextInv
<1>7. PlanInv'
  BY <1>1 DEF PlanningInv, PlanInv, Planned
<1>8. RefusalsHaveACause'
  BY <1>1, <1>2 DEF RefusalsHaveACause
<1>9. PlansAreExecutable'
  BY <1>1 DEF PlanningInv, PlansAreExecutable
<1> QED BY <1>3, <1>4, <1>5, <1>6, <1>7, <1>8, <1>9 DEF PlanningInv

LEMMA ExecuteKeeps ==
  ASSUME PlanningInv, Execute
  PROVE  PlanningInv'
<1>1. stage = "planned" /\ UNCHANGED <<registries, memories, request, assembly>>
  BY DEF Execute
<1>2. Executable(plan)
  <2>1. request.requested \in Seq(Tools)
    BY ToolsAssumption DEF PlanningInv, TypeOK, Requests
  <2> QED BY <1>1, <2>1, ExecutorTakesThePlan DEF PlanningInv, PlanInv, Planned
<1>3. CASE Len(plan.steps) > MaxSteps /\ Fail("executor_limit")
  <2>1. "executor_limit" \in Refusals
    BY DEF Codes, Refusals
  <2> QED BY <1>1, <1>3, <2>1, RefusingInPlace
<1>4. CASE stage' = "accepted" /\ UNCHANGED <<context, plan, error>>
  BY <1>1, <1>4, AcceptingKeeps
<1>5. Len(plan.steps) \in Nat /\ MaxSteps \in Nat
  BY LimitsAssumption DEF PlanningInv, TypeOK
<1> QED BY <1>2, <1>3, <1>4, <1>5 DEF Execute

-----------------------------------------------------------------------------
(* The theorems. *)

LEMMA PlanningSteps == PlanningInv /\ [Next]_vars => PlanningInv'
<1> SUFFICES ASSUME PlanningInv, [Next]_vars PROVE PlanningInv'
  OBVIOUS
<1>1. CASE Meanwhile
  BY <1>1, RegisterProviderKeeps, RegisterToolKeeps, MemoriesKeep DEF Meanwhile
<1>2. CASE Orchestrate
  BY <1>2, BeginKeeps, ListMemoriesKeeps, CountMemoriesKeeps, AnswerKeeps, ProviderFailsKeeps,
     PlanKeeps, ExecuteKeeps DEF Orchestrate
<1>3. CASE UNCHANGED vars
  <2>1. UNCHANGED <<registry, tools, memories, request, stage, queue, at, sizes, listed, context, plan, error>>
    BY <1>3 DEF vars, registries, assembly
  <2>2. TypeOK' /\ RegistriesInv' /\ AssemblyInv'
    BY <2>1 DEF PlanningInv, TypeOK, RegistriesInv, AssemblyInv
  <2>3. ContextInv' /\ PlanInv'
    BY <2>1 DEF PlanningInv, ContextInv, PlanInv, Planned
  <2>4. RefusalsHaveACause' /\ PlansAreExecutable'
    BY <2>1 DEF PlanningInv, RefusalsHaveACause, PlansAreExecutable
  <2> QED BY <2>2, <2>3, <2>4 DEF PlanningInv
<1> QED BY <1>1, <1>2, <1>3 DEF Next

\* The inductive invariant holds throughout: what each suspended assembly
\* relies on survives every registration and memory edit in between.
THEOREM PlanningInvariant == Spec => []PlanningInv
<1>1. Init => PlanningInv
  BY PlanningInitially
<1>2. PlanningInv /\ [Next]_vars => PlanningInv'
  BY PlanningSteps
<1> QED BY <1>1, <1>2, PTL DEF Spec

\* The variables keep their types and the limits on sections, sizes, tools and
\* steps, and an assembled context has all required providers.
THEOREM TypeCorrect == Spec => []TypeOK
<1>1. PlanningInv => TypeOK
  BY DEF PlanningInv
<1> QED BY <1>1, PlanningInvariant, PTL

\* A refusal by a total, by names or by a limit of planner or executor has one
\* of the causes that RefusalsHaveACause names, whatever the limits are.
THEOREM RefusalsAreCaused == Spec => []RefusalsHaveACause
<1>1. PlanningInv => RefusalsHaveACause
  BY DEF PlanningInv
<1> QED BY <1>1, PlanningInvariant, PTL

\* A plan the planner has built is refused for its length only, by the planner
\* or by the executor, and its tools wait for those asked for before them.
THEOREM PlansAreTaken == Spec => []PlansAreExecutable
<1>1. PlanningInv => PlansAreExecutable
  BY DEF PlanningInv
<1> QED BY <1>1, PlanningInvariant, PTL

\* Each key of a context is from the provider of highest rank that has it.
THEOREM TheHighestSpeak == Spec => []HighestRankSpeaks
<1>1. PlanningInv => HighestRankSpeaks
  <2> SUFFICES ASSUME PlanningInv PROVE HighestRankSpeaks
    OBVIOUS
  <2> DEFINE names == Range(context.providers)
  <2>1. names \in SUBSET Providers /\ IsFiniteSet(names)
    BY Ranges
  <2>2. context.data = Merged(names)
    BY DEF PlanningInv, ContextInv
  <2> QED BY <2>1, <2>2, MergedSpeaksForTheHighest DEF HighestRankSpeaks
<1> QED BY <1>1, PlanningInvariant, PTL
=============================================================================
