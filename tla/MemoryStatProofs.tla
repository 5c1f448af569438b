-------------------------- MODULE MemoryStatProofs --------------------------
(***************************************************************************)
(* What holds of ConcurrentMap and of MemoryStat, which is built on it, for *)
(* every set of keys, values and threads.                                   *)
(***************************************************************************)
EXTENDS MemoryStat, FiniteSetTheorems, WellFoundedInduction, TLAPS

-----------------------------------------------------------------------------
(***************************************************************************)
(* What holds of ConcurrentMap for every set of keys, values and walking    *)
(* threads.  A walk misses no key that stays because such a key is, as long *)
(* as the visitor goes on, either seen or still to come; and a key it finds *)
(* gone cannot be one that stayed.                                          *)
(***************************************************************************)
\* Of one walk: its visitor holds a value; it knows only keys that are still there as those that stayed,
\* and has seen, or will see, all of them unless it was told to stop.
WalkInv(t) ==
    /\ walk[t].at # None => walk[t].held # None
    /\ walk[t].stayed \subseteq Keys(inner)
    /\ walk[t].last /\ walk[t].at = None => walk[t].left = {}
    /\ ~walk[t].last => walk[t].stayed \subseteq walk[t].seen \cup walk[t].left

MapInv ==
    /\ MapTypeOK
    /\ NothingComesBack
    /\ \A t \in Walker : WalkInv(t)

-----------------------------------------------------------------------------
\* What every insertion and removal does: the map becomes m, and no walk keeps
\* a key of gone among those that stayed.
LEMMA BecomesKeepsWalks ==
    ASSUME MapInv, NEW m \in Map, NEW gone \in SUBSET Key, Becomes(m, gone),
           Keys(inner) \ gone \subseteq Keys(m)
    PROVE  /\ inner' \in Map
           /\ walk' \in [Walker -> Walk]
           /\ \A t \in Walker : WalkInv(t)'
<1>1. inner' = m
  BY DEF Becomes
<1>2. \A t \in Walker : walk'[t] = [walk[t] EXCEPT !.stayed = @ \ gone]
  BY DEF Becomes
<1>3. \A t \in Walker : walk[t] \in Walk
  BY DEF MapInv, MapTypeOK, Walk
<1>4. \A t \in Walker : WalkInv(t)'
  <2> SUFFICES ASSUME NEW t \in Walker PROVE WalkInv(t)'
    OBVIOUS
  <2>1. WalkInv(t)
    BY DEF MapInv
  <2>2. walk'[t].stayed = walk[t].stayed \ gone
    BY <1>2, <1>3 DEF Walk
  <2>3. walk'[t].last = walk[t].last /\ walk'[t].seen = walk[t].seen
        /\ walk'[t].left = walk[t].left
        /\ walk'[t].at = walk[t].at /\ walk'[t].held = walk[t].held
    BY <1>2, <1>3 DEF Walk
  <2>4. walk[t].stayed \ gone \subseteq Keys(m)
    BY <2>1 DEF WalkInv
  <2> QED
    BY <1>1, <2>1, <2>2, <2>3, <2>4 DEF WalkInv, Keys
<1> QED
  BY <1>1, <1>2, <1>3, <1>4 DEF Becomes, Walk

LEMMA InsertPreserves ==
    ASSUME MapInv, NEW k \in Key, NEW v \in Value, Insert(k, v)
    PROVE  MapInv'
<1> DEFINE m == [inner EXCEPT ![k] = v]
<1>1. m \in Map /\ Keys(m) = Keys(inner) \cup {k}
  BY MapAssumption DEF MapInv, MapTypeOK, Walk, Map, Keys
<1>2. Becomes(m, {}) /\ inserted' = inserted \cup {k}
  BY DEF Insert
<1>3. inner' = m
  BY <1>2 DEF Becomes
<1> HIDE DEF m
<1>4. Keys(inner)' = inserted'
  BY <1>1, <1>2, <1>3 DEF MapInv, NothingComesBack, Keys
<1> QED
  BY <1>1, <1>2, <1>4, BecomesKeepsWalks DEF MapInv, MapTypeOK, Walk, NothingComesBack

LEMMA BatchInsertPreserves ==
    ASSUME MapInv, NEW values \in Map, BatchInsert(values)
    PROVE  MapInv'
<1> DEFINE m == [k \in Key |-> IF values[k] = None THEN inner[k] ELSE values[k]]
<1>1. m \in Map /\ Keys(m) = Keys(inner) \cup Keys(values)
  BY DEF MapInv, MapTypeOK, Walk, Map, Keys
<1>2. Becomes(m, {}) /\ inserted' = inserted \cup Keys(values)
  BY DEF BatchInsert
<1>3. inner' = m
  BY <1>2 DEF Becomes
<1> HIDE DEF m
<1>4. Keys(inner)' = inserted'
  BY <1>1, <1>2, <1>3 DEF MapInv, NothingComesBack, Keys
<1>5. Keys(values) \subseteq Key
  BY DEF Keys
<1> QED
  BY <1>1, <1>2, <1>4, <1>5, BecomesKeepsWalks DEF MapInv, MapTypeOK, Walk, NothingComesBack

LEMMA ClearAndBatchInsertPreserves ==
    ASSUME MapInv, NEW values \in Map, ClearAndBatchInsert(values)
    PROVE  MapInv'
<1> DEFINE gone == Key \ Keys(values)
<1>1. Becomes(values, gone) /\ inserted' = Keys(values)
  BY DEF ClearAndBatchInsert
<1>2. inner' = values
  BY <1>1 DEF Becomes
<1>3. Keys(inner) \ gone \subseteq Keys(values) /\ Keys(values) \subseteq Key
  BY DEF Keys
<1>4. Keys(inner)' = inserted'
  BY <1>1, <1>2 DEF Keys
<1>5. gone \in SUBSET Key
  OBVIOUS
<1> HIDE DEF gone
<1> QED
  BY <1>1, <1>3, <1>4, <1>5, BecomesKeepsWalks DEF MapInv, MapTypeOK, Walk, NothingComesBack

LEMMA RemoveIfPreserves ==
    ASSUME MapInv, NEW k \in Key, NEW wanted \in SUBSET Value, RemoveIf(k, wanted)
    PROVE  MapInv'
<1> DEFINE m == [inner EXCEPT ![k] = None]
<1>1. m \in Map /\ Keys(m) = Keys(inner) \ {k}
  BY DEF MapInv, MapTypeOK, Walk, Map, Keys
<1>2. Becomes(m, {k}) /\ inserted' = inserted \ {k}
  BY DEF RemoveIf
<1>3. inner' = m
  BY <1>2 DEF Becomes
<1> HIDE DEF m
<1>4. Keys(inner)' = inserted'
  BY <1>1, <1>2, <1>3 DEF MapInv, NothingComesBack, Keys
<1> QED
  BY <1>1, <1>2, <1>4, BecomesKeepsWalks DEF MapInv, MapTypeOK, Walk, NothingComesBack

-----------------------------------------------------------------------------
LEMMA BeginWalkPreserves ==
    ASSUME MapInv, NEW t \in Walker, BeginWalk(t)
    PROVE  MapInv'
<1>1. \A u \in Walker : WalkInv(u)'
  <2> SUFFICES ASSUME NEW u \in Walker PROVE WalkInv(u)'
    OBVIOUS
  <2>1. CASE u = t
    BY <2>1 DEF BeginWalk, MapInv, MapTypeOK, Walk, WalkInv, Keys, AtRest
  <2>2. CASE u # t
    BY <2>2 DEF BeginWalk, MapInv, MapTypeOK, Walk, WalkInv, Keys
  <2> QED
    BY <2>1, <2>2
<1> QED
  BY <1>1 DEF BeginWalk, MapInv, MapTypeOK, Walk, NothingComesBack, Keys, AtRest

LEMMA SkipKeyPreserves ==
    ASSUME MapInv, NEW t \in Walker, NEW k \in Key, SkipKey(t, k)
    PROVE  MapInv'
<1>1. \A u \in Walker : WalkInv(u)'
  <2> SUFFICES ASSUME NEW u \in Walker PROVE WalkInv(u)'
    OBVIOUS
  <2>1. WalkInv(u) /\ UNCHANGED inner
    BY DEF MapInv, SkipKey
  <2>2. CASE u = t
    <3>1. k \notin walk[t].stayed
      BY <2>1, <2>2 DEF SkipKey, WalkInv, Keys
    <3> QED
      BY <2>1, <2>2, <3>1 DEF SkipKey, MapInv, MapTypeOK, Walk, WalkInv, Keys
  <2>3. CASE u # t
    BY <2>1, <2>3 DEF SkipKey, MapInv, MapTypeOK, Walk, WalkInv, Keys
  <2> QED
    BY <2>2, <2>3
<1> QED
  BY <1>1 DEF SkipKey, MapInv, MapTypeOK, Walk, NothingComesBack, Keys

LEMMA VisitPreserves ==
    ASSUME MapInv, NEW t \in Walker, NEW k \in Key, NEW v \in Value, NEW last \in BOOLEAN,
           Visit(t, k, v, last)
    PROVE  MapInv'
<1>2. /\ walk'[t] = [on |-> walk[t].on, left |-> walk[t].left \ {k}, at |-> k, held |-> v,
                     last |-> last, seen |-> walk[t].seen \cup {k}, stayed |-> walk[t].stayed]
      /\ \A u \in Walker \ {t} : walk'[u] = walk[u]
      /\ walk' \in [Walker -> Walk]
  BY DEF Visit, MapInv, MapTypeOK, Walk
<1>1. \A u \in Walker : WalkInv(u)'
  <2> SUFFICES ASSUME NEW u \in Walker PROVE WalkInv(u)'
    OBVIOUS
  <2>1. WalkInv(u) /\ UNCHANGED inner
    BY DEF MapInv, Visit
  <2>2. CASE u = t
    BY <1>2, <2>1, <2>2, MapAssumption DEF Visit, WalkInv, Keys
  <2>3. CASE u # t
    BY <1>2, <2>1, <2>3 DEF WalkInv, Keys
  <2> QED
    BY <2>2, <2>3
<1> QED
  BY <1>1, <1>2 DEF Visit, MapInv, MapTypeOK, NothingComesBack, Keys

LEMMA WriteBackPreserves ==
    ASSUME MapInv, NEW t \in Walker, WriteBack(t)
    PROVE  MapInv'
<1>1. walk[t].at \in Key
  BY DEF WriteBack, MapInv, MapTypeOK, Walk
<1>2. Keys(inner') = Keys(inner) /\ inner' \in Map
  BY <1>1, MapAssumption DEF WriteBack, WalkInv, MapInv, MapTypeOK, Walk, Map, Keys
<1>3. \A u \in Walker : WalkInv(u)'
  <2> SUFFICES ASSUME NEW u \in Walker PROVE WalkInv(u)'
    OBVIOUS
  <2>1. WalkInv(u)
    BY DEF MapInv
  <2>2. walk'[u].stayed = walk[u].stayed /\ walk'[u].seen = walk[u].seen
        /\ walk'[u].last = walk[u].last
        /\ (~walk[u].last => walk'[u].left = walk[u].left)
        /\ (walk'[u].last /\ walk'[u].at = None => u = t \/ walk[u].at = None)
        /\ (u # t => walk'[u] = walk[u])
        /\ (u = t /\ walk[u].last => walk'[u].left = {})
        /\ (walk'[u].at # None => walk'[u].at = walk[u].at /\ walk'[u].held = walk[u].held)
    BY DEF WriteBack, Returned, MapInv, MapTypeOK, Walk
  <2> QED
    BY <1>2, <2>1, <2>2 DEF WalkInv, Keys
<1>4. walk' \in [Walker -> Walk]
  BY DEF WriteBack, Returned, MapInv, MapTypeOK, Walk
<1> QED
  BY <1>2, <1>3, <1>4 DEF WriteBack, MapInv, MapTypeOK, Walk, NothingComesBack, Keys

LEMMA EndWalkPreserves ==
    ASSUME MapInv, NEW t \in Walker, EndWalk(t)
    PROVE  MapInv'
<1>1. \A u \in Walker : WalkInv(u)'
  <2> SUFFICES ASSUME NEW u \in Walker PROVE WalkInv(u)'
    OBVIOUS
  <2>1. CASE u = t
    BY <2>1 DEF EndWalk, MapInv, MapTypeOK, Walk, WalkInv, Keys, AtRest
  <2>2. CASE u # t
    BY <2>2 DEF EndWalk, MapInv, MapTypeOK, Walk, WalkInv, Keys
  <2> QED
    BY <2>1, <2>2
<1> QED
  BY <1>1 DEF EndWalk, MapInv, MapTypeOK, Walk, NothingComesBack, Keys, AtRest

-----------------------------------------------------------------------------
LEMMA InitEstablishes == MapInit => MapInv
  BY DEF MapInit, MapInv, MapTypeOK, Walk, Map, NothingComesBack, WalkInv, Keys, EmptyMap, AtRest

LEMMA StepPreserves == MapInv /\ [MapNext]_mapVars => MapInv'
<1> SUFFICES ASSUME MapInv, [MapNext]_mapVars PROVE MapInv'
  OBVIOUS
<1>1. CASE UNCHANGED mapVars
  BY <1>1 DEF mapVars, MapInv, MapTypeOK, Walk, NothingComesBack, WalkInv, Keys
<1>2. ASSUME NEW k \in Key, NEW v \in Value, Insert(k, v) PROVE MapInv'
  BY <1>2, InsertPreserves
<1>3. ASSUME NEW values \in Map, BatchInsert(values) PROVE MapInv'
  BY <1>3, BatchInsertPreserves
<1>4. ASSUME NEW values \in Map, ClearAndBatchInsert(values) PROVE MapInv'
  BY <1>4, ClearAndBatchInsertPreserves
<1>5. ASSUME NEW k \in Key, NEW wanted \in SUBSET Value, RemoveIf(k, wanted) PROVE MapInv'
  BY <1>5, RemoveIfPreserves
<1>6. ASSUME NEW t \in Walker, BeginWalk(t) PROVE MapInv'
  BY <1>6, BeginWalkPreserves
<1>7. ASSUME NEW t \in Walker, WalkStep(t) PROVE MapInv'
  BY <1>7, SkipKeyPreserves, VisitPreserves, WriteBackPreserves, EndWalkPreserves DEF WalkStep
<1> QED
  BY <1>1, <1>2, <1>3, <1>4, <1>5, <1>6, <1>7 DEF MapNext

LEMMA MapInvariant == MapSpec => []MapInv
  BY InitEstablishes, StepPreserves, PTL DEF MapSpec

(***************************************************************************)
(* The map and the walks have their types.                                  *)
(***************************************************************************)
THEOREM MapTypeCorrect == MapSpec => []MapTypeOK
<1>1. MapInv => MapTypeOK
  BY DEF MapInv
<1> QED
  BY <1>1, MapInvariant, PTL

(***************************************************************************)
(* No walk brings a removed key back (concurrent_hashmap.h:138-142).        *)
(***************************************************************************)
THEOREM RemovedStaysRemoved == MapSpec => []NothingComesBack
<1>1. MapInv => NothingComesBack
  BY DEF MapInv
<1> QED
  BY <1>1, MapInvariant, PTL

(***************************************************************************)
(* A walk misses no key that was in the map all the time                    *)
(* (concurrent_hashmap.h:124-145).                                          *)
(***************************************************************************)
THEOREM WalksMissNothing == MapSpec => []VisitsWhatStays
<1>1. MapInv => VisitsWhatStays
  BY DEF MapInv, VisitsWhatStays, WalkInv, Ended
<1> QED
  BY <1>1, MapInvariant, PTL

-----------------------------------------------------------------------------
(***************************************************************************)
(* Sums over finite sets.  Each lemma about all finite sets is proved from  *)
(* a least set for which it fails.                                          *)
(***************************************************************************)
Sum(f, S) == MapThenSumSet(LAMBDA x : f[x], S)

LEMMA MinimalSet ==
    ASSUME NEW S, IsFiniteSet(S), NEW T, T \subseteq SUBSET S, T # {}
    PROVE \E x \in T : \A y \in T : y \subseteq x => y = x
<1>1. IsWellFoundedOn(StrictSubsetOrdering(S), FiniteSubsetsOf(S))
  BY FS_StrictSubsetOrderingWellFounded
<1>2. T \subseteq FiniteSubsetsOf(S)
  BY FS_FiniteSubsetsOfFinite
<1>3. PICK x \in T : \A y \in T : <<y, x>> \notin StrictSubsetOrdering(S)
  BY <1>1, <1>2, WFMin
<1>4. ASSUME NEW y \in T, y \subseteq x, y # x PROVE FALSE
  BY <1>3, <1>4 DEF StrictSubsetOrdering
<1> QED BY <1>4

Pick(s) == CHOOSE x \in s : TRUE
Partial(it, f, S) == it = [s \in SUBSET S |-> IF s = {} THEN 0 ELSE f[Pick(s)] + it[s \ {Pick(s)}]]
PartialSums(f, S) == CHOOSE it : Partial(it, f, S)

LEMMA SumIsPartial == ASSUME NEW f, NEW S PROVE Sum(f, S) = PartialSums(f, S)[S]
BY DEF Sum, MapThenSumSet, MapThenFoldSet, PartialSums, Partial, Pick

\* What Partial says at one argument.
LEMMA PartialAt ==
    ASSUME NEW f, NEW S, NEW it, Partial(it, f, S)
    PROVE  /\ it[{}] = 0
           /\ \A s \in SUBSET S : s # {} =>
                 Pick(s) \in s /\ it[s] = f[Pick(s)] + it[s \ {Pick(s)}]
<1>1. \A s : s # {} => Pick(s) \in s
  BY DEF Pick
<1>2. \A s \in SUBSET S : it[s] = IF s = {} THEN 0 ELSE f[Pick(s)] + it[s \ {Pick(s)}]
  BY DEF Partial
<1>3. {} \in SUBSET S
  OBVIOUS
<1> QED BY <1>1, <1>2, <1>3

\* Two functions that add up the same agree where both are defined.
LEMMA PartialUnique ==
    ASSUME NEW f, NEW S, IsFiniteSet(S), NEW A \in SUBSET S, NEW B \in SUBSET S,
           NEW a, NEW b, Partial(a, f, A), Partial(b, f, B)
    PROVE  \A s \in SUBSET (A \cap B) : a[s] = b[s]
<1> DEFINE T == {s \in SUBSET (A \cap B) : a[s] # b[s]}
<1> SUFFICES ASSUME T # {} PROVE FALSE
  OBVIOUS
<1>1. T \subseteq SUBSET S
  OBVIOUS
<1>2. PICK s \in T : \A y \in T : y \subseteq s => y = s
  <2> HIDE DEF T
  <2> QED BY <1>1, MinimalSet
<1>3. s # {}
  BY PartialAt
<1> DEFINE r == s \ {Pick(s)}
<1>4. a[s] = f[Pick(s)] + a[r] /\ b[s] = f[Pick(s)] + b[r] /\ Pick(s) \in s
  BY <1>3, PartialAt
<1>5. r \notin T
  BY <1>2, <1>4
<1>6. a[r] = b[r]
  BY <1>5
<1> QED BY <1>4, <1>6

LEMMA PartialExists ==
    ASSUME NEW f, NEW S, IsFiniteSet(S)
    PROVE  Partial(PartialSums(f, S), f, S)
<1> DEFINE Sums(A) == PartialSums(f, A)
           T == {A \in SUBSET S : ~Partial(Sums(A), f, A)}
<1> SUFFICES ASSUME T # {} PROVE FALSE
  <2>1. S \notin T
    OBVIOUS
  <2> QED BY <2>1
<1>1. PICK A \in T : \A y \in T : y \subseteq A => y = A
  <2>1. T \subseteq SUBSET S
    OBVIOUS
  <2> HIDE DEF T
  <2> QED BY <2>1, MinimalSet
<1>2. \A s \in SUBSET A : s # A => Partial(Sums(s), f, s)
  BY <1>1
<1> DEFINE it == [s \in SUBSET A |-> IF s = A /\ s # {}
                                    THEN f[Pick(s)] + Sums(s \ {Pick(s)})[s \ {Pick(s)}]
                                    ELSE IF s = {} THEN 0 ELSE Sums(s)[s]]
<1>3. \A s : s # {} => Pick(s) \in s
  BY DEF Pick
<1>4. ASSUME NEW s \in SUBSET A, s # A PROVE it[s] = Sums(s)[s]
  <2>1. Partial(Sums(s), f, s)
    BY <1>2, <1>4
  <2>2. s = {} => Sums(s)[s] = 0
    BY <2>1, PartialAt
  <2> HIDE DEF Sums
  <2> QED BY <1>4, <2>2
<1>5. ASSUME NEW s \in SUBSET A, s # {}
      PROVE  it[s] = f[Pick(s)] + it[s \ {Pick(s)}]
  <2> DEFINE r == s \ {Pick(s)}
  <2>1. Pick(s) \in s /\ r # A /\ r \subseteq A
    BY <1>3, <1>5
  <2>2. it[r] = Sums(r)[r]
    BY <1>4, <2>1
  <2>3. CASE s = A
    BY <1>5, <2>2, <2>3
  <2>4. CASE s # A
    <3>1. it[s] = Sums(s)[s]
      BY <1>4, <2>4
    <3>2. Partial(Sums(s), f, s) /\ Partial(Sums(r), f, r)
      BY <1>2, <2>1, <2>4
    <3>3. Sums(s)[s] = f[Pick(s)] + Sums(s)[r]
      BY <1>5, <3>2, PartialAt
    <3>4. \A u \in SUBSET (s \cap r) : Sums(s)[u] = Sums(r)[u]
      <4>1. s \in SUBSET S /\ r \in SUBSET S
        OBVIOUS
      <4> HIDE DEF Sums, r
      <4> QED BY <3>2, <4>1, PartialUnique
    <3>5. Sums(s)[r] = Sums(r)[r]
      <4>1. r \in SUBSET (s \cap r)
        OBVIOUS
      <4> HIDE DEF Sums, r
      <4> QED BY <3>4, <4>1
    <3> QED BY <2>2, <3>1, <3>3, <3>5
  <2> QED BY <2>3, <2>4
<1>6. it[{}] = 0
  OBVIOUS
<1>7. Partial(it, f, A)
  <2>1. \A s \in SUBSET A : it[s] = IF s = {} THEN 0 ELSE f[Pick(s)] + it[s \ {Pick(s)}]
    BY <1>5, <1>6
  <2>2. it = [s \in SUBSET A |-> it[s]]
    OBVIOUS
  <2> HIDE DEF it
  <2> QED BY <2>1, <2>2 DEF Partial
<1>8. Partial(Sums(A), f, A)
  <2> HIDE DEF it
  <2> QED BY <1>7 DEF PartialSums
<1> QED BY <1>8

\* A sum, by the element that is picked.
LEMMA SumStep ==
    ASSUME NEW f, NEW S, IsFiniteSet(S)
    PROVE  /\ S = {} => Sum(f, S) = 0
           /\ S # {} => Pick(S) \in S /\ Sum(f, S) = f[Pick(S)] + Sum(f, S \ {Pick(S)})
<1> DEFINE r == S \ {Pick(S)}
<1>1. Partial(PartialSums(f, S), f, S) /\ Partial(PartialSums(f, r), f, r)
  BY PartialExists, FS_Subset
<1>2. \A u \in SUBSET (S \cap r) : PartialSums(f, S)[u] = PartialSums(f, r)[u]
  <2>1. r \in SUBSET S
    OBVIOUS
  <2> HIDE DEF r
  <2> QED BY <1>1, <2>1, PartialUnique
<1>3. PartialSums(f, S)[r] = PartialSums(f, r)[r]
  <2>1. r \in SUBSET (S \cap r)
    OBVIOUS
  <2> HIDE DEF r
  <2> QED BY <1>2, <2>1
<1>4. Sum(f, S) = PartialSums(f, S)[S] /\ Sum(f, r) = PartialSums(f, r)[r]
  BY SumIsPartial
<1>5. CASE S = {}
  BY <1>1, <1>4, <1>5, PartialAt
<1>6. CASE S # {}
  <2>1. Pick(S) \in S /\ PartialSums(f, S)[S] = f[Pick(S)] + PartialSums(f, S)[r]
    BY <1>1, <1>6, PartialAt
  <2> QED BY <1>3, <1>4, <1>6, <2>1
<1> QED BY <1>5, <1>6

LEMMA SumIsInt ==
    ASSUME NEW f, NEW S, IsFiniteSet(S), \A x \in S : f[x] \in Int
    PROVE  Sum(f, S) \in Int
<1> DEFINE T == {s \in SUBSET S : Sum(f, s) \notin Int}
<1> SUFFICES ASSUME T # {} PROVE FALSE
  <2>1. S \notin T
    OBVIOUS
  <2> QED BY <2>1
<1>1. PICK s \in T : \A y \in T : y \subseteq s => y = s
  <2>1. T \subseteq SUBSET S
    OBVIOUS
  <2> HIDE DEF T
  <2> QED BY <2>1, MinimalSet
<1>2. IsFiniteSet(s)
  BY FS_Subset
<1>3. s # {} /\ Pick(s) \in s /\ Sum(f, s) = f[Pick(s)] + Sum(f, s \ {Pick(s)})
  BY <1>2, SumStep
<1>4. Sum(f, s \ {Pick(s)}) \in Int
  BY <1>1, <1>3
<1> QED BY <1>3, <1>4

\* A sum, by any of its elements.
LEMMA SumWithout ==
    ASSUME NEW f, NEW S, IsFiniteSet(S), \A x \in S : f[x] \in Int, NEW x \in S
    PROVE  Sum(f, S) = f[x] + Sum(f, S \ {x})
<1> DEFINE T == {s \in SUBSET S : \E y \in s : Sum(f, s) # f[y] + Sum(f, s \ {y})}
<1> SUFFICES ASSUME T # {} PROVE FALSE
  <2>1. S \notin T
    OBVIOUS
  <2> QED BY <2>1
<1>1. PICK s \in T : \A y \in T : y \subseteq s => y = s
  <2>1. T \subseteq SUBSET S
    OBVIOUS
  <2> HIDE DEF T
  <2> QED BY <2>1, MinimalSet
<1>2. PICK y \in s : Sum(f, s) # f[y] + Sum(f, s \ {y})
  OBVIOUS
<1> DEFINE p == Pick(s)
<1>3. IsFiniteSet(s) /\ IsFiniteSet(s \ {y}) /\ IsFiniteSet(s \ {p})
      /\ IsFiniteSet((s \ {y}) \ {p})
  BY FS_Subset
<1>4. p \in s /\ Sum(f, s) = f[p] + Sum(f, s \ {p})
  BY <1>3, SumStep
<1>5. y # p
  BY <1>2, <1>4
<1>6. s \ {p} \notin T /\ s \ {y} \notin T
  BY <1>1, <1>4
<1>7. Sum(f, s \ {p}) = f[y] + Sum(f, (s \ {p}) \ {y})
  BY <1>5, <1>6
<1>8. Sum(f, s \ {y}) = f[p] + Sum(f, (s \ {y}) \ {p})
  BY <1>4, <1>5, <1>6
<1>9. (s \ {y}) \ {p} = (s \ {p}) \ {y}
  OBVIOUS
<1>10. f[y] \in Int /\ f[p] \in Int /\ Sum(f, (s \ {y}) \ {p}) \in Int
  <2>1. \A z \in (s \ {y}) \ {p} : f[z] \in Int
    OBVIOUS
  <2> HIDE DEF p
  <2> QED BY <1>3, <1>4, <2>1, SumIsInt
<1> HIDE DEF p
<1>12. Sum(f, s) = f[p] + (f[y] + Sum(f, (s \ {y}) \ {p}))
  BY <1>4, <1>7, <1>9
<1>13. f[y] + Sum(f, s \ {y}) = f[y] + (f[p] + Sum(f, (s \ {y}) \ {p}))
  BY <1>8
<1> QED BY <1>2, <1>10, <1>12, <1>13

\* Only what is added up matters.
LEMMA SumSame ==
    ASSUME NEW f, NEW g, NEW S, IsFiniteSet(S), \A x \in S : f[x] = g[x]
    PROVE  Sum(f, S) = Sum(g, S)
<1> DEFINE T == {s \in SUBSET S : Sum(f, s) # Sum(g, s)}
<1> SUFFICES ASSUME T # {} PROVE FALSE
  <2>1. S \notin T
    OBVIOUS
  <2> QED BY <2>1
<1>1. PICK s \in T : \A y \in T : y \subseteq s => y = s
  <2>1. T \subseteq SUBSET S
    OBVIOUS
  <2> HIDE DEF T
  <2> QED BY <2>1, MinimalSet
<1>2. IsFiniteSet(s)
  BY FS_Subset
<1>3. s # {}
  BY <1>2, SumStep
<1>4. /\ Pick(s) \in s
      /\ Sum(f, s) = f[Pick(s)] + Sum(f, s \ {Pick(s)})
      /\ Sum(g, s) = g[Pick(s)] + Sum(g, s \ {Pick(s)})
  BY <1>2, <1>3, SumStep
<1>5. Sum(f, s \ {Pick(s)}) = Sum(g, s \ {Pick(s)})
  BY <1>1, <1>4
<1> QED BY <1>4, <1>5

-----------------------------------------------------------------------------
\* Arithmetic modulo k.
LEMMA DivMod ==
    ASSUME NEW k \in Nat \ {0}, NEW a \in Int
    PROVE  \E q \in Int : a = k * q + (a % k) /\ a % k \in 0 .. k - 1
<1>1. a % k \in 0 .. k - 1 /\ a \div k \in Int /\ a = k * (a \div k) + (a % k)
  OBVIOUS
<1> QED BY <1>1

LEMMA ModOf ==
    ASSUME NEW k \in Nat \ {0}, NEW q \in Int, NEW r \in 0 .. k - 1
    PROVE  (k * q + r) % k = r
OBVIOUS

LEMMA ModPlus ==
    ASSUME NEW k \in Nat \ {0}, NEW q \in Int, NEW a \in Int
    PROVE  (a + k * q) % k = a % k
<1>1. PICK p \in Int : a = k * p + (a % k) /\ a % k \in 0 .. k - 1
  BY DivMod
<1>2. p + q \in Int /\ a + k * q = k * (p + q) + (a % k)
  BY <1>1
<1> QED BY <1>1, <1>2, ModOf

LEMMA ModShift ==
    ASSUME NEW k \in Nat \ {0}, NEW a \in Int, NEW d \in Int
    PROVE  ((a % k) + d) % k = (a + d) % k
<1>1. PICK p \in Int : a = k * p + (a % k) /\ a % k \in 0 .. k - 1
  BY DivMod
<1>2. (a % k) + d \in Int /\ a + d = ((a % k) + d) + k * p
  BY <1>1
<1> QED BY <1>1, <1>2, ModPlus

-----------------------------------------------------------------------------
(***************************************************************************)
(* What holds of MemoryStat.  The map and the sum agree but for what is     *)
(* due because a late write-back writes what is there already: an id is     *)
(* given once, so the block it was read from has not been replaced.  While  *)
(* a report is quiet nothing is due, and what its walk has added up is the  *)
(* sum over the keys it has seen.                                           *)
(***************************************************************************)
Report == [pc : {"idle", "size", "keys", "walk"}, alloc_size : 0 .. kWrap - 1,
           total_count : Nat, total_memory_size : Int, quiet : BOOLEAN]

StatTypeOK ==
    /\ alloc_size \in 0 .. kWrap - 1
    /\ used \subseteq Key
    /\ due \in [Client -> Int]
    /\ report \in [Walker -> Report]

WritesBackTheSame ==
    /\ Keys(inner) \subseteq used
    /\ \A t \in Walker : walk[t].at # None =>
          /\ walk[t].at \in used
          /\ walk[t].at \in Keys(inner) => walk[t].held = inner[walk[t].at]

QuietSoFar(t) ==
    /\ ~walk[t].last
    /\ report[t].pc = "walk" <=> walk[t].on
    /\ walk[t].at # None => walk[t].on
    /\ report[t].pc = "idle" => ~report[t].quiet
    /\ report[t].quiet =>
        /\ \A c \in Client : due[c] = 0
        /\ report[t].alloc_size = alloc_size
        /\ report[t].pc # "size" => report[t].total_count = Cardinality(Keys(inner))
        /\ report[t].pc # "walk" => report[t].total_memory_size = 0
        /\ report[t].pc = "walk" =>
            /\ walk[t].seen \cup walk[t].left = Keys(inner)
            /\ walk[t].seen \cap walk[t].left = {}
            /\ report[t].total_memory_size = Sum(inner, walk[t].seen)

StatInv ==
    /\ MapInv
    /\ StatTypeOK
    /\ WritesBackTheSame
    /\ AllocMatches
    /\ \A t \in Walker : QuietSoFar(t)

-----------------------------------------------------------------------------
LEMMA SumZero ==
    ASSUME NEW f, NEW S, IsFiniteSet(S), \A x \in S : f[x] = 0
    PROVE  Sum(f, S) = 0
<1> DEFINE T == {s \in SUBSET S : Sum(f, s) # 0}
<1> SUFFICES ASSUME T # {} PROVE FALSE
  <2>1. S \notin T
    OBVIOUS
  <2> QED BY <2>1
<1>1. PICK s \in T : \A y \in T : y \subseteq s => y = s
  <2>1. T \subseteq SUBSET S
    OBVIOUS
  <2> HIDE DEF T
  <2> QED BY <2>1, MinimalSet
<1>2. IsFiniteSet(s)
  BY FS_Subset
<1>3. s # {} /\ Pick(s) \in s /\ Sum(f, s) = f[Pick(s)] + Sum(f, s \ {Pick(s)})
  BY <1>2, SumStep
<1>4. f[Pick(s)] = 0 /\ Sum(f, s \ {Pick(s)}) = 0
  BY <1>1, <1>3
<1> QED BY <1>3, <1>4

LEMMA SumExcept ==
    ASSUME NEW S, IsFiniteSet(S), NEW f, \A x \in S : f[x] \in Int,
           NEW g, \A x \in S : g[x] \in Int, NEW a \in S, \A x \in S \ {a} : g[x] = f[x]
    PROVE  /\ Sum(g, S) = Sum(f, S) + (g[a] - f[a])
           /\ Sum(f, S) \in Int /\ Sum(g, S) \in Int
<1> DEFINE R == S \ {a}
<1>1. IsFiniteSet(R) /\ \A x \in R : f[x] \in Int /\ g[x] = f[x]
  BY FS_Subset
<1>2. Sum(f, R) = Sum(g, R) /\ Sum(f, R) \in Int
  <2> HIDE DEF R
  <2>1. Sum(f, R) = Sum(g, R)
    BY <1>1, SumSame
  <2> QED BY <1>1, <2>1, SumIsInt
<1>3. Sum(f, S) = f[a] + Sum(f, R) /\ Sum(g, S) = g[a] + Sum(g, R)
  BY SumWithout
<1> HIDE DEF R
<1> QED BY <1>2, <1>3

LEMMA AddedModulo ==
    ASSUME NEW x \in Int, NEW y \in Int, NEW d \in Int, x % kWrap = y % kWrap
    PROVE  (x + d) % kWrap = (y + d) % kWrap
<1>1. kWrap \in Nat \ {0}
  BY StatAssumption
<1>2. ((x % kWrap) + d) % kWrap = (x + d) % kWrap
  BY <1>1, ModShift
<1>3. ((y % kWrap) + d) % kWrap = (y + d) % kWrap
  BY <1>1, ModShift
<1> QED BY <1>2, <1>3

SumsMatch ==
    (alloc_size + Sum(due, Client)) % kWrap = Sum(inner, used \cap Keys(inner)) % kWrap

LEMMA AllocIsSum == AllocMatches <=> SumsMatch
BY DEF AllocMatches, SizeOf, Sum, SumsMatch

LEMMA AllocIsSumNext == AllocMatches' <=> SumsMatch'
BY AllocIsSum, PTL

\* What the sums of a state are made of.
LEMMA SumTypes ==
    ASSUME MapInv, StatTypeOK
    PROVE  /\ \A c \in Client : due[c] \in Int
           /\ \A k \in Keys(inner) : inner[k] \in Value /\ inner[k] \in Int
           /\ \A S \in SUBSET Keys(inner) : IsFiniteSet(S) /\ Sum(inner, S) \in Int
           /\ IsFiniteSet(Client) /\ Sum(due, Client) \in Int
           /\ kWrap \in Nat \ {0} /\ alloc_size \in Int
<1>1. /\ \A c \in Client : due[c] \in Int
      /\ \A k \in Keys(inner) : inner[k] \in Value /\ inner[k] \in Int
      /\ kWrap \in Nat \ {0} /\ IsFiniteSet(Client) /\ alloc_size \in Int
  <2>1. \A k \in Keys(inner) : inner[k] \in Value
    BY DEF MapInv, MapTypeOK, Map, Keys
  <2>2. Value \subseteq Int /\ kWrap \in Nat \ {0} /\ IsFiniteSet(Client)
    BY StatAssumption
  <2>3. alloc_size \in Int /\ \A c \in Client : due[c] \in Int
    BY <2>2 DEF StatTypeOK
  <2> QED BY <2>1, <2>2, <2>3
<1>2. \A S \in SUBSET Keys(inner) : IsFiniteSet(S)
  BY StatAssumption, FS_Subset DEF Keys
<1>3. \A S \in SUBSET Keys(inner) : Sum(inner, S) \in Int
  BY <1>1, <1>2, SumIsInt
<1>4. Sum(due, Client) \in Int
  BY <1>1, SumIsInt
<1> QED BY <1>1, <1>2, <1>3, <1>4

LEMMA StatInitHolds == StatInit => StatInv
<1> SUFFICES ASSUME StatInit PROVE StatInv
  OBVIOUS
<1>1. MapInv
  BY InitEstablishes DEF StatInit
<1>2. StatTypeOK
  BY StatAssumption DEF StatInit, StatTypeOK, Report, NoReport
<1>3. Keys(inner) = {}
  BY DEF StatInit, MapInit, Keys, EmptyMap
<1>4. WritesBackTheSame /\ \A t \in Walker : QuietSoFar(t)
  BY <1>3 DEF StatInit, MapInit, WritesBackTheSame, QuietSoFar, AtRest, NoReport
<1>5. AllocMatches
  <2>1. Sum(due, Client) = 0
    BY SumZero, StatAssumption DEF StatInit
  <2>2. Sum(inner, used \cap Keys(inner)) = 0
    BY <1>3, SumStep, FS_EmptySet
  <2>3. alloc_size = 0
    BY DEF StatInit
  <2> QED BY <2>1, <2>2, <2>3, AllocIsSum DEF SumsMatch
<1> QED BY <1>1, <1>2, <1>4, <1>5 DEF StatInv

-----------------------------------------------------------------------------
(***************************************************************************)
(* Each step.  A change of the map, its sum or the debts disturbs every     *)
(* report; the steps of a report change none of them.                       *)
(***************************************************************************)
\* What is left of the reports after a disturbance.
LEMMA DisturbHolds ==
    ASSUME StatInv, Disturb,
           \A t \in Walker : /\ walk'[t].last = walk[t].last /\ walk'[t].on = walk[t].on
                             /\ walk'[t].at = walk[t].at
    PROVE  report' \in [Walker -> Report] /\ \A t \in Walker : QuietSoFar(t)'
<1>1. \A t \in Walker : report[t] \in Report
  BY DEF StatInv, StatTypeOK
<1>2. \A t \in Walker : report'[t] = [report[t] EXCEPT !.quiet = FALSE]
  BY DEF Disturb
<1>3. \A t \in Walker : /\ report'[t] \in Report /\ ~report'[t].quiet
                         /\ report'[t].pc = report[t].pc
  BY <1>1, <1>2 DEF Report
<1>4. \A t \in Walker : QuietSoFar(t)'
  BY <1>3 DEF StatInv, QuietSoFar
<1> QED BY <1>3, <1>4 DEF Disturb

\* What an insertion or removal leaves of the walks.
LEMMA BecomesKeeps ==
    ASSUME MapInv, NEW m, NEW gone, Becomes(m, gone)
    PROVE  \A t \in Walker : /\ walk'[t].last = walk[t].last /\ walk'[t].on = walk[t].on
                             /\ walk'[t].at = walk[t].at /\ walk'[t].held = walk[t].held
BY DEF MapInv, MapTypeOK, Becomes, Walk

LEMMA AddMemInfoHolds ==
    ASSUME StatInv, NEW c \in Client, NEW id \in Key, NEW size \in Value,
           AddMemInfo(c, id, size)
    PROVE  StatInv'
<1>0. MapInv /\ StatTypeOK
  BY DEF StatInv
<1>1. MapInv'
  BY InsertPreserves DEF AddMemInfo, StatInv
<1>2. /\ Becomes([inner EXCEPT ![id] = size], {}) /\ due' = [due EXCEPT ![c] = size]
      /\ due[c] = 0 /\ id \notin used /\ used' = used \cup {id} /\ alloc_size' = alloc_size
      /\ Disturb
  BY DEF AddMemInfo, Insert
<1>3. /\ inner' = [inner EXCEPT ![id] = size] /\ inner \in [Key -> Value \cup {None}]
      /\ size \in Int /\ size # None /\ id \notin Keys(inner)
  BY <1>2, MapAssumption, StatAssumption
     DEF Becomes, StatInv, MapInv, MapTypeOK, Map, WritesBackTheSame
<1>4. \A t \in Walker : /\ walk'[t].last = walk[t].last /\ walk'[t].on = walk[t].on
                         /\ walk'[t].at = walk[t].at /\ walk'[t].held = walk[t].held
  BY <1>0, <1>2, BecomesKeeps
<1>5. report' \in [Walker -> Report] /\ \A t \in Walker : QuietSoFar(t)'
  BY <1>2, <1>4, DisturbHolds
<1>6. StatTypeOK'
  BY <1>2, <1>3, <1>5 DEF StatInv, StatTypeOK
<1>7. Keys(inner') = Keys(inner) \cup {id} /\ \A k \in Keys(inner) : inner'[k] = inner[k]
  BY <1>3 DEF Keys
<1>8. WritesBackTheSame'
  BY <1>2, <1>4, <1>7 DEF StatInv, WritesBackTheSame
<1>9. AllocMatches'
  <2> DEFINE A == used \cap Keys(inner)
  <2>1. used' \cap Keys(inner') = A \cup {id} /\ id \notin A /\ A \in SUBSET Keys(inner)
    BY <1>2, <1>3, <1>7
  <2>2. /\ Sum(due', Client) = Sum(due, Client) + size
        /\ Sum(due, Client) \in Int /\ alloc_size \in Int
    <3>1. /\ \A d \in Client : due[d] \in Int /\ due'[d] \in Int
          /\ \A d \in Client \ {c} : due'[d] = due[d]
          /\ due'[c] - due[c] = size
      BY <1>0, <1>2, <1>3 DEF StatTypeOK
    <3> QED BY <1>0, <1>3, <3>1, SumTypes, SumExcept
  <2>3. Sum(inner', A \cup {id}) = Sum(inner, A) + size /\ Sum(inner, A) \in Int
    <3>1. IsFiniteSet(A) /\ Sum(inner, A) \in Int
      BY <1>0, <2>1, SumTypes
    <3>2. Sum(inner', A) = Sum(inner, A)
      BY <1>7, <2>1, <3>1, SumSame
    <3>3. /\ \A k \in A \cup {id} : inner'[k] \in Int
          /\ inner'[id] = size /\ (A \cup {id}) \ {id} = A
      BY <1>0, <1>3, <1>7, <2>1, SumTypes
    <3>4. Sum(inner', A \cup {id}) = inner'[id] + Sum(inner', (A \cup {id}) \ {id})
      <4> HIDE DEF A
      <4>1. IsFiniteSet(A \cup {id})
        BY <3>1, FS_AddElement
      <4> QED BY <3>3, <4>1, SumWithout
    <3> HIDE DEF A
    <3>5. Sum(inner', A \cup {id}) = size + Sum(inner, A)
      BY <3>2, <3>3, <3>4
    <3> QED BY <1>3, <3>1, <3>5
  <2>4. (alloc_size + Sum(due, Client)) % kWrap = Sum(inner, A) % kWrap
    BY AllocIsSum DEF StatInv, SumsMatch
  <2> HIDE DEF A
  <2>5. ((alloc_size + Sum(due, Client)) + size) % kWrap = (Sum(inner, A) + size) % kWrap
    <3>1. alloc_size + Sum(due, Client) \in Int
      BY <2>2
    <3> QED BY <1>3, <2>3, <2>4, <3>1, AddedModulo
  <2>6. alloc_size' + Sum(due', Client) = (alloc_size + Sum(due, Client)) + size
    BY <1>2, <1>3, <2>2
  <2> QED BY <2>1, <2>3, <2>5, <2>6, AllocIsSumNext DEF SumsMatch, Keys
<1> QED BY <1>1, <1>5, <1>6, <1>8, <1>9 DEF StatInv

LEMMA RemoveMemInfoHolds ==
    ASSUME StatInv, NEW c \in Client, NEW id \in Key, RemoveMemInfo(c, id)
    PROVE  StatInv'
<1>0. MapInv /\ StatTypeOK
  BY DEF StatInv
<1>1. MapInv'
  <2>1. Value \in SUBSET Value
    OBVIOUS
  <2> QED BY <2>1, RemoveIfPreserves DEF RemoveMemInfo, Remove, StatInv
<1>2. /\ Becomes([inner EXCEPT ![id] = None], {id}) /\ due' = [due EXCEPT ![c] = -inner[id]]
      /\ due[c] = 0 /\ used' = used /\ alloc_size' = alloc_size /\ inner[id] \in Value
      /\ Disturb
  BY DEF RemoveMemInfo, Remove, RemoveIf
<1>3. /\ inner' = [inner EXCEPT ![id] = None] /\ inner \in [Key -> Value \cup {None}]
      /\ inner[id] \in Int /\ id \in Keys(inner)
  BY <1>2, MapAssumption, StatAssumption DEF Becomes, StatInv, MapInv, MapTypeOK, Map, Keys
<1>4. \A t \in Walker : /\ walk'[t].last = walk[t].last /\ walk'[t].on = walk[t].on
                         /\ walk'[t].at = walk[t].at /\ walk'[t].held = walk[t].held
  BY <1>0, <1>2, BecomesKeeps
<1>5. report' \in [Walker -> Report] /\ \A t \in Walker : QuietSoFar(t)'
  BY <1>2, <1>4, DisturbHolds
<1>6. StatTypeOK'
  <2>1. -inner[id] \in Int
    BY <1>3
  <2> QED BY <1>2, <1>5, <2>1 DEF StatInv, StatTypeOK
<1>7. Keys(inner') = Keys(inner) \ {id} /\ \A k \in Keys(inner) \ {id} : inner'[k] = inner[k]
  BY <1>3 DEF Keys
<1>8. WritesBackTheSame'
  BY <1>2, <1>4, <1>7 DEF StatInv, WritesBackTheSame
<1>9. AllocMatches'
  <2> DEFINE A == used \cap Keys(inner)
             n == -inner[id]
  <2>1. used' \cap Keys(inner') = A \ {id} /\ id \in A /\ A \in SUBSET Keys(inner)
    BY <1>2, <1>3, <1>7 DEF StatInv, WritesBackTheSame
  <2>2. /\ Sum(due', Client) = Sum(due, Client) + n
        /\ Sum(due, Client) \in Int /\ alloc_size \in Int /\ n \in Int
    <3>1. /\ \A d \in Client : due[d] \in Int /\ due'[d] \in Int
          /\ \A d \in Client \ {c} : due'[d] = due[d]
          /\ due'[c] - due[c] = n /\ n \in Int
      BY <1>0, <1>2, <1>3 DEF StatTypeOK
    <3> HIDE DEF n
    <3> QED BY <1>0, <3>1, SumTypes, SumExcept
  <2>3. Sum(inner', A \ {id}) = Sum(inner, A) + n /\ Sum(inner, A) \in Int
    <3>1. IsFiniteSet(A) /\ Sum(inner, A) \in Int /\ \A k \in A : inner[k] \in Int
      BY <1>0, <2>1, SumTypes
    <3>2. Sum(inner', A \ {id}) = Sum(inner, A \ {id})
      <4>1. IsFiniteSet(A \ {id}) /\ \A k \in A \ {id} : inner'[k] = inner[k]
        BY <1>7, <2>1, <3>1, FS_Subset
      <4> HIDE DEF A
      <4> QED BY <4>1, SumSame
    <3>3. Sum(inner, A) = inner[id] + Sum(inner, A \ {id})
      <4> HIDE DEF A
      <4> QED BY <2>1, <3>1, SumWithout
    <3>4. Sum(inner, A \ {id}) \in Int
      BY <1>0, <2>1, SumTypes
    <3> HIDE DEF A
    <3> QED BY <1>3, <3>1, <3>2, <3>3, <3>4
  <2>4. (alloc_size + Sum(due, Client)) % kWrap = Sum(inner, A) % kWrap
    BY AllocIsSum DEF StatInv, SumsMatch
  <2> HIDE DEF A, n
  <2>5. ((alloc_size + Sum(due, Client)) + n) % kWrap = (Sum(inner, A) + n) % kWrap
    <3>1. alloc_size + Sum(due, Client) \in Int
      BY <2>2
    <3> QED BY <2>2, <2>3, <2>4, <3>1, AddedModulo
  <2>6. alloc_size' + Sum(due', Client) = (alloc_size + Sum(due, Client)) + n
    BY <1>2, <2>2
  <2> QED BY <2>1, <2>3, <2>5, <2>6, AllocIsSumNext DEF SumsMatch, Keys
<1> QED BY <1>1, <1>5, <1>6, <1>8, <1>9 DEF StatInv

LEMMA AccountHolds ==
    ASSUME StatInv, NEW c \in Client, Account(c)
    PROVE  StatInv'
<1>0. MapInv /\ StatTypeOK
  BY DEF StatInv
<1>1. /\ alloc_size' = (alloc_size + due[c]) % kWrap /\ due' = [due EXCEPT ![c] = 0]
      /\ inner' = inner /\ walk' = walk /\ inserted' = inserted /\ used' = used /\ Disturb
  BY DEF Account, mapVars
<1>2. MapInv'
  BY <1>1, StepPreserves DEF StatInv, mapVars
<1>3. /\ kWrap \in Nat \ {0} /\ alloc_size \in Int /\ due[c] \in Int
      /\ Sum(due, Client) \in Int
  BY <1>0, SumTypes
<1>4. alloc_size' \in 0 .. kWrap - 1
  BY <1>1, <1>3
<1>5. report' \in [Walker -> Report] /\ \A t \in Walker : QuietSoFar(t)'
  BY <1>1, DisturbHolds
<1>6. StatTypeOK'
  BY <1>1, <1>4, <1>5 DEF StatInv, StatTypeOK
<1>7. WritesBackTheSame'
  BY <1>1 DEF StatInv, WritesBackTheSame, Keys
<1>8. AllocMatches'
  <2>1. Sum(due', Client) = Sum(due, Client) - due[c]
    <3>1. /\ \A d \in Client : due[d] \in Int /\ due'[d] \in Int
          /\ \A d \in Client \ {c} : due'[d] = due[d]
          /\ due'[c] = 0
      BY <1>0, <1>1 DEF StatTypeOK
    <3> QED BY <1>0, <1>3, <3>1, SumTypes, SumExcept
  <2>2. alloc_size' + Sum(due', Client)
            = ((alloc_size + due[c]) % kWrap) + (Sum(due, Client) - due[c])
    BY <1>1, <2>1
  <2>3. (((alloc_size + due[c]) % kWrap) + (Sum(due, Client) - due[c])) % kWrap
            = ((alloc_size + due[c]) + (Sum(due, Client) - due[c])) % kWrap
    <3>1. alloc_size + due[c] \in Int /\ Sum(due, Client) - due[c] \in Int
      BY <1>3
    <3> QED BY <1>3, <3>1, ModShift
  <2>4. (alloc_size + due[c]) + (Sum(due, Client) - due[c]) = alloc_size + Sum(due, Client)
    BY <1>3
  <2>5. (alloc_size + Sum(due, Client)) % kWrap = Sum(inner, used \cap Keys(inner)) % kWrap
    BY AllocIsSum DEF StatInv, SumsMatch
  <2> QED BY <1>1, <2>2, <2>3, <2>4, <2>5, AllocIsSumNext DEF SumsMatch, Keys
<1> QED BY <1>2, <1>5, <1>6, <1>7, <1>8 DEF StatInv

\* A step of a report that leaves the map, the sum and the debts as they are
\* has only its own report and walk to answer for.
LEMMA ReportStepHolds ==
    ASSUME StatInv, MapInv', NEW t \in Walker, report'[t] \in Report,
           report' = [report EXCEPT ![t] = report'[t]],
           \A u \in Walker \ {t} : walk'[u] = walk[u],
           UNCHANGED <<inner, alloc_size, used, due>>,
           walk'[t].at # None => walk'[t].at \in used /\ walk'[t].held = inner[walk'[t].at],
           QuietSoFar(t)'
    PROVE  StatInv'
<1>1. StatTypeOK'
  BY DEF StatInv, StatTypeOK
<1>2. WritesBackTheSame'
  BY DEF StatInv, WritesBackTheSame, Keys
<1>3. AllocMatches'
  BY AllocIsSum, AllocIsSumNext DEF StatInv, SumsMatch, Keys
<1>4. ASSUME NEW u \in Walker, u # t PROVE QuietSoFar(u)'
  <2>1. QuietSoFar(u) /\ report'[u] = report[u] /\ walk'[u] = walk[u]
    BY <1>4 DEF StatInv, StatTypeOK
  <2> QED BY <2>1 DEF QuietSoFar, Keys
<1> QED BY <1>1, <1>2, <1>3, <1>4 DEF StatInv

LEMMA ReadAllocHolds ==
    ASSUME StatInv, NEW t \in Walker, ReadAlloc(t)
    PROVE  StatInv'
<1>0. report[t] \in Report /\ QuietSoFar(t) /\ walk[t] \in Walk /\ alloc_size \in 0 .. kWrap - 1
  BY DEF StatInv, StatTypeOK, MapInv, MapTypeOK
<1>1. /\ report'[t] = [NoReport EXCEPT !.pc = "size", !.alloc_size = alloc_size,
                                      !.quiet = \A c \in Client : due[c] = 0]
      /\ report' = [report EXCEPT ![t] = report'[t]]
      /\ UNCHANGED <<inner, walk, inserted, alloc_size, used, due>>
      /\ report[t].pc = "idle"
  BY DEF ReadAlloc, StatInv, StatTypeOK, mapVars
<1>2. /\ report'[t].pc = "size" /\ report'[t].alloc_size = alloc_size
      /\ report'[t].quiet <=> \A c \in Client : due[c] = 0
      /\ report'[t].total_memory_size = 0 /\ report'[t].total_count = 0
      /\ report'[t] \in Report
  <2> DEFINE quiet == \A c \in Client : due[c] = 0
  <2>1. quiet \in BOOLEAN
    OBVIOUS
  <2> HIDE DEF quiet
  <2>2. report'[t] = [NoReport EXCEPT !.pc = "size", !.alloc_size = alloc_size, !.quiet = quiet]
    BY <1>1 DEF quiet
  <2>3. report'[t] = [pc |-> "size", alloc_size |-> alloc_size, total_count |-> 0,
                      total_memory_size |-> 0, quiet |-> quiet]
    BY <2>2 DEF NoReport
  <2>4. 0 \in Nat /\ 0 \in Int /\ "size" \in {"idle", "size", "keys", "walk"}
    OBVIOUS
  <2>5. report'[t] \in Report
    <3>1. CASE quiet = TRUE
      BY <1>0, <2>3, <2>4, <3>1 DEF Report
    <3>2. CASE quiet = FALSE
      <4>1. report'[t] = [pc |-> "size", alloc_size |-> alloc_size, total_count |-> 0,
                          total_memory_size |-> 0, quiet |-> FALSE]
        BY <2>3, <3>2, Zenon
      <4> QED BY <1>0, <2>4, <4>1 DEF Report
    <3> QED BY <2>1, <3>1, <3>2
  <2>6. /\ report'[t].pc = "size" /\ report'[t].alloc_size = alloc_size
        /\ report'[t].quiet = quiet
        /\ report'[t].total_memory_size = 0 /\ report'[t].total_count = 0
    BY <2>3
  <2> QED BY <2>5, <2>6 DEF quiet
<1>3. QuietSoFar(t)'
  BY <1>0, <1>1, <1>2 DEF QuietSoFar
<1>4. MapInv'
  BY <1>1, StepPreserves DEF StatInv, mapVars
<1>5. walk'[t].at # None => walk'[t].at \in used /\ walk'[t].held = inner[walk'[t].at]
  BY <1>0, <1>1 DEF QuietSoFar
<1> QED BY <1>1, <1>2, <1>3, <1>4, <1>5, ReportStepHolds

LEMMA ReadSizeHolds ==
    ASSUME StatInv, NEW t \in Walker, ReadSize(t)
    PROVE  StatInv'
<1>0. report[t] \in Report /\ QuietSoFar(t)
  BY DEF StatInv, StatTypeOK
<1>1. /\ report' = [report EXCEPT ![t].pc = "keys", ![t].total_count = Cardinality(Keys(inner))]
      /\ UNCHANGED <<inner, walk, inserted, alloc_size, used, due>>
      /\ report[t].pc = "size"
  BY DEF ReadSize, mapVars
<1>2. Cardinality(Keys(inner)) \in Nat
  BY SumTypes, FS_CardinalityType DEF StatInv
<1>3. /\ report' = [report EXCEPT ![t] = report'[t]]
      /\ report'[t].pc = "keys" /\ report'[t].alloc_size = report[t].alloc_size
      /\ report'[t].quiet = report[t].quiet
      /\ report'[t].total_memory_size = report[t].total_memory_size
      /\ report'[t].total_count = Cardinality(Keys(inner))
      /\ report'[t] \in Report
  BY <1>0, <1>1, <1>2 DEF Report, StatInv, StatTypeOK
<1>4. QuietSoFar(t)'
  BY <1>0, <1>1, <1>3 DEF QuietSoFar, Keys
<1>5. MapInv'
  BY <1>1, StepPreserves DEF StatInv, mapVars
<1>6. walk'[t].at # None => walk'[t].at \in used /\ walk'[t].held = inner[walk'[t].at]
  BY <1>0, <1>1 DEF QuietSoFar
<1> QED BY <1>1, <1>3, <1>4, <1>5, <1>6, ReportStepHolds

LEMMA ReadKeysHolds ==
    ASSUME StatInv, NEW t \in Walker, ReadKeys(t)
    PROVE  StatInv'
<1>0. report[t] \in Report /\ QuietSoFar(t)
  BY DEF StatInv, StatTypeOK
<1>1. /\ report' = [report EXCEPT ![t].pc = "walk"]
      /\ walk' = [walk EXCEPT ![t] = [AtRest EXCEPT !.on = TRUE, !.left = Keys(inner),
                                                    !.stayed = Keys(inner)]]
      /\ UNCHANGED <<inner, inserted, alloc_size, used, due>>
      /\ report[t].pc = "keys"
  BY DEF ReadKeys, BeginWalk
<1>2. /\ walk'[t].on /\ walk'[t].left = Keys(inner) /\ walk'[t].at = None
      /\ ~walk'[t].last /\ walk'[t].seen = {}
      /\ \A u \in Walker \ {t} : walk'[u] = walk[u]
  BY <1>1 DEF AtRest, StatInv, MapInv, MapTypeOK
<1>3. /\ report' = [report EXCEPT ![t] = report'[t]]
      /\ report'[t].pc = "walk" /\ report'[t].alloc_size = report[t].alloc_size
      /\ report'[t].quiet = report[t].quiet
      /\ report'[t].total_memory_size = report[t].total_memory_size
      /\ report'[t].total_count = report[t].total_count
      /\ report'[t] \in Report
  BY <1>0, <1>1 DEF Report, StatInv, StatTypeOK
<1>4. Sum(inner, {}) = 0
  BY SumStep, FS_EmptySet
<1>5. QuietSoFar(t)'
  BY <1>0, <1>1, <1>2, <1>3, <1>4 DEF QuietSoFar, Keys
<1>6. MapInv'
  BY BeginWalkPreserves DEF ReadKeys, StatInv
<1> QED BY <1>1, <1>2, <1>3, <1>5, <1>6, ReportStepHolds

LEMMA ReadBlockHolds ==
    ASSUME StatInv, NEW t \in Walker, NEW id \in Key, ReadBlock(t, id)
    PROVE  StatInv'
<1>0. report[t] \in Report /\ QuietSoFar(t) /\ walk[t] \in Walk
  BY DEF StatInv, StatTypeOK, MapInv, MapTypeOK
<1>1. /\ report' = [report EXCEPT ![t].total_memory_size = @ + inner[id]]
      /\ walk' = [walk EXCEPT ![t] = [on |-> TRUE, left |-> @.left \ {id}, at |-> id,
              held |-> inner[id], last |-> FALSE, seen |-> @.seen \cup {id}, stayed |-> @.stayed]]
      /\ UNCHANGED <<inner, inserted, alloc_size, used, due>>
      /\ walk[t].on /\ id \in walk[t].left /\ inner[id] # None
  BY DEF ReadBlock, Visit
<1>2. /\ walk'[t].on /\ walk'[t].left = walk[t].left \ {id} /\ walk'[t].at = id
      /\ walk'[t].held = inner[id]
      /\ ~walk'[t].last /\ walk'[t].seen = walk[t].seen \cup {id}
      /\ \A u \in Walker \ {t} : walk'[u] = walk[u]
  BY <1>1 DEF StatInv, MapInv, MapTypeOK
<1>3. id \in Keys(inner) /\ id \in used /\ inner[id] \in Value /\ inner[id] \in Int
  BY <1>1, SumTypes DEF Keys, StatInv, WritesBackTheSame
<1>4. /\ report' = [report EXCEPT ![t] = report'[t]]
      /\ report'[t].pc = report[t].pc /\ report'[t].alloc_size = report[t].alloc_size
      /\ report'[t].quiet = report[t].quiet
      /\ report'[t].total_memory_size = report[t].total_memory_size + inner[id]
      /\ report'[t].total_count = report[t].total_count
      /\ report'[t] \in Report
  BY <1>0, <1>1, <1>3 DEF Report, StatInv, StatTypeOK
<1>5. ASSUME report[t].quiet
      PROVE  report[t].total_memory_size + inner[id] = Sum(inner, walk[t].seen \cup {id})
  <2> DEFINE B == walk[t].seen \cup {id}
  <2>1. /\ B \subseteq Keys(inner) /\ B \ {id} = walk[t].seen
        /\ report[t].total_memory_size = Sum(inner, walk[t].seen)
        /\ walk[t].seen \subseteq Keys(inner)
    BY <1>0, <1>1, <1>3, <1>5 DEF QuietSoFar
  <2>2. IsFiniteSet(B) /\ (\A k \in B : inner[k] \in Int) /\ id \in B
    BY <2>1, SumTypes DEF StatInv
  <2>3. Sum(inner, walk[t].seen) \in Int
    BY <2>1, SumTypes DEF StatInv
  <2> HIDE DEF B
  <2>4. Sum(inner, B) = inner[id] + Sum(inner, B \ {id})
    BY <2>2, SumWithout
  <2>5. Sum(inner, B \ {id}) = Sum(inner, walk[t].seen)
    BY <2>1
  <2>6. Sum(inner, B) = Sum(inner, walk[t].seen) + inner[id]
    BY <1>3, <2>3, <2>4, <2>5
  <2> QED BY <2>1, <2>6 DEF B
<1>6. QuietSoFar(t)'
  <2>1. /\ ~walk'[t].last /\ report'[t].pc = "walk" /\ report[t].pc = "walk"
        /\ report'[t].quiet = report[t].quiet
    BY <1>0, <1>1, <1>2, <1>4 DEF QuietSoFar
  <2>2. ASSUME report[t].quiet
        PROVE  /\ walk'[t].seen \cup walk'[t].left = Keys(inner)
               /\ walk'[t].seen \cap walk'[t].left = {}
               /\ report'[t].total_memory_size = Sum(inner, walk'[t].seen)
    BY <1>0, <1>1, <1>2, <1>4, <1>5, <2>1, <2>2 DEF QuietSoFar
  <2> QED BY <1>0, <1>1, <1>2, <1>4, <2>1, <2>2 DEF QuietSoFar, Keys
<1>7. MapInv'
  BY <1>3, VisitPreserves DEF ReadBlock, StatInv
<1> QED BY <1>1, <1>2, <1>3, <1>4, <1>6, <1>7, ReportStepHolds

\* The value that goes back is there already, and a quiet walk skips no key.
LEMMA WalkOnHolds ==
    ASSUME StatInv, NEW t \in Walker, WalkOn(t)
    PROVE  StatInv'
<1>0. report[t] \in Report /\ QuietSoFar(t) /\ walk[t] \in Walk
  BY DEF StatInv, StatTypeOK, MapInv, MapTypeOK
<1>1. UNCHANGED <<alloc_size, used, due, report>>
  BY DEF WalkOn
<1>2. report' = [report EXCEPT ![t] = report'[t]] /\ report'[t] \in Report
  BY <1>0, <1>1 DEF StatInv, StatTypeOK
<1>3. CASE WriteBack(t)
  <2>1. /\ walk[t].at # None /\ walk'= Returned(t)
        /\ inner' = IF inner[walk[t].at] = None THEN inner
                    ELSE [inner EXCEPT ![walk[t].at] = walk[t].held]
    BY <1>3 DEF WriteBack
  <2>2. inner' = inner
    BY <1>0, <2>1 DEF StatInv, WritesBackTheSame, MapInv, MapTypeOK, Map, Walk, Keys
  <2>3. /\ walk'[t].on /\ walk'[t].left = walk[t].left /\ walk'[t].at = None
        /\ ~walk'[t].last /\ walk'[t].seen = walk[t].seen
        /\ \A u \in Walker \ {t} : walk'[u] = walk[u]
    BY <1>0, <2>1 DEF Returned, QuietSoFar, StatInv, MapInv, MapTypeOK
  <2>4. QuietSoFar(t)'
    BY <1>0, <1>1, <2>1, <2>2, <2>3 DEF QuietSoFar, Keys
  <2>5. MapInv'
    BY <1>3, WriteBackPreserves DEF StatInv
  <2> QED BY <1>1, <1>2, <2>2, <2>3, <2>4, <2>5, ReportStepHolds
<1>4. ASSUME NEW id \in Key, SkipKey(t, id) PROVE StatInv'
  <2>1. /\ walk' = [walk EXCEPT ![t].left = @ \ {id}] /\ UNCHANGED <<inner, inserted>>
        /\ walk[t].on /\ walk[t].at = None /\ id \in walk[t].left /\ id \notin Keys(inner)
    BY <1>4 DEF SkipKey, Keys
  <2>2. /\ walk'[t].on /\ walk'[t].at = None /\ ~walk'[t].last
        /\ \A u \in Walker \ {t} : walk'[u] = walk[u]
    BY <1>0, <2>1 DEF QuietSoFar, Walk, StatInv, MapInv, MapTypeOK
  <2>3. ~report[t].quiet /\ report[t].pc = "walk"
    BY <1>0, <2>1 DEF QuietSoFar
  <2>4. QuietSoFar(t)'
    BY <1>1, <2>2, <2>3 DEF QuietSoFar
  <2>5. MapInv'
    BY <1>4, SkipKeyPreserves DEF StatInv
  <2> QED BY <1>1, <1>2, <2>1, <2>2, <2>4, <2>5, ReportStepHolds
<1> QED BY <1>3, <1>4 DEF WalkOn

LEMMA ReturnHolds ==
    ASSUME StatInv, NEW t \in Walker, Return(t)
    PROVE  StatInv'
<1>0. report[t] \in Report /\ QuietSoFar(t)
  BY DEF StatInv, StatTypeOK
<1>1. /\ report' = [report EXCEPT ![t] = NoReport] /\ walk' = [walk EXCEPT ![t] = AtRest]
      /\ UNCHANGED <<inner, inserted, alloc_size, used, due>>
  BY DEF Return, EndWalk
<1>2. /\ report'[t] = NoReport /\ walk'[t] = AtRest
      /\ report' = [report EXCEPT ![t] = report'[t]]
      /\ \A u \in Walker \ {t} : walk'[u] = walk[u]
  BY <1>1 DEF StatInv, StatTypeOK, MapInv, MapTypeOK
<1>3. NoReport \in Report /\ NoReport.pc = "idle" /\ ~NoReport.quiet
      /\ ~AtRest.on /\ AtRest.at = None /\ ~AtRest.last
  BY StatAssumption DEF NoReport, Report, AtRest
<1>4. QuietSoFar(t)'
  BY <1>2, <1>3 DEF QuietSoFar
<1>5. MapInv'
  BY EndWalkPreserves DEF Return, StatInv
<1> QED BY <1>1, <1>2, <1>3, <1>4, <1>5, ReportStepHolds

LEMMA StatInvariant == StatSpec => []StatInv
<1>1. ASSUME StatInv, [StatNext]_statVars PROVE StatInv'
  <2>1. CASE UNCHANGED statVars
    <3>1. UNCHANGED <<inner, walk, inserted, alloc_size, used, due, report>>
      BY <2>1 DEF statVars, mapVars
    <3>2. MapInv'
      BY <1>1, <3>1, StepPreserves DEF StatInv, mapVars
    <3>3. AllocMatches'
      BY <1>1, <3>1, AllocIsSum, AllocIsSumNext DEF StatInv, SumsMatch, Keys
    <3>4. StatTypeOK' /\ WritesBackTheSame'
      BY <1>1, <3>1 DEF StatInv, StatTypeOK, WritesBackTheSame, Keys
    <3>5. \A t \in Walker : QuietSoFar(t)'
      BY <1>1, <3>1 DEF StatInv, QuietSoFar, Keys
    <3> QED BY <3>2, <3>3, <3>4, <3>5 DEF StatInv
  <2>2. ASSUME NEW c \in Client, NEW id \in Key, NEW size \in Value, AddMemInfo(c, id, size)
        PROVE  StatInv'
    BY <1>1, <2>2, AddMemInfoHolds
  <2>3. ASSUME NEW c \in Client, NEW id \in Key, RemoveMemInfo(c, id) PROVE StatInv'
    BY <1>1, <2>3, RemoveMemInfoHolds
  <2>4. ASSUME NEW c \in Client, Account(c) PROVE StatInv'
    BY <1>1, <2>4, AccountHolds
  <2>5. ASSUME NEW t \in Walker, ReadAlloc(t) \/ ReadSize(t) \/ ReadKeys(t) PROVE StatInv'
    BY <1>1, <2>5, ReadAllocHolds, ReadSizeHolds, ReadKeysHolds
  <2>6. ASSUME NEW t \in Walker, NEW id \in Key, ReadBlock(t, id) PROVE StatInv'
    BY <1>1, <2>6, ReadBlockHolds
  <2>7. ASSUME NEW t \in Walker, WalkOn(t) \/ Return(t) PROVE StatInv'
    BY <1>1, <2>7, WalkOnHolds, ReturnHolds
  <2> QED BY <1>1, <2>1, <2>2, <2>3, <2>4, <2>5, <2>6, <2>7 DEF StatNext
<1> QED BY <1>1, StatInitHolds, PTL DEF StatSpec

-----------------------------------------------------------------------------
(***************************************************************************)
(* For any number of blocks, sizes and threads the sum and the registered   *)
(* blocks never drift apart (memory_stat.cpp:30-40).                        *)
(***************************************************************************)
THEOREM SumOfBlocks == StatSpec => []AllocMatches
<1>1. StatInv => AllocMatches
  BY DEF StatInv
<1> QED BY <1>1, StatInvariant, PTL

(***************************************************************************)
(* For any number of blocks, sizes and threads the three numbers of a       *)
(* report that nothing disturbs are of the same blocks                      *)
(* (memory_stat.cpp:50-64).                                                 *)
(***************************************************************************)
THEOREM ReportsAgree == StatSpec => []QuietReportAgrees
<1>1. StatInv => QuietReportAgrees
  <2> SUFFICES ASSUME StatInv, NEW t \in Walker, report[t].pc = "walk", Ended(t), report[t].quiet
               PROVE  /\ report[t].total_memory_size % kWrap = report[t].alloc_size
                      /\ report[t].total_count = Cardinality(walk[t].seen)
    BY DEF QuietReportAgrees
  <2>1. /\ \A c \in Client : due[c] = 0
        /\ report[t].alloc_size = alloc_size
        /\ report[t].total_count = Cardinality(Keys(inner))
        /\ walk[t].seen = Keys(inner)
        /\ report[t].total_memory_size = Sum(inner, walk[t].seen)
    BY DEF StatInv, QuietSoFar, Ended
  <2>2. used \cap Keys(inner) = Keys(inner)
    BY DEF StatInv, WritesBackTheSame
  <2>3. Sum(due, Client) = 0
    BY <2>1, SumZero, StatAssumption
  <2>4. (alloc_size + Sum(due, Client)) % kWrap = Sum(inner, Keys(inner)) % kWrap
    BY <2>2, AllocIsSum DEF StatInv, SumsMatch
  <2>5. alloc_size \in 0 .. kWrap - 1 /\ kWrap \in Nat \ {0}
    BY StatAssumption DEF StatInv, StatTypeOK
  <2>6. alloc_size + Sum(due, Client) = kWrap * 0 + alloc_size
    BY <2>3, <2>5
  <2>7. (alloc_size + Sum(due, Client)) % kWrap = alloc_size
    BY <2>5, <2>6, ModOf
  <2> QED BY <2>1, <2>4, <2>7
<1> QED BY <1>1, StatInvariant, PTL
=============================================================================
