---------------------------- MODULE ConcurrentMap ----------------------------
(***************************************************************************)
(* tc::ConcurrentHashMap (concurrent_hashmap.h): a std::map behind one      *)
(* mutex.  An operation under one lock is one action.  VisitAll and         *)
(* VisitAllCond lock once for the keys, then for each key once to read the  *)
(* value and once to write it back, and call the visitor between the two    *)
(* without the lock.  A walk goes over its keys in any order: the code's is *)
(* ascending, which no property tells apart.                                *)
(***************************************************************************)
EXTENDS Naturals, FiniteSets

CONSTANTS
    Key,
    Value,
    None,       \* no value under a key
    Walker      \* the threads that call VisitAll or VisitAllCond

ASSUME MapAssumption == None \notin Key \cup Value

VARIABLES
    inner,      \* inner_: the value under each key, or None
    walk,       \* of each walker: how far its call has got
    inserted    \* the keys inserted so far and not removed since

mapVars == <<inner, walk, inserted>>

Map == [Key -> Value \cup {None}]
Keys(m) == {k \in Key : m[k] # None}

\* left: keys still to visit; at: the key whose value the visitor holds, or
\* None; held: that value; last: the visitor asked to stop; seen: keys visited
\* and stayed: keys in the map ever since the call began.
AtRest == [on |-> FALSE, left |-> {}, at |-> None, held |-> None, last |-> FALSE,
           seen |-> {}, stayed |-> {}]

Walk == [on : BOOLEAN, left : SUBSET Key, at : Key \cup {None}, held : Value \cup {None},
         last : BOOLEAN, seen : SUBSET Key, stayed : SUBSET Key]

EmptyMap == [k \in Key |-> None]

MapInit ==
    /\ inner = EmptyMap
    /\ walk = [t \in Walker |-> AtRest]
    /\ inserted = {}

\* The map becomes m; gone are the keys it loses.
Becomes(m, gone) ==
    /\ inner' = m
    /\ walk' = [t \in Walker |-> [walk[t] EXCEPT !.stayed = @ \ gone]]

\* Insert, and Replace, which erases first under the same lock.
Insert(k, v) ==
    /\ Becomes([inner EXCEPT ![k] = v], {})
    /\ inserted' = inserted \cup {k}

BatchInsert(values) ==
    /\ Becomes([k \in Key |-> IF values[k] = None THEN inner[k] ELSE values[k]], {})
    /\ inserted' = inserted \cup Keys(values)

ClearAndBatchInsert(values) ==
    /\ Becomes(values, Key \ Keys(values))
    /\ inserted' = Keys(values)

Clear == ClearAndBatchInsert(EmptyMap)

\* RemoveIf; Remove is RemoveIf of any value.
RemoveIf(k, wanted) ==
    /\ inner[k] \in wanted
    /\ Becomes([inner EXCEPT ![k] = None], {k})
    /\ inserted' = inserted \ {k}

Remove(k) == RemoveIf(k, Value)

\* Keys(), the first thing a walk does.
BeginWalk(t) ==
    /\ ~walk[t].on
    /\ walk' = [walk EXCEPT ![t] = [AtRest EXCEPT !.on = TRUE, !.left = Keys(inner),
                                                  !.stayed = Keys(inner)]]
    /\ UNCHANGED <<inner, inserted>>

\* Mutant: the walk ends at a key that has gone.
StopAtGone(t, k) ==
    /\ walk[t].on /\ walk[t].at = None /\ k \in walk[t].left
    /\ inner[k] = None
    /\ walk' = [walk EXCEPT ![t].left = {}]
    /\ UNCHANGED <<inner, inserted>>

\* The key has gone meanwhile: the walk goes on with the next one.
SkipKey(t, k) ==
    /\ walk[t].on /\ walk[t].at = None /\ k \in walk[t].left
    /\ inner[k] = None
    /\ walk' = [walk EXCEPT ![t].left = @ \ {k}]
    /\ UNCHANGED <<inner, inserted>>

\* The visitor gets a copy of the value, makes it v, and may ask to stop.
Visit(t, k, v, last) ==
    /\ walk[t].on /\ walk[t].at = None /\ k \in walk[t].left
    /\ inner[k] # None
    /\ walk' = [walk EXCEPT ![t] = [on |-> TRUE, left |-> @.left \ {k}, at |-> k, held |-> v,
            last |-> last, seen |-> @.seen \cup {k}, stayed |-> @.stayed]]
    /\ UNCHANGED <<inner, inserted>>

Returned(t) ==
    [walk EXCEPT ![t] = [on |-> TRUE, left |-> IF @.last THEN {} ELSE @.left, at |-> None,
                         held |-> None, last |-> @.last, seen |-> @.seen, stayed |-> @.stayed]]

\* Mutant: inner_[k] = value, whether the key is there or not.
WriteAnyway(t) ==
    /\ walk[t].at # None
    /\ inner' = [inner EXCEPT ![walk[t].at] = walk[t].held]
    /\ walk' = Returned(t)
    /\ UNCHANGED inserted

\* The copy goes back if the key is still, or again, there.
WriteBack(t) ==
    /\ walk[t].at # None
    /\ inner' = IF inner[walk[t].at] = None THEN inner
                ELSE [inner EXCEPT ![walk[t].at] = walk[t].held]
    /\ walk' = Returned(t)
    /\ UNCHANGED inserted

Ended(t) == walk[t].on /\ walk[t].at = None /\ walk[t].left = {}

EndWalk(t) ==
    /\ Ended(t)
    /\ walk' = [walk EXCEPT ![t] = AtRest]
    /\ UNCHANGED <<inner, inserted>>

WalkStep(t) ==
    \/ \E k \in Key : SkipKey(t, k)
    \/ \E k \in Key, v \in Value, last \in BOOLEAN : Visit(t, k, v, last)
    \/ WriteBack(t)
    \/ EndWalk(t)

MapNext ==
    \/ \E k \in Key, v \in Value : Insert(k, v)
    \/ \E values \in Map : BatchInsert(values)
    \/ \E values \in Map : ClearAndBatchInsert(values)
    \/ \E k \in Key, wanted \in SUBSET Value : RemoveIf(k, wanted)
    \/ \E t \in Walker : BeginWalk(t) \/ WalkStep(t)

MapSpec == MapInit /\ [][MapNext]_mapVars

-----------------------------------------------------------------------------
MapTypeOK ==
    /\ inner \in Map
    /\ inserted \subseteq Key
    /\ walk \in [Walker -> Walk]

(***************************************************************************)
(* A key is in the map exactly when it was inserted and not removed since:  *)
(* a walk that writes back late brings nothing back                         *)
(* (concurrent_hashmap.h:139-146, 162-169).                                 *)
(***************************************************************************)
NothingComesBack == Keys(inner) = inserted

(***************************************************************************)
(* A walk whose visitor did not stop it has visited every key that was in   *)
(* the map all the time, whatever was inserted, replaced and removed        *)
(* meanwhile (concurrent_hashmap.h:127-148, 150-174).                       *)
(***************************************************************************)
VisitsWhatStays ==
    \A t \in Walker : Ended(t) /\ ~walk[t].last => walk[t].stayed \subseteq walk[t].seen
=============================================================================
