----------------------------- MODULE MemoryStat -----------------------------
(***************************************************************************)
(* tc::MemoryStat (memory_stat.h, memory_stat.cpp): mem_info_, a            *)
(* ConcurrentHashMap from the id of a memory block to its description, here *)
(* its size, and alloc_size_, an atomic sum kept beside it.  The two are    *)
(* changed one after the other, with no lock over both, and GetStatInfo     *)
(* reads the sum, the number of blocks and the blocks at different moments. *)
(* An id is given to one block only: the map would write a block that was   *)
(* removed over its successor of the same id (ConcurrentMap.WriteBack).     *)
(***************************************************************************)
EXTENDS ConcurrentMap, Integers, FiniteSetsExt

CONSTANTS
    Client,     \* the threads that add and remove blocks
    kWrap       \* 2^64 of the code's alloc_size_

ASSUME StatAssumption ==
    /\ IsFiniteSet(Key) /\ IsFiniteSet(Client)
    /\ Value \subseteq Nat
    /\ kWrap \in Nat \ {0}

VARIABLES
    alloc_size, \* alloc_size_
    used,       \* the ids given so far
    due,        \* of each client: what it has yet to add to alloc_size_
    report      \* of each walker: its MemoryStatInfo

statVars == <<mapVars, alloc_size, used, due, report>>

NoReport == [pc |-> "idle", alloc_size |-> 0, total_count |-> 0, total_memory_size |-> 0,
             quiet |-> FALSE]

StatInit ==
    /\ MapInit
    /\ alloc_size = 0
    /\ used = {}
    /\ due = [c \in Client |-> 0]
    /\ report = [t \in Walker |-> NoReport]

\* No report under way was left alone.
Disturb == report' = [t \in Walker |-> [report[t] EXCEPT !.quiet = FALSE]]

AddMemInfo(c, id, size) ==
    /\ due[c] = 0
    /\ id \notin used
    /\ used' = used \cup {id}
    /\ Insert(id, size)
    /\ due' = [due EXCEPT ![c] = size]
    /\ Disturb
    /\ UNCHANGED alloc_size

RemoveMemInfo(c, id) ==
    /\ due[c] = 0
    /\ Remove(id)
    /\ due' = [due EXCEPT ![c] = -inner[id]]
    /\ Disturb
    /\ UNCHANGED <<alloc_size, used>>

\* alloc_size_ += size, or -= size, the second half of either.
Account(c) ==
    /\ due[c] # 0
    /\ alloc_size' = (alloc_size + due[c]) % kWrap
    /\ due' = [due EXCEPT ![c] = 0]
    /\ Disturb
    /\ UNCHANGED <<mapVars, used>>

\* GetStatInfo: alloc_size_ first,
ReadAlloc(t) ==
    /\ report[t].pc = "idle"
    /\ report' = [report EXCEPT ![t] = [NoReport EXCEPT
            !.pc = "size", !.alloc_size = alloc_size,
            !.quiet = \A c \in Client : due[c] = 0]]
    /\ UNCHANGED <<mapVars, alloc_size, used, due>>

\* then the number of blocks,
ReadSize(t) ==
    /\ report[t].pc = "size"
    /\ report' = [report EXCEPT ![t].pc = "keys",
                                ![t].total_count = Cardinality(Keys(inner))]
    /\ UNCHANGED <<mapVars, alloc_size, used, due>>

\* then VisitAll with a visitor that adds the sizes up and alters nothing.
ReadKeys(t) ==
    /\ report[t].pc = "keys"
    /\ BeginWalk(t)
    /\ report' = [report EXCEPT ![t].pc = "walk"]
    /\ UNCHANGED <<alloc_size, used, due>>

\* Mutant: the size of a block replaces the sum.
ReadBlockOnly(t, id) ==
    /\ Visit(t, id, inner[id], FALSE)
    /\ report' = [report EXCEPT ![t].total_memory_size = inner[id]]
    /\ UNCHANGED <<alloc_size, used, due>>

ReadBlock(t, id) ==
    /\ Visit(t, id, inner[id], FALSE)
    /\ report' = [report EXCEPT ![t].total_memory_size = @ + inner[id]]
    /\ UNCHANGED <<alloc_size, used, due>>

WalkOn(t) ==
    /\ WriteBack(t) \/ \E id \in Key : SkipKey(t, id)
    /\ UNCHANGED <<alloc_size, used, due, report>>

Return(t) ==
    /\ report[t].pc = "walk"
    /\ EndWalk(t)
    /\ report' = [report EXCEPT ![t] = NoReport]
    /\ UNCHANGED <<alloc_size, used, due>>

StatNext ==
    \/ \E c \in Client, id \in Key, size \in Value : AddMemInfo(c, id, size)
    \/ \E c \in Client, id \in Key : RemoveMemInfo(c, id)
    \/ \E c \in Client : Account(c)
    \/ \E t \in Walker : ReadAlloc(t) \/ ReadSize(t) \/ ReadKeys(t)
    \/ \E t \in Walker, id \in Key : ReadBlock(t, id)
    \/ \E t \in Walker : WalkOn(t) \/ Return(t)

StatSpec == StatInit /\ [][StatNext]_statVars

-----------------------------------------------------------------------------
SizeOf(ids) == MapThenSumSet(LAMBDA id : inner[id], ids)

(***************************************************************************)
(* alloc_size_ is the sum of the registered blocks, but for what the        *)
(* threads between their two halves have yet to add or take away: no report *)
(* that writes a block back late makes the two drift apart                  *)
(* (memory_stat.cpp:30-40).                                                 *)
(***************************************************************************)
AllocMatches ==
    (alloc_size + MapThenSumSet(LAMBDA c : due[c], Client)) % kWrap
        = SizeOf(used \cap Keys(inner)) % kWrap

(***************************************************************************)
(* A report during which nothing was added or removed agrees with itself:   *)
(* its three numbers are of the same blocks (memory_stat.cpp:50-64).        *)
(***************************************************************************)
QuietReportAgrees ==
    \A t \in Walker : report[t].pc = "walk" /\ Ended(t) /\ report[t].quiet =>
        /\ report[t].total_memory_size % kWrap = report[t].alloc_size
        /\ report[t].total_count = Cardinality(walk[t].seen)
=============================================================================
