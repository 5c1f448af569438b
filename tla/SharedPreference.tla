--------------------------- MODULE SharedPreference ---------------------------
(***************************************************************************)
(* tc::SharedPreference (shared_preference.h, shared_preference.cpp) in    *)
(* several processes over databases in leveldb: every operation holds mtx_ *)
(* throughout and is one action.  Of leveldb: a database is open in one    *)
(* process at most, opened once; what Put wrote is there for the next one  *)
(* who opens it, also if the process ended without Release.                *)
(***************************************************************************)
EXTENDS Naturals

CONSTANTS
    Process,
    Name,       \* the databases
    Pref,       \* the keys
    Setting,    \* the values
    NoDb        \* null, of a db_; and no value under a key

ASSUME PrefAssumption == NoDb \notin Name

VARIABLES
    db_,        \* of each process: the database it has open, or NoDb
    flags,      \* initialized_ and read_only_
    open_in,    \* of each database: the processes that have it open
    disk        \* of each database: its contents

prefVars == <<db_, flags, open_in, disk>>

Neither == [initialized |-> FALSE, read_only |-> FALSE]

PrefInit ==
    /\ db_ = [p \in Process |-> NoDb]
    /\ flags = [p \in Process |-> Neither]
    /\ open_in = [n \in Name |-> {}]
    /\ disk = [n \in Name |-> [k \in Pref |-> NoDb]]

Closed(p) == [n \in Name |-> open_in[n] \ {p}]

\* Mutant: the database that is open is not closed first.
InitOverOpen(p, n) ==
    /\ IF open_in[n] = {}
       THEN /\ open_in' = [open_in EXCEPT ![n] = {p}]
            /\ db_' = [db_ EXCEPT ![p] = n]
            /\ flags' = [flags EXCEPT ![p] = [initialized |-> TRUE, read_only |-> FALSE]]
       ELSE /\ UNCHANGED open_in
            /\ db_' = [db_ EXCEPT ![p] = NoDb]
            /\ flags' = [flags EXCEPT ![p] = [initialized |-> FALSE, read_only |-> TRUE]]
    /\ UNCHANGED disk

\* The old database is closed before the new one is known to open, which fails
\* if it is open elsewhere, and may fail in any case.
InitDb(p, n) ==
    /\ \/ /\ Closed(p)[n] = {}
          /\ open_in' = [Closed(p) EXCEPT ![n] = {p}]
          /\ db_' = [db_ EXCEPT ![p] = n]
          /\ flags' = [flags EXCEPT ![p] = [initialized |-> TRUE, read_only |-> FALSE]]
       \/ /\ open_in' = Closed(p)
          /\ db_' = [db_ EXCEPT ![p] = NoDb]
          /\ flags' = [flags EXCEPT ![p] = [initialized |-> FALSE, read_only |-> TRUE]]
    /\ UNCHANGED disk

\* Release; and the end of the process, after which a new one takes its place.
Release(p) ==
    /\ open_in' = Closed(p)
    /\ db_' = [db_ EXCEPT ![p] = NoDb]
    /\ flags' = [flags EXCEPT ![p] = Neither]
    /\ UNCHANGED disk

\* Put, PutInt, PutInt64, and Remove, which is v = NoDb; leveldb may refuse.
Put(p, k, v) ==
    /\ db_[p] # NoDb
    /\ disk' = [disk EXCEPT ![db_[p]][k] = v]
    /\ UNCHANGED <<db_, flags, open_in>>

\* Get with a default, GetInt and GetInt64 likewise.
Get(p, k, default) ==
    IF db_[p] = NoDb \/ disk[db_[p]][k] = NoDb THEN default ELSE disk[db_[p]][k]

PrefNext ==
    \/ \E p \in Process, n \in Name : InitDb(p, n)
    \/ \E p \in Process : Release(p)
    \/ \E p \in Process, k \in Pref, v \in Setting \cup {NoDb} : Put(p, k, v)

PrefSpec == PrefInit /\ [][PrefNext]_prefVars

-----------------------------------------------------------------------------
(***************************************************************************)
(* A database is held open by the process that uses it and no other: none   *)
(* stays locked by a process that has moved on to another one, whatever     *)
(* failed on the way (shared_preference.cpp:12-49, 51-60).                  *)
(***************************************************************************)
OpenWhereUsed == \A n \in Name : open_in[n] = {p \in Process : db_[p] = n}

(***************************************************************************)
(* What IsReady and IsReadOnly say fits what the process can do: it is      *)
(* ready while it has a database, and read-only only when it has none and   *)
(* every Get returns its default (shared_preference.cpp:39-48, 104-154).     *)
(***************************************************************************)
FlagsFit ==
    \A p \in Process :
        /\ flags[p].initialized <=> db_[p] # NoDb
        /\ flags[p].read_only => \A k \in Pref, v \in Setting : Get(p, k, v) = v
=============================================================================
