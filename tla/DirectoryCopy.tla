---------------------------- MODULE DirectoryCopy ----------------------------
(***************************************************************************)
(* FolderUtil::CopyDir (folder_util.cpp): the entries of the source, each  *)
(* after the folder it is in, are made in the destination one by one; what *)
(* the file system throws over one entry ends that entry only.  Of an      *)
(* entry it is known whether the destination lacks it, has what it had     *)
(* before the call, or has the copy.                                       *)
(***************************************************************************)
EXTENDS FiniteSets

CONSTANTS
    Entry, Folder,      \* what is in the source, and which of it are folders
    Above,              \* of each entry: the folders it is in, at any depth
    NoEntry

ASSUME CopyAssumption ==
    /\ IsFiniteSet(Entry) /\ NoEntry \notin Entry
    /\ Folder \subseteq Entry
    /\ Above \in [Entry -> SUBSET Folder]
    /\ \A e \in Entry : e \notin Above[e] /\ \A d \in Above[e] : Above[d] \subseteq Above[e]

VARIABLES
    target,             \* of each entry: "none", "old" or "new"
    asked,              \* overwrite, and the ignored files
    unreadable,         \* the folders the iterator skips
    todo,               \* the entries still to come
    step,               \* the entry in work and how far it is
    failed,             \* the entries over which an exception was thrown
    copied,             \* "no" until the call ends, then what it returns
    had                 \* the files the destination had before the call

copyVars == <<target, asked, unreadable, todo, step, failed, copied, had>>

Files == Entry \ Folder
Idle == [of |-> NoEntry, pc |-> "next"]
FoldersThere(t, e) == \A d \in Above[e] : t[d] # "none"
Before == [Entry -> {"none", "old"}]

CopyInit ==
    /\ target \in {t \in Before : \A e \in Entry : t[e] = "old" => FoldersThere(t, e)}
    /\ asked \in [overwrite : BOOLEAN, ignored : SUBSET Files]
    /\ unreadable \in SUBSET Folder
    /\ todo = Entry /\ step = Idle /\ failed = {} /\ copied = "no"
    /\ had = {e \in Files : target[e] = "old"}

Running == copied = "no"

\* exists, is_directory or create_directories of the two ends throws, or the
\* iterator between two entries, or what the loop does not catch: a file name
\* that string() cannot convert.  The whole call fails.
GiveUp ==
    /\ Running /\ step.pc \in {"next", "exists"}
    /\ copied' = "false"
    /\ step' = Idle
    /\ UNCHANGED <<target, asked, unreadable, todo, failed, had>>

NextEntry(e) ==
    /\ Running /\ step = Idle /\ e \in todo
    /\ Above[e] \cap (todo \cup unreadable) = {}
    /\ todo' = todo \ {e}
    /\ step' = [of |-> e, pc |-> IF e \in Folder THEN "folder"
                                 ELSE IF e \in asked.ignored THEN "done" ELSE "exists"]
    /\ UNCHANGED <<target, asked, unreadable, failed, copied, had>>

Goes(from, to) == step.pc = from /\ step' = [step EXCEPT !.pc = to]

\* create_directories also makes the folders it is in.
MakeFolder ==
    /\ Goes("folder", "done")
    /\ target' = [e \in Entry |->
            IF e \in Above[step.of] \cup {step.of} /\ target[e] = "none" THEN "new"
            ELSE target[e]]
    /\ UNCHANGED <<asked, unreadable, todo, failed, copied, had>>

\* Mutant: what is there is removed whether it may be overwritten or not.
AlwaysRemove ==
    /\ Goes("exists", IF target[step.of] = "none" THEN "copy" ELSE "remove")
    /\ UNCHANGED <<target, asked, unreadable, todo, failed, copied, had>>

AskExists ==
    /\ Goes("exists", IF target[step.of] = "none" THEN "copy"
                      ELSE IF asked.overwrite THEN "remove" ELSE "done")
    /\ UNCHANGED <<target, asked, unreadable, todo, failed, copied, had>>

RemoveOld ==
    /\ Goes("remove", "copy")
    /\ target' = [target EXCEPT ![step.of] = "none"]
    /\ UNCHANGED <<asked, unreadable, todo, failed, copied, had>>

CopyFile ==
    /\ Goes("copy", "done")
    /\ FoldersThere(target, step.of)
    /\ target' = [target EXCEPT ![step.of] = "new"]
    /\ UNCHANGED <<asked, unreadable, todo, failed, copied, had>>

\* Mutant: the first exception ends the loop, and the call returns true.
ThrowsOut ==
    /\ step.pc \in {"folder", "exists", "remove", "copy"}
    /\ failed' = failed \cup {step.of}
    /\ step' = Idle
    /\ todo' = {}
    /\ UNCHANGED <<target, asked, unreadable, copied, had>>

\* Any of these calls throws, with the destination as it was.
Throws ==
    /\ step.pc \in {"folder", "exists", "remove", "copy"}
    /\ failed' = failed \cup {step.of}
    /\ step' = Idle
    /\ UNCHANGED <<target, asked, unreadable, todo, copied, had>>

EntryDone ==
    /\ step.pc = "done"
    /\ step' = Idle
    /\ UNCHANGED <<target, asked, unreadable, todo, failed, copied, had>>

EndCopy ==
    /\ Running /\ step = Idle
    /\ \A e \in todo : Above[e] \cap (todo \cup unreadable) # {}
    /\ copied' = "true"
    /\ UNCHANGED <<target, asked, unreadable, todo, step, failed, had>>

CopyNext ==
    \/ \E e \in Entry : NextEntry(e)
    \/ MakeFolder \/ AskExists \/ RemoveOld \/ CopyFile
    \/ Throws \/ EntryDone \/ GiveUp \/ EndCopy

CopySpec == CopyInit /\ [][CopyNext]_copyVars

-----------------------------------------------------------------------------
(***************************************************************************)
(* Without overwrite the call copies only what is not there yet; with it, a *)
(* file that was there is gone only while it is in work, or if its own      *)
(* removal or copy went wrong.  An ignored file is left alone in both       *)
(* (folder_util.cpp:275-291).                                               *)
(***************************************************************************)
CopyKeepsOld ==
    \A e \in had : target[e] # "old" =>
        /\ asked.overwrite /\ e \notin asked.ignored
        /\ target[e] = "new" \/ step.of = e \/ e \in failed

(***************************************************************************)
(* "true" is said over a copy with holes, but each hole is a file over      *)
(* which an exception was thrown, or lies in a folder that could not be     *)
(* read (folder_util.cpp:261-263, 294-302).                                 *)
(***************************************************************************)
CopyComplete ==
    copied = "true" => \A e \in Files :
        \/ target[e] = "new"
        \/ target[e] = "old" /\ ~asked.overwrite
        \/ e \in asked.ignored \cup failed
        \/ Above[e] \cap unreadable # {}
=============================================================================
