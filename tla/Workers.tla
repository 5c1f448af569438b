------------------------------ MODULE Workers ------------------------------
(***************************************************************************)
(* tc::Thread (thread.h, thread.cpp) and tc::MessageLooper (message_looper  *)
(* .h, message_looper.cpp): the operations around the loop of WorkerLoop.   *)
(* A Thread runs the loop on a thread of its own from Poll on, and Exit     *)
(* joins that thread.  A MessageLooper runs it on the thread that calls     *)
(* Loop, and Exit does not wait for it.                                     *)
(***************************************************************************)
EXTENDS WorkerLoop

CONSTANT Kinds      \* the classes the worker may be of

ASSUME KindsAssumption == Kinds \subseteq {"Thread", "MessageLooper"}

VARIABLES
    kind,       \* its class
    thread,     \* of a Thread: how far thread_ is from "none" to "joined"
    owner,      \* where the call of Exit is, "idle" if there is none
    over        \* history: an Exit has returned that knew of every thread

ownerVars == <<kind, thread, owner, over>>

vars == <<loopVars, ownerVars>>

Init ==
    /\ LoopInit
    /\ kind \in Kinds
    /\ thread = "none"
    /\ owner = "idle"
    /\ over = FALSE

\* Poll, before, during or after Exit: init_ lets only the first call create the
\* thread, which runs before Poll has put it into thread_.
Poll ==
    /\ kind = "Thread"
    /\ thread = "none"
    /\ thread' = "started"
    /\ BeginLoop
    /\ UNCHANGED <<kind, owner, over>>

KeepThread ==
    /\ thread = "started"
    /\ thread' = "kept"
    /\ UNCHANGED <<loopVars, kind, owner, over>>

\* Some thread calls Loop, before or after Exit.
Loop ==
    /\ kind = "MessageLooper"
    /\ BeginLoop
    /\ UNCHANGED ownerVars

\* The list without its n-th task.
Erased(seq, n) == SubSeq(seq, 1, n - 1) \o SubSeq(seq, n + 1, Len(seq))

RemoveTask(t) ==
    /\ kind = "Thread"
    /\ MutexFree
    /\ \E n \in DOMAIN tasks : tasks[n] = t /\ tasks' = Erased(tasks, n)
    /\ removed' = removed \cup {t}
    /\ UNCHANGED <<exit, loop, current, posting, posted, ran, evicted, ownerVars>>

Clear ==
    /\ kind = "Thread"
    /\ MutexFree
    /\ tasks # <<>>
    /\ tasks' = <<>>
    /\ removed' = removed \cup Elements(tasks)
    /\ UNCHANGED <<exit, loop, current, posting, posted, ran, evicted, ownerVars>>

\* Exit, which a Thread's destructor calls again: exit_, then the notification,
\* both without task_mtx_, then the join if thread_ is there.
BeginExit ==
    /\ owner = "idle"
    /\ SetExit
    /\ owner' = "notifying"
    /\ UNCHANGED <<kind, thread, over>>

Notify ==
    /\ owner = "notifying"
    /\ NotifyExit
    /\ owner' = IF kind = "Thread" THEN "joining" ELSE "idle"
    /\ UNCHANGED <<kind, thread, over>>

Join ==
    /\ owner = "joining"
    /\ thread = "kept" /\ loop = "done"
    /\ thread' = "joined"
    /\ owner' = "idle"
    /\ over' = TRUE
    /\ UNCHANGED <<loopVars, kind>>

\* Nothing to join; a thread that Poll has only just started is missed.
ReturnUnjoined ==
    /\ owner = "joining"
    /\ thread # "kept"
    /\ owner' = "idle"
    /\ over' = (over \/ thread # "started")
    /\ UNCHANGED <<loopVars, kind, thread>>

LoopTurn == LoopStep /\ UNCHANGED ownerVars

FinishPost(t) == Enqueue(t) /\ UNCHANGED ownerVars

Next ==
    \/ LoopTurn
    \/ WakeSpuriously /\ UNCHANGED ownerVars
    \/ \E t \in Tasks : BeginPost(t) /\ UNCHANGED ownerVars
    \/ \E t \in Tasks : FinishPost(t)
    \/ \E t \in Tasks : RemoveTask(t)
    \/ Clear
    \/ Poll
    \/ KeepThread
    \/ Loop
    \/ BeginExit
    \/ Notify
    \/ Join
    \/ ReturnUnjoined

\* The scheduler runs every thread that can run, and the worker is set to work;
\* nothing promises that a sleeping thread is woken without cause.
Spec ==
    /\ Init /\ [][Next]_vars
    /\ WF_vars(LoopTurn)
    /\ \A t \in Tasks : WF_vars(FinishPost(t))
    /\ WF_vars(Poll) /\ WF_vars(KeepThread) /\ WF_vars(Loop)
    /\ WF_vars(Notify) /\ WF_vars(Join) /\ WF_vars(ReturnUnjoined)

-----------------------------------------------------------------------------
(***************************************************************************)
(* To those who post, either class is a Mailbox: the mutex, the condition   *)
(* variable and the two halves of a Post cannot be told from one step each, *)
(* and a Thread's box is over when its Exit has returned, unless that met a *)
(* Poll half way (thread.cpp:51-117, 137-151, 176-184, message_looper.cpp:  *)
(* 14-60).                                                                  *)
(***************************************************************************)
Mail == INSTANCE Mailbox WITH box <- tasks, begun <- ran, dropped <- evicted,
                              withdrawn <- removed
ImplementsMailbox == Mail!Spec

(***************************************************************************)
(* Once an Exit of a Thread has returned no task is running and none is     *)
(* begun any more: not one that a late Post, past its test of exit_, still  *)
(* appends, nor by a Poll that only comes then, whose thread ends at the    *)
(* head of its loop (thread.cpp:51-102, 105-107, 176-184).  An Exit that    *)
(* comes while Poll has started its thread and not yet set thread_ returns  *)
(* without having joined it, and is not counted.                            *)
(***************************************************************************)
NothingBegunAfterExit ==
    [][over => current = NoTask /\ UNCHANGED <<current, ran>>]_vars

(***************************************************************************)
(* After Exit the loop ends, and so does the join for it (test.cpp:51,      *)
(* test_uncovered.cpp:197-198).                                             *)
(***************************************************************************)
ExitEndsLoop == exit ~> loop \in {"off", "done"}
=============================================================================
