----------------------------- MODULE WorkerLoop -----------------------------
(***************************************************************************)
(* The loop that Thread::TaskLoop (thread.cpp:71-102) and                   *)
(* MessageLooper::Loop (message_looper.cpp:14-40) share: a list of tasks    *)
(* under task_mtx_, a condition variable take_var_, and one thread that     *)
(* runs what Post appends.  Workers adds the operations of the two classes. *)
(*                                                                          *)
(* A step is a piece of code no other thread can look into: one critical    *)
(* section of task_mtx_, one access to the atomic exit_, one task.  The     *)
(* predicate wait is entered with the mutex held; it is given back and the  *)
(* thread is queued on take_var_ in one step (Sleep), and whoever notifies  *)
(* without the mutex can come in between.                                   *)
(***************************************************************************)
EXTENDS Naturals, Sequences, FiniteSets

CONSTANTS
    Tasks,      \* the tasks that callers post, each of them once
    MaxTasks    \* max_tasks_; 0 stands for every value that sets no limit

ASSUME LoopAssumption == IsFiniteSet(Tasks) /\ MaxTasks \in Nat

VARIABLES
    tasks,      \* tasks_
    exit,       \* exit_
    loop,       \* where the looping thread is
    current,    \* the task it took, NoTask if none
    posting,    \* tasks whose Post has seen ~exit_ and not yet got the mutex
    posted,     \* history: the tasks in the order they were appended
    ran,        \* history: the tasks in the order they were begun
    evicted,    \* history: the tasks dropped because the list was full
    removed     \* history: the tasks RemoveTask or Clear took off the list

loopVars == <<tasks, exit, loop, current, posting, posted, ran, evicted, removed>>

NoTask == "none"

\* The mutex is held across steps only between the predicate and the sleep.
MutexFree == loop # "tested"

Elements(seq) == {seq[n] : n \in DOMAIN seq}

LoopInit ==
    /\ tasks = <<>>
    /\ exit = FALSE
    /\ loop = "off"
    /\ current = NoTask
    /\ posting = {}
    /\ posted = <<>>
    /\ ran = <<>>
    /\ evicted = {}
    /\ removed = {}

\* Every waiting thread is woken; it goes back to test the predicate.
Notified == IF loop = "asleep" THEN "wait" ELSE loop

-----------------------------------------------------------------------------
\* A thread enters the loop.
BeginLoop ==
    /\ loop = "off"
    /\ loop' = "head"
    /\ UNCHANGED <<tasks, exit, current, posting, posted, ran, evicted, removed>>

\* Mutant: only the wait looks at exit_.
EnterAnyway ==
    /\ loop = "head"
    /\ loop' = "wait"
    /\ UNCHANGED <<tasks, exit, current, posting, posted, ran, evicted, removed>>

\* The head of the loop.
CheckExit ==
    /\ loop = "head"
    /\ loop' = IF exit THEN "done" ELSE "wait"
    /\ UNCHANGED <<tasks, exit, current, posting, posted, ran, evicted, removed>>

\* The predicate of take_var_.wait, tested with the mutex held.
TestPredicate ==
    /\ loop = "wait"
    /\ loop' = IF tasks # <<>> \/ exit THEN "take" ELSE "tested"
    /\ UNCHANGED <<tasks, exit, current, posting, posted, ran, evicted, removed>>

Sleep ==
    /\ loop = "tested"
    /\ loop' = "asleep"
    /\ UNCHANGED <<tasks, exit, current, posting, posted, ran, evicted, removed>>

\* A condition variable may wake its waiter without being notified.
WakeSpuriously ==
    /\ loop = "asleep"
    /\ loop' = "wait"
    /\ UNCHANGED <<tasks, exit, current, posting, posted, ran, evicted, removed>>

\* Mutant: the task stays on the list.
TakeAndKeep ==
    /\ loop = "take"
    /\ IF tasks = <<>>
       THEN loop' = "head" /\ UNCHANGED <<current, ran>>
       ELSE /\ current' = Head(tasks)
            /\ ran' = Append(ran, Head(tasks))
            /\ loop' = "run"
    /\ UNCHANGED <<tasks, exit, posting, posted, evicted, removed>>

\* Mutant: the newest task first.
TakeNewest ==
    /\ loop = "take"
    /\ IF tasks = <<>>
       THEN loop' = "head" /\ UNCHANGED <<tasks, current, ran>>
       ELSE /\ current' = tasks[Len(tasks)]
            /\ tasks' = SubSeq(tasks, 1, Len(tasks) - 1)
            /\ ran' = Append(ran, tasks[Len(tasks)])
            /\ loop' = "run"
    /\ UNCHANGED <<exit, posting, posted, evicted, removed>>

\* One section takes the front task off the list; running it begins after.
Take ==
    /\ loop = "take"
    /\ IF tasks = <<>>
       THEN loop' = "head" /\ UNCHANGED <<tasks, current, ran>>
       ELSE /\ current' = Head(tasks)
            /\ tasks' = Tail(tasks)
            /\ ran' = Append(ran, Head(tasks))
            /\ loop' = "run"
    /\ UNCHANGED <<exit, posting, posted, evicted, removed>>

FinishTask ==
    /\ loop = "run"
    /\ loop' = "head"
    /\ current' = NoTask
    /\ UNCHANGED <<tasks, exit, posting, posted, ran, evicted, removed>>

LoopStep == CheckExit \/ TestPredicate \/ Sleep \/ Take \/ FinishTask

-----------------------------------------------------------------------------
Unposted(t) == t \notin posting \cup Elements(posted)

\* Post returns at once after Exit; the test is made without the mutex.
BeginPost(t) ==
    /\ ~exit
    /\ Unposted(t)
    /\ posting' = posting \cup {t}
    /\ UNCHANGED <<tasks, exit, loop, current, posted, ran, evicted, removed>>

IsFull == MaxTasks > 0 /\ Len(tasks) >= MaxTasks

\* Mutant: the newest listed task makes room.
EnqueueOverNewest(t) ==
    /\ t \in posting
    /\ MutexFree
    /\ LET kept == IF IsFull THEN SubSeq(tasks, 1, Len(tasks) - 1) ELSE tasks
       IN  /\ tasks' = Append(kept, t)
           /\ evicted' = evicted \cup (Elements(tasks) \ Elements(kept))
    /\ posted' = Append(posted, t)
    /\ posting' = posting \ {t}
    /\ loop' = Notified
    /\ UNCHANGED <<exit, current, ran, removed>>

\* Mutant: the list is appended to without the mutex.
EnqueueUnlocked(t) ==
    /\ t \in posting
    /\ LET kept == IF IsFull THEN Tail(tasks) ELSE tasks
       IN  /\ tasks' = Append(kept, t)
           /\ evicted' = evicted \cup (Elements(tasks) \ Elements(kept))
    /\ posted' = Append(posted, t)
    /\ posting' = posting \ {t}
    /\ loop' = Notified
    /\ UNCHANGED <<exit, current, ran, removed>>

\* The rest of Post: the oldest task makes room for the new one.
Enqueue(t) ==
    /\ t \in posting
    /\ MutexFree
    /\ LET kept == IF IsFull THEN Tail(tasks) ELSE tasks
       IN  /\ tasks' = Append(kept, t)
           /\ evicted' = evicted \cup (Elements(tasks) \ Elements(kept))
    /\ posted' = Append(posted, t)
    /\ posting' = posting \ {t}
    /\ loop' = Notified
    /\ UNCHANGED <<exit, current, ran, removed>>

SetExit ==
    /\ exit' = TRUE
    /\ UNCHANGED <<tasks, loop, current, posting, posted, ran, evicted, removed>>

\* take_var_ is notified without the mutex: the loop may hold it.
NotifyExit ==
    /\ loop' = Notified
    /\ UNCHANGED <<tasks, exit, current, posting, posted, ran, evicted, removed>>

-----------------------------------------------------------------------------
(***************************************************************************)
(* A task that was appended is in exactly one place: still on the list, or  *)
(* begun, or dropped for room, or taken off on request; nothing is lost or  *)
(* run twice (thread.cpp:85-94, 105-117, 137-151).                          *)
(***************************************************************************)
Places == <<Elements(tasks), Elements(ran), evicted, removed>>

EveryTaskInOnePlace ==
    /\ UNION {Places[m] : m \in 1 .. 4} = Elements(posted)
    /\ \A m, n \in 1 .. 4 : m # n => Places[m] \cap Places[n] = {}
    /\ Cardinality(Elements(ran)) = Len(ran)
    /\ Cardinality(Elements(tasks)) = Len(tasks)

(***************************************************************************)
(* Tasks are begun in the order they were appended, and what is still       *)
(* listed was appended after everything that was begun.                     *)
(***************************************************************************)
RunInOrder ==
    \E f \in [1 .. Len(ran \o tasks) -> 1 .. Len(posted)] :
       /\ \A m, n \in DOMAIN f : m < n => f[m] < f[n]
       /\ \A n \in DOMAIN f : posted[f[n]] = (ran \o tasks)[n]

(***************************************************************************)
(* The list never outgrows max_tasks_, and only a task that was the oldest  *)
(* of a full list is dropped for room.                                      *)
(***************************************************************************)
DropsOldestOnly ==
    /\ MaxTasks > 0 => Len(tasks) <= MaxTasks
    /\ \A m, n \in DOMAIN posted :
         posted[m] \in evicted /\ posted[n] \in Elements(tasks) => m < n
    /\ MaxTasks = 0 => evicted = {}

(***************************************************************************)
(* The loop sleeps only while there is nothing to do: a task on the list    *)
(* never waits for a sleeping loop.                                         *)
(***************************************************************************)
NoTaskWhileAsleep == loop \in {"asleep", "tested"} => tasks = <<>>

(***************************************************************************)
(* Unless somebody calls Exit, every task on the list is in time begun, or  *)
(* taken off by a caller or for room: no task is left to a loop that sleeps *)
(* on it.                                                                   *)
(***************************************************************************)
EveryTaskGetsItsTurn ==
    \A t \in Tasks :
       t \in Elements(posted) ~> t \in Elements(ran) \cup evicted \cup removed \/ exit
=============================================================================
