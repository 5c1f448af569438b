----------------------------- MODULE TaskRuntime -----------------------------
(***************************************************************************)
(* TaskRuntime::Post (task_runtime.cpp) over threads that are reduced to   *)
(* the length of their lists (WorkerLoop has the rest of them).            *)
(* FindMostIdleThread asks the threads one by one, each under its own lock *)
(* only, and asks a thread that looks better a second time: meanwhile      *)
(* others post and the threads work.                                       *)
(***************************************************************************)
EXTENDS Integers

CONSTANTS
    Runner,     \* the threads of the runtime
    Poster,     \* the threads that call Post
    NoRunner,   \* the null pointer in target_pair
    kMaxTasks   \* MAX_TASK_PER_THREAD

ASSUME RuntimeAssumption == NoRunner \notin Runner /\ kMaxTasks \in Nat

VARIABLES
    tasks,      \* of each runner: TaskSize()
    scan        \* of each poster: how far its Post has got

runtimeVars == <<tasks, scan>>

\* left: the threads still to ask; better: one that is to be asked again;
\* quiet: no list changed during the scan; roomy: threads whose list was below
\* the limit all the time.
AtHome == [pc |-> "idle", left |-> {}, better |-> NoRunner, task_size |-> 0,
           target |-> NoRunner, quiet |-> TRUE, roomy |-> {}]

RuntimeInit ==
    /\ tasks = [r \in Runner |-> 0]
    /\ scan = [p \in Poster |-> AtHome]

\* Mutant: a list one short of the limit counts as full.
BeginScanShort(p) ==
    /\ scan[p].pc = "idle"
    /\ scan' = [scan EXCEPT ![p] = [AtHome EXCEPT
            !.pc = "scan", !.left = Runner, !.task_size = kMaxTasks - 1,
            !.roomy = {r \in Runner : tasks[r] < kMaxTasks}]]
    /\ UNCHANGED tasks

BeginScan(p) ==
    /\ scan[p].pc = "idle"
    /\ scan' = [scan EXCEPT ![p] = [AtHome EXCEPT
            !.pc = "scan", !.left = Runner, !.task_size = kMaxTasks,
            !.roomy = {r \in Runner : tasks[r] < kMaxTasks}]]
    /\ UNCHANGED tasks

\* if (TaskSize() < task_size)
Ask(p, r) ==
    /\ scan[p].pc = "scan" /\ scan[p].better = NoRunner
    /\ r \in scan[p].left
    /\ scan' = [scan EXCEPT ![p].left = @ \ {r},
                            ![p].better = IF tasks[r] < scan[p].task_size THEN r ELSE NoRunner]
    /\ UNCHANGED tasks

\* task_size = TaskSize(), the second time.
AskAgain(p) ==
    /\ scan[p].better # NoRunner
    /\ scan' = [scan EXCEPT ![p].better = NoRunner, ![p].target = scan[p].better,
                            ![p].task_size = tasks[scan[p].better]]
    /\ UNCHANGED tasks

Chosen(p) == scan[p].pc = "scan" /\ scan[p].left = {} /\ scan[p].better = NoRunner

\* The list of r has n tasks; a scan under way was not quiet.
Resize(r, n, posting) ==
    /\ tasks' = [tasks EXCEPT ![r] = n]
    /\ scan' = [p \in Poster |-> IF p \in posting THEN AtHome
            ELSE [scan[p] EXCEPT !.quiet = FALSE,
                                 !.roomy = IF n < kMaxTasks THEN @ ELSE @ \ {r}]]

\* Thread::Post: a full list loses its first task.
PostTo(p) ==
    /\ Chosen(p) /\ scan[p].target # NoRunner
    /\ LET r == scan[p].target
       IN  Resize(r, IF tasks[r] >= kMaxTasks THEN tasks[r] ELSE tasks[r] + 1, {p})

\* target_pair.second is null and Post calls through it: the program ends here.
PostNull(p) ==
    /\ Chosen(p) /\ scan[p].target = NoRunner
    /\ scan' = [scan EXCEPT ![p] = [AtHome EXCEPT !.pc = "null"]]
    /\ UNCHANGED tasks

\* A thread takes a task; or one is posted to it past the runtime, as
\* GetFirstThread and GetLastThread allow.
TakeTask(r) == tasks[r] > 0 /\ Resize(r, tasks[r] - 1, {})
PostPast(r) == tasks[r] < kMaxTasks /\ Resize(r, tasks[r] + 1, {})

RuntimeNext ==
    \/ \E p \in Poster : BeginScan(p) \/ AskAgain(p) \/ PostTo(p) \/ PostNull(p)
    \/ \E p \in Poster, r \in Runner : Ask(p, r)
    \/ \E r \in Runner : TakeTask(r) \/ PostPast(r)

RuntimeSpec == RuntimeInit /\ [][RuntimeNext]_runtimeVars

-----------------------------------------------------------------------------
(***************************************************************************)
(* If no list changed meanwhile, the thread a task goes to has the shortest *)
(* list of all (task_runtime.cpp:56-66).                                    *)
(***************************************************************************)
PicksMostIdle ==
    \A p \in Poster : Chosen(p) /\ scan[p].quiet /\ scan[p].target # NoRunner =>
        \A r \in Runner : tasks[scan[p].target] <= tasks[r]

(***************************************************************************)
(* Post finds a thread as long as one has room throughout the scan; that a  *)
(* thread had room when its turn came to be asked is all it needs, whatever *)
(* the second reading says (task_runtime.cpp:59-63, 34).                    *)
(***************************************************************************)
PicksOneWithRoom ==
    \A p \in Poster : Chosen(p) /\ scan[p].roomy # {} => scan[p].target # NoRunner
=============================================================================
