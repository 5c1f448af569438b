SPECIFICATION Spec
CONSTANTS
    Tasks = {t1, t2, t3, t4}
    MaxTasks = 2
    Kinds = {"Thread", "MessageLooper"}
INVARIANTS
    EveryTaskInOnePlace
    RunInOrder
    DropsOldestOnly
    NoTaskWhileAsleep
PROPERTIES
    NothingBegunAfterExit
    EveryTaskGetsItsTurn
CHECK_DEADLOCK FALSE
