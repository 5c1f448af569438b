SPECIFICATION Spec
CONSTANTS
    Tasks = {t1}
    MaxTasks = 0
    Kinds = {"Thread", "MessageLooper"}
PROPERTY
    ExitEndsLoop
CHECK_DEADLOCK FALSE
