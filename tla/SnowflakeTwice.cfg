SPECIFICATION Spec
CONSTANTS
    Epochs = {0, 1}
    Machines = {0, 3}
    SequenceSize = 2
    TimestampSize = 8
    MaxBackward = 1
    Floor = 1
    Horizon = 5
    MaxSetBacks = 2
    MaxIds = 4
    Reinitialize = TRUE
INVARIANT
    Unique
CHECK_DEADLOCK FALSE
