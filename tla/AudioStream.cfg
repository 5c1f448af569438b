SPECIFICATION StreamSpec
CONSTANTS
    Seqs = {0, 1, 2, 3, 4, 5, 6, 7, 8, 9, 10, 11, 12, 13, 14}
    MaxBuffered = 4
    MaxConsecutiveLost = 2
    ResyncThreshold = 6
    MaxSeq = 30
    MaxRestarts = 2
    Outages = {1, 2, 3, 5, 8}
    MaxStrays = 1
INVARIANTS
    NothingHeldBack
    CaughtUp
    SilenceBounded
PROPERTIES
    ImplementsPlayout
    StreamSettles
CHECK_DEADLOCK FALSE
