SPECIFICATION ChannelSpec
CONSTANTS
    Packets <- SentPackets
    Shapes <- MCShapes
    MaxFrames = 3
    Repeats = TRUE
    Restarts = {"told", "silent"}
    MaxRuns = 2
    Lag = 0
INVARIANTS
    FecDelivers
    RestartHeals
CHECK_DEADLOCK FALSE
