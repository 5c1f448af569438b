SPECIFICATION ChannelSpec
CONSTANTS
    Packets <- SentPackets
    Shapes <- MCShapes
    MaxFrames = 4
    Repeats = FALSE
    Restarts = {"told"}
    MaxRuns = 1
    Lag = 0
INVARIANT
    RfiFrameEndsWait
CHECK_DEADLOCK FALSE
