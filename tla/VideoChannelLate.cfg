SPECIFICATION ChannelSpec
CONSTANTS
    Packets <- SentPackets
    Shapes <- FecShapes
    MaxFrames = 4
    Repeats = FALSE
    Restarts = {"told"}
    MaxRuns = 1
    Lag = 1
INVARIANT
    StatusOncePerFrame
CHECK_DEADLOCK FALSE
