SPECIFICATION StreamSpec
CONSTANTS
    Seqs = {}
    MaxBuffered = 16
    MaxConsecutiveLost = 5
    ResyncThreshold = 6000
    MaxSeq = 250
    MaxRestarts = 0
    Outages = {81}
    MaxStrays = 0
PROPERTY
    StreamSettles
CHECK_DEADLOCK FALSE
