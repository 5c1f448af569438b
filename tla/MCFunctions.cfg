SPECIFICATION Spec
CONSTANTS
    Character <- Characters
    Block = 4
    LengthField = 2
    Entry = {"d", "dd", "f", "df", "ddf"}
    Folder = {"d", "dd"}
    Above <- MCAbove
    NoEntry = "none"
    kBlockSize = 2
    kMaxFile = 4
INVARIANTS
    NothingLeaks
    NothingMisused
    TrueMeansDone
    ArgumentsArrive
    DigestOfAllBytes
    FrameFromAnyShards
    WrittenIsRead
    CopyKeepsOld
    CopyComplete
    ChunksJoin
PROPERTIES
    ReadEnds
CHECK_DEADLOCK FALSE
