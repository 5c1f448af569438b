SPECIFICATION Spec
CONSTANTS
    Packets <- SentPackets
    Shapes <- LongShapes
    MaxIdx = 2
INVARIANTS
    SyncedOrWaiting
    ReferenceChain
    NothingHeldBack
    StatusOnceInOrder
