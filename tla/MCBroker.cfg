SPECIFICATION FairSpec
CONSTANTS
    p1 = p1
    p2 = p2
    Panes = {p1, p2}
    MaxBytes = 2
    MaxEvents = 3
    MaxMerged = 2
    MaxPublish = 4
    MaxGen = 3
    MaxClears = 1
INVARIANTS
    TypeOK
    WithinBounds
    NothingStranded
PROPERTIES
    TakenInOrder
    ImplementsStream
    CloseEndsStreams
    ReaderCatchesUp
CHECK_DEADLOCK FALSE
