SPECIFICATION FairSpec
CONSTANTS
    i1 = i1
    i2 = i2
    Invocations = {i1, i2}
    MaxAttempts = 2
    Batch = 2
    CommandLimit = 1
    MaxCommand = 2
    MaxFaults = 1
INVARIANTS
    TypeOK
    OneShot
    RunningIsHeld
    ListedStayPending
    ExecutionBound
    JobTruth
PROPERTIES
    NeverBackground
    PendingSettles
    ImplementsQueue
