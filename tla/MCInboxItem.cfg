SPECIFICATION Spec
CONSTANTS
    w1 = w1
    w2 = w2
    Windows = {w1, w2}
    Policy = "state-changes"
    MaxRevision = 4
    MaxRows = 2
INVARIANTS
    TypeOK
    NoLostUpdate
    ReasonMatchesActor
PROPERTIES
    ManualArchiveKept
