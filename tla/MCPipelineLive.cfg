SPECIFICATION FairSpec
CONSTANTS
    k1 = k1
    k2 = k2
    Items = {k1}
    Drains = {"tick", "refresh"}
    Filters = {{"open"}, {"open", "closed"}}
    Policy = "all"
    PageSize = 3
    SnapshotLimit = 1
    MaxBacklog = 0
    MaxChanges = 2
    MaxTriage = 0
    MaxEdits = 1
    MaxFaults = 0
INVARIANTS
    NoLostWake
PROPERTIES
    Converges
