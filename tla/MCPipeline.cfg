SPECIFICATION Spec
CONSTANTS
    k1 = k1
    k2 = k2
    Items = {k1, k2}
    Drains = {"tick"}
    Filters = {{"open"}, {"open", "closed"}}
    Policy = "state-changes"
    PageSize = 3
    SnapshotLimit = 1
    MaxBacklog = 1
    MaxChanges = 2
    MaxTriage = 1
    MaxEdits = 1
    MaxFaults = 1
INVARIANTS
    HeadMatchesRow
PROPERTIES
    ReplayFreezesArchived
