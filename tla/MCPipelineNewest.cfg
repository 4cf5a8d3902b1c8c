SPECIFICATION Spec
CONSTANTS
    k1 = k1
    k2 = k2
    Items = {k1}
    Drains = {"tick", "refresh"}
    Filters = {{"open"}, {"open", "closed"}}
    Policy = "state-changes"
    PageSize = 3
    SnapshotLimit = 1
    MaxBacklog = 1
    MaxChanges = 2
    MaxTriage = 0
    MaxEdits = 0
    MaxFaults = 0
PROPERTIES
    NewestSnapshotWins
