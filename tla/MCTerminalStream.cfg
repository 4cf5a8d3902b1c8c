SPECIFICATION FairStreamSpec
CONSTANTS
    p1 = p1
    p2 = p2
    Panes = {p1, p2}
    Shown = {p1}
    New = {p2}
    MaxBytes = 3
    MaxEvents = 4
    MaxMerged = 2
    MaxPublish = 20
    MaxGen = 2
    MaxClears = 9
    MaxProduced = 1
    MaxAttach = 1
    MaxFailures = 1
INVARIANTS
    ScreenComplete
    NoPaneLeftHeld
PROPERTIES
    OverflowEnds
CHECK_DEADLOCK FALSE
