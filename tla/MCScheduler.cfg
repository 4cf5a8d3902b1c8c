SPECIFICATION Spec
CONSTANTS
    s1 = s1
    c1 = c1
    c2 = c2
    u1 = u1
    ender = ender
    runner = runner
    Users = {u1}
    Ender = ender
    Runner = runner
    Cap = 2
    MaxChats = 3
    MaxFaults = 1
    MaxRequests = 2
    Schedules = {s1}
    Crons = {c1, c2}
    Occurs <- MCOccurs
    Grace = 0
    Keep = 2
    MaxTime = 2
INVARIANTS
    LaunchedOnce
    OneChatPerSchedule
    Addressable
PROPERTIES
    Accounted
    
    NoneLeftDue
