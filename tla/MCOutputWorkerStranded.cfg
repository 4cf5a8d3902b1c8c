SPECIFICATION Spec
CONSTANTS
    i1 = i1
    i2 = i2
    Invocations = {i1}
    MaxAttempts = 2
    Batch = 1
    CommandLimit = 1
    MaxCommand = 2
    MaxFaults = 0
INVARIANTS
    NoStrandedJob
