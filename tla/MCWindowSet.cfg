SPECIFICATION Spec
CONSTANTS
    w1 = w1
    w2 = w2
    w3 = w3
    sh = sh
    vi = vi
    attacher = attacher
    worker = worker
    mover = mover
    Callers = {attacher, worker, mover}
    Attacher = attacher
    Worker = worker
    Mover = mover
    MaxCommands = 4
    Windows = {w1, w2, w3}
    Names = {sh, vi}
    Opened = {w1}
    MaxChanges = 2
    MaxFaults = 1
SYMMETRY Alike
CHECK_DEADLOCK FALSE
INVARIANTS
    OwnReply
    Paired
    Agrees
PROPERTIES
    NoPhantomClose
