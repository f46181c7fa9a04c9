SPECIFICATION Spec
CONSTANTS
    Launches = {l1, l2}
    Branches = {b1, b2}
    Paths = {p1, p2}
    Procs = {i1, i2}
    Other = Other
    None = None
    l1 = l1
    l2 = l2
    b1 = b1
    b2 = b2
    p1 = p1
    p2 = p2
    i1 = i1
    i2 = i2
    MaxCrashes = 1
    CrashInReclaim = FALSE
    KillMayFail = FALSE
    OthersAttach = TRUE
    Cleans = FALSE
    StartTogether = FALSE
CHECK_DEADLOCK FALSE
PROPERTY OnlyItsOwn
