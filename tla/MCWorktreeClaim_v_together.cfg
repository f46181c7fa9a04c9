SPECIFICATION Spec
CONSTANTS
    Launches = {l1, l2}
    Branches = {b1}
    Paths = {p1}
    Procs = {i1, i2}
    Other = Other
    None = None
    l1 = l1
    l2 = l2
    b1 = b1
    p1 = p1
    i1 = i1
    i2 = i2
    MaxCrashes = 2
    CrashInReclaim = FALSE
    KillMayFail = FALSE
    OthersAttach = FALSE
    Cleans = FALSE
    StartTogether = TRUE
CHECK_DEADLOCK FALSE
PROPERTY OnlyItsOwn
