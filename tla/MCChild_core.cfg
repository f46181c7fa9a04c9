SPECIFICATION Spec
CONSTANTS
    CreateKeys = {c1}
    ResumeKeys = {r1, r2}
    StopKeys = {s1}
    NoKey = NoKey
    c1 = c1
    r1 = r1
    r2 = r2
    s1 = s1
    MaxChildren = 1
    MaxJobs = 2
    MaxCrashes = 0
    KillMayFail = FALSE
    QueryMayFail = FALSE
    MuxMayDie = FALSE
    WriteMayFail = FALSE
    NudgesGiveUp = TRUE
CHECK_DEADLOCK FALSE
SYMMETRY KeySymmetry
INVARIANTS TypeOK AcceptedIsCarried
