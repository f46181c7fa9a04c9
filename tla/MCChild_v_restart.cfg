SPECIFICATION Spec
CONSTANTS
    CreateKeys = {c1}
    ResumeKeys = {r1}
    StopKeys = {s1}
    NoKey = NoKey
    c1 = c1
    r1 = r1
    s1 = s1
    MaxChildren = 1
    MaxJobs = 2
    MaxCrashes = 1
    KillMayFail = FALSE
    QueryMayFail = FALSE
    MuxMayDie = FALSE
    WriteMayFail = FALSE
    NudgesGiveUp = FALSE
CHECK_DEADLOCK FALSE
INVARIANTS StartingIsDriven
PROPERTIES StopMeansStopped
