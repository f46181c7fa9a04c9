SPECIFICATION Spec
CONSTANTS
    CreateKeys = {c1}
    ResumeKeys = {r1}
    StopKeys = {}
    NoKey = NoKey
    c1 = c1
    r1 = r1
    MaxChildren = 1
    MaxJobs = 2
    MaxCrashes = 1
    KillMayFail = FALSE
    QueryMayFail = TRUE
    MuxMayDie = FALSE
    WriteMayFail = FALSE
    NudgesGiveUp = FALSE
CHECK_DEADLOCK FALSE
INVARIANTS OneAgentPerWorktree
