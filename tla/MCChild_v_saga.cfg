SPECIFICATION FairSpec
CONSTANTS
    CreateKeys = {c1}
    ResumeKeys = {}
    StopKeys = {}
    NoKey = NoKey
    c1 = c1
    MaxChildren = 1
    MaxJobs = 2
    MaxCrashes = 1
    KillMayFail = FALSE
    QueryMayFail = FALSE
    MuxMayDie = FALSE
    WriteMayFail = FALSE
    NudgesGiveUp = FALSE
CHECK_DEADLOCK FALSE
PROPERTIES SagaIsFinalized
