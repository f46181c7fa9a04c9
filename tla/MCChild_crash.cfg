SPECIFICATION Spec
CONSTANTS
    CreateKeys = {c1}
    ResumeKeys = {r1}
    StopKeys = {s1}
    NoKey = NoKey
    c1 = c1
    r1 = r1
    s1 = s1
    MaxChildren = 1
    MaxJobs = 2
    MaxCrashes = 1
    KillMayFail = FALSE
    QueryMayFail = FALSE
    MuxMayDie = TRUE
    WriteMayFail = TRUE
    NudgesGiveUp = TRUE
CHECK_DEADLOCK FALSE
INVARIANTS AcceptedIsCarried OneAgentPerWorktree AgentHasRows VerdictIsTrue AgentKeepsItsWorktree
PROPERTIES AnswerIsFinal EndedStaysEnded
