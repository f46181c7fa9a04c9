SPECIFICATION Spec
CONSTANTS
    Endpoints = {p1, p2}
    Nowhere = Nowhere
    p1 = p1
    p2 = p2
    MaxLaunches = 4
    CrashInLaunch = TRUE
CHECK_DEADLOCK FALSE
INVARIANT RunningIsServed
