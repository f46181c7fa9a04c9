SPECIFICATION Spec
CONSTANTS
    Endpoints = {p1, p2}
    Nowhere = Nowhere
    p1 = p1
    p2 = p2
    MaxLaunches = 6
    CrashInLaunch = FALSE
CHECK_DEADLOCK FALSE
INVARIANTS TypeOK RunningIsServed NothingIsLeft
PROPERTIES BoundaryIsKept TokenFollowsAgent GateIsFiltered
