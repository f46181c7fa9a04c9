SPECIFICATION Spec
CONSTANTS
    Inst = {a}
    a = a
    TuiOps = {}
    CliOps = {"create"}
    Faults = {"discover"}
    Lazy = TRUE
    MaxOps = 5
    MaxLaunch = 3
CHECK_DEADLOCK FALSE
INVARIANT OneAgent
