SPECIFICATION Spec
CONSTANTS
    Inst = {a, b}
    a = a
    b = b
    TuiOps = {"start"}
    CliOps = {"create", "force", "restore"}
    Faults = {}
    Lazy = TRUE
    MaxOps = 5
    MaxLaunch = 3
CHECK_DEADLOCK FALSE
INVARIANT OneAgent
