SPECIFICATION Spec
CONSTANTS
    Inst = {a, b, c}
    a = a
    b = b
    c = c
    TuiOps = {"save", "quit", "crash", "start"}
    CliOps = {"create", "delete", "restore", "touch"}
    Faults = {"adopt", "reads"}
    Lazy = TRUE
    MaxOps = 7
    MaxLaunch = 2
CHECK_DEADLOCK FALSE
INVARIANT OneAgent
