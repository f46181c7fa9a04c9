SPECIFICATION FairSpec
CONSTANTS
    Inst = {a, b}
    a = a
    b = b
    TuiOps = {"create"}
    CliOps = {"delete"}
    Faults = {}
    Lazy = TRUE
    MaxOps = 5
    MaxLaunch = 3
CHECK_DEADLOCK FALSE
PROPERTY Converges
