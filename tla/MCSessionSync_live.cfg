SPECIFICATION FairSpec
CONSTANTS
    Inst = {a, b}
    a = a
    b = b
    TuiOps = {"save", "quit", "crash", "start"}
    CliOps = {"create", "delete", "force", "restore", "restart", "touch"}
    Faults = {"discover", "adopt", "spawn", "die"}
    Lazy = FALSE
    MaxOps = 8
    MaxLaunch = 3
CHECK_DEADLOCK FALSE
PROPERTIES Converges Settles
