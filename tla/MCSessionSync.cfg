SPECIFICATION Spec
CONSTANTS
    Inst = {a, b}
    a = a
    b = b
    TuiOps = {"create", "delete", "hard", "undo", "restore", "restart", "unload", "save", "quit", "crash", "start"}
    CliOps = {"create", "delete", "force", "restore", "restart", "touch"}
    Faults = {"discover", "adopt", "spawn", "reads", "die"}
    Lazy = FALSE
    MaxOps = 5
    MaxLaunch = 3
CHECK_DEADLOCK FALSE
INVARIANT TypeOK
PROPERTY PaneIsKept
