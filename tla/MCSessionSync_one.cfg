SPECIFICATION Spec
CONSTANTS
    Inst = {a}
    a = a
    TuiOps = {"create", "delete", "hard", "restart", "unload", "save", "quit", "crash", "start"}
    CliOps = {"create", "delete", "force", "restore", "touch"}
    Faults = {"spawn", "reads"}
    Lazy = FALSE
    MaxOps = 9
    MaxLaunch = 5
CHECK_DEADLOCK FALSE
INVARIANT OneAgent
