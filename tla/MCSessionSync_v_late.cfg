SPECIFICATION Spec
CONSTANTS
    Inst = {a, b}
    a = a
    b = b
    TuiOps = {"delete", "hard", "restore", "save"}
    CliOps = {"create", "delete", "restore"}
    Faults = {}
    Lazy = FALSE
    MaxOps = 4
    MaxLaunch = 3
CHECK_DEADLOCK FALSE
PROPERTIES RestoredSurvivesExpiry DeletionsStick TeardownSparesRestored
