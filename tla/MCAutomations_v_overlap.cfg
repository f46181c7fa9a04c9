SPECIFICATION Spec
CONSTANTS
    Instances = {friring}
    Tickers = {tick}
    friring = friring
    tick = tick
    Slots = {1, 2}
    Timeouts = {1, 2}
    DefaultTimeout = 1
    Grace = 1
    MaxTime = 6
    MaxEdits = 1
    MaxCrashes = 1
    EditsRace = FALSE
    TimeoutsChange = TRUE
CHECK_DEADLOCK FALSE
PROPERTY ReapedIsDead
