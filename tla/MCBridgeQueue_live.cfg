SPECIFICATION FairSpec
CONSTANTS
    Immediate = {k1}
    Deferred = {k2}
    Bodies = {b1, b2}
    Instances = {i1}
    None = None
    k1 = k1
    k2 = k2
    b1 = b1
    b2 = b2
    i1 = i1
    MaxSubmits = 2
    MaxCrashes = 2
    AnswersFit = TRUE
CHECK_DEADLOCK FALSE
PROPERTIES RequestsAreAnswered TakenIsAnswered
