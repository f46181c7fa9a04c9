SPECIFICATION FairSpec
CONSTANTS
    Owner = Owner
    Children = {c1}
    Instances = {i1}
    c1 = c1
    i1 = i1
    MaxUnanswered = 2
    MaxRecords = 1
    Cap = 2
    MaxSends = 2
    MaxMoves = 2
CHECK_DEADLOCK FALSE
INVARIANTS TypeOK OwedIsScheduled
PROPERTIES MailIsAnnounced StallIsEarned
