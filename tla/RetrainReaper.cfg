\* The reaper with integer timestamps, as sqlite-jdbc binds them by default.
CONSTANTS
    pre = pre
    w1 = w1
    w2 = w2
    c1 = c1
    Models = {pre}
    Workers = {w1}
    Callers = {c1}
    Periods = {1}
    TimestampClass = "integer"
    MaxTriggers = 2
    MaxCandidates = 2
SPECIFICATION FairSpec
PROPERTIES
    StrandedClaimRecovers
CHECK_DEADLOCK FALSE
