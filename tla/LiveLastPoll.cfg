\* One instance whose insert fails when the game has just ended.
CONSTANTS
    i1 = i1
    i2 = i2
    Instances = {i1}
    N = 2
    InPlay = {1, 2}
    TickOutlivesLease = FALSE
SPECIFICATION Spec
PROPERTIES
    FailedPollIsRetried
