\* Two instances, two balls in play; ticks are shorter than the lease.
CONSTANTS
    i1 = i1
    i2 = i2
    Instances = {i1, i2}
    N = 2
    InPlay = {1, 2}
    TickOutlivesLease = FALSE
SPECIFICATION FairSpec
INVARIANTS
    OnePoller
    CursorCovered
    PhysicsKept
PROPERTIES
    LiveGameKeepsUp
    PhysicsKeepsUp
