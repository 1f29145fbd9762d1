\* Two pitches of two games in two months; four balls of two seasons.
SPECIFICATION MCSpec
CONSTANTS
    p1 = p1
    p2 = p2
    zero = zero
    g1 = g1
    g2 = g2
    LastMonth = 2
    Pitches = {p1, p2}
    Unkeyed = {}
    ZeroKey = zero
    Regular = {p1, p2}
    ChunkSize = 1
    Attempts = 2
    MinRows = 1
    MaxRows = 2
    InSeason = FALSE
    FloorRows = 1
    Migrations = 2
    Statements = 1
    MaxRepublish = 1
    GameOf <- MCGameOf
    Retries = 2
    BatchSize = 2
    Feeds <- MCFeeds
    NumBalls = 4
    Season <- MCSeason
    NoPark = {2}
    PageSize = 2
    MinWeather = 1
    MaxRuns = 2
    MaxRescores = 1
    ChunkRows = 2
    MaxTrainings = 1
    FenceDists = {3}
    FenceHeights = {2, 3}
    ContactHeights = {1, 3}
    MaxSteps = 4
    MaxReach = 2
    MaxRise = 3
    MaxDrop = 2
    HomeRunMargin = 2
    WallHang = 3
    CatchHang = 3
    CatchDist = 4
    DoubleDist = 5
    SingleDist = 2
INVARIANTS
    OneRowPerPitch
    TrackedIsApplied
    BackfillIsComplete
    LabelledWhenDone
    FramesAreExact
    CandidateIsHonest
    FusedAgrees
SYMMETRY Symmetry
CHECK_DEADLOCK FALSE
