\* Three versions and one experiment of a primary head with a canonical contract
\* and its baseline; three bundles, one kept on disk, with resets; two worker
\* instances around the alert; the artifact directories with three commands
\* or nights started by the operator; two threads, a cache of one, three sessions.
SPECIFICATION MCSpec
CONSTANTS
    pre = pre
    lr = lr
    h1 = h1
    h2 = h2
    i1 = i1
    i2 = i2
    v1 = v1
    v2 = v2
    Models = {pre, lr}
    Schemas = {h1, h2}
    CanonicalHash <- PreToH1
    BaselineFor <- PreToLr
    TrafficPcts = {0, 10}
    MaxVersions = 3
    MaxExperiments = 1
    N = 3
    KeepLocally = 1
    Resets = {FALSE, TRUE}
    MaxGates = 1
    Instances = {i1, i2}
    ServedVersions = {v1, v2}
    SustainDays = 2
    MaxReruns = 1
    TimestampClass = "integer"
    Families = {"network", "lightgbm", "miniature", "parks", "park_networks", "regression"}
    ParkOrder <- MCParkOrder
    MaxByHand = 3
    Requests = {i1, i2}
    Keys = {v1, v2}
    CacheSize = 1
    MaxSessions = 3
INVARIANTS
    RoutedIffChampion
    ChallengerIsShadow
    ChampionEarned
    OneLiveSchema
    BundleSafe
    OneAlertPerDay
    HoldoutIsUnseen
    
    MetadataIsLast
    CloseIsExclusive
PROPERTIES
    
    ImplementsServingContract
    FreshIsKept
    
SYMMETRY Symmetry
CHECK_DEADLOCK FALSE
