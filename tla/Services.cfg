\* Two triggers of one model, two workers that may die at any step, one caller,
\* and timestamps bound as integers; two threads, a cache of one, two sessions;
\* three predictions, a queue and batches of two, two attempts, one failed flush
\* of the shutdown.
CONSTANTS
    pre = pre
    w1 = w1
    w2 = w2
    c1 = c1
    r1 = r1
    r2 = r2
    v1 = v1
    v2 = v2
    e1 = e1
    e2 = e2
    e3 = e3
    Models = {pre}
    Workers = {w1, w2}
    Callers = {c1}
    Periods = {1}
    TimestampClass = "integer"
    MaxTriggers = 2
    MaxCandidates = 2
    Requests = {r1, r2}
    Keys = {v1, v2}
    CacheSize = 1
    MaxSessions = 2
    Events = {e1, e2, e3}
    Capacity = 2
    FlushBatchSize = 2
    MaxWriteAttempts = 2
    MaxBatchesPerCycle = 1
    MaxShutdownFailures = 1
SPECIFICATION MCSpec
INVARIANTS
    OneWorkerPerTrigger
    LossIsCounted
PROPERTIES
    QueuedIsServed
    ImplementsRetrainJobs
    RemovedIsClosed
    QueueDrains
CHECK_DEADLOCK FALSE
