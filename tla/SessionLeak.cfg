\* Two threads, a cache of one and two sessions, with the shutdown.
CONSTANTS
    r1 = r1
    r2 = r2
    v1 = v1
    v2 = v2
    Requests = {r1, r2}
    Keys = {v1, v2}
    CacheSize = 1
    MaxSessions = 2
SPECIFICATION SessionSpec
INVARIANTS
    NothingOutlivesShutdown
CHECK_DEADLOCK FALSE
