\* A bootstrap reset fails after it swept the champion.
CONSTANTS
    N = 2
    KeepLocally = 1
    Resets = {FALSE, TRUE}
    MaxGates = 1
SPECIFICATION SnapshotSpec
INVARIANTS
    ChampionHasFiles
CHECK_DEADLOCK FALSE
