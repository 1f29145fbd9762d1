\* Two epochs of TransformerV3 are enough: one shuffle that moves a row.
SPECIFICATION SeqSpec
CONSTANTS
    SeasonOf <- MCSeasonOf
    GameOf <- MCGameOf
    Logs <- MCLogs
    Requests <- MCRequests
    Limits = {0}
    SeqWindow = 2
    BatchSize = 1
    MaxEpochs = 2
    Patience = 1
    RookiePitches = 1
    EstablishedPitches = 2
    CareerPitches = 1
    Losses = {0, 1}
INVARIANT RecentSeasonsWeighHigher
CHECK_DEADLOCK FALSE
