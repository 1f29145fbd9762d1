\* Six seasons and three folds; two trainings of a bundle; two exports; one
\* evaluation, or two fittings, beside one rewrite of a table; two epochs.
SPECIFICATION MCSpec
CONSTANTS
    FirstSeason = 1
    LastSeason = 6
    NumFolds = 3
    MaxYears <- MCMaxYears
    Trainers = {"pitch_post", "pitch_type"}
    MaxBuilds = 2
    Families = {"pitch_pre", "pitch_post", "pitch_type"}
    MaxTrainings = 2
    MaxContracts = 2
    MaxEncodings = 1
    FoldFiles = {"mappings", "train", "test"}
    MaxExports = 2
    MaxSchemas = 2
    EvaluatedFamilies = {"pre", "post", "lr", "mlp", "faithful", "carry", "v3", "pitch_type"}
    Brier = {0, 1, 2}
    Loss = {0, 2}
    Ece = {0, 1}
    Bar = 1
    SampleSizeTarget = 2
    MaxRelabels = 1
    MaxEvaluations = 1
    MaxFittings = 2
    SeasonOf <- MCSeasonOf
    GameOf <- MCGameOf
    Logs <- MCLogs
    Requests <- MCRequests
    Limits = {0, 5}
    SeqWindow = 2
    BatchSize = 2
    MaxEpochs = 2
    Patience = 1
    RookiePitches = 1
    EstablishedPitches = 2
    CareerPitches = 1
    Losses = {0, 1}
INVARIANTS
    
    HonestEvaluation
    GatedIsOneTraining
    PrimaryHasBaseline
    TrainedOnOneExport
    GateIsEarned
    VerdictIsPaired
    ScoreIsHonest
CHECK_DEADLOCK FALSE
