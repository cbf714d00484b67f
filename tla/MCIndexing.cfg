SPECIFICATION Spec
CONSTANTS
    Chain <- MCChain
    NoLoan = "none"
    NoBorrower = "none"
    Workers = {w1, w2}
    w1 = w1
    w2 = w2
    BatchSize = 2
    MaxTip = 2
    MaxFaults = 1
    MaxRetries = 3
    RepaymentDelta = 15
    DefaultPenalty = 50
    BaseScore = 500
    MinScore = 300
    MaxScore = 850
    NBorrowers = 1
    Custody <- MCCustody
    Scores = {0, 2}
    DefaultScore = 0
    SweepProcesses = {w1, w2}
    ScoreProcesses = {w1, w2}
    MaxRowsPerRun = 1
    StaleAttempts = 2
    MaxBorrowersPerRun = 1
    ScoreBatchSize = 1
    CorrectThreshold = 2
    AutoCorrect = TRUE
    MaxScoreMoves = 1
    MaxReconcileFaults = 1
INVARIANTS
    IndexingTypeOK
    VerifiedRangesComplete
    EffectsAtMostOnce
    ScoresCountEventsOnce
PROPERTIES
    ImplementsEventLog
    IndexerCatchesUp
    RowsReconcile
    ActiveScoresConverge
CHECK_DEADLOCK FALSE
