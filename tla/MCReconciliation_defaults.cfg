SPECIFICATION ReconSpec
CONSTANTS
    NBorrowers = 1
    Custody <- MCCustody
    Scores = {0, 2}
    DefaultScore = 0
    SweepProcesses = {w1, w2}
    w1 = w1
    w2 = w2
    ScoreProcesses = {w1}
    MaxRowsPerRun = 1
    StaleAttempts = 2
    MaxBorrowersPerRun = 1
    ScoreBatchSize = 1
    CorrectThreshold = 2
    AutoCorrect = TRUE
    MaxScoreMoves = 1
    MaxReconcileFaults = 1
PROPERTY
    CorrectionsAreOnChain
CHECK_DEADLOCK FALSE
