SPECIFICATION IndexerSpec
CONSTANTS
    Chain <- MCChain
    NoLoan = "none"
    NoBorrower = "none"
    Workers = {w1, w2}
    w1 = w1
    w2 = w2
    BatchSize = 2
    MaxTip = 2
    MaxFaults = 1
    MaxRetries = 3
    RepaymentDelta = 15
    DefaultPenalty = 50
    BaseScore = 500
    MinScore = 300
    MaxScore = 850
INVARIANTS
    RepaymentsRaiseScores
CHECK_DEADLOCK FALSE
