SPECIFICATION DebtSpec
CONSTANTS
    Users = {u1}
    u1 = u1
    NoUser = NoUser
    Manager = Manager
    MaxScore = 4
    MinCreditScore = 1
    MaxHistory = 1
    MaxMinters = 3
    DefaultBurnThreshold = 2
    MaxBurnThreshold = 3
    TransferCooldown = 1
    ScoreUnit = 2
    InitialScores = {4}
    Penalties = {1}
    Deltas = {1}
    Repayments = {2}
    Thresholds = {1}
    MaxDefaults = 2
    MaxLedger = 5
    MaxLoanId = 1
    Bps = 4
    Term = 2
    Precision = 3
    MaxLateFee = 4
    MaxBonus = 2
    RiskTimelock = 1
    LatePenalty = 1
    DefaultPenalty = 2
    MaxExtensions = 1
    ExtensionFee = 1
    DebtMultiplier = 2
    MinWindow = 1
    DefaultConfig <- MCConfig
    DefaultRisk <- MCRisk
    Settings <- MCSettings
    Amounts = {1, 2, 3}
    Terms = {1}
    OracleRates = {1}
    PoolFunds = {6}
    MaxLoan = 3
    MaxHeld = 2
    Grace = 1
    Window = 2
    MinRepay = 1
    Rate = 3
    LateFee = 3
    MinScore = 1
CONSTRAINT LoanFocus
INVARIANTS
    PaidIsReceived
CHECK_DEADLOCK FALSE
