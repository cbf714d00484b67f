SPECIFICATION ParamsSpec
CONSTANTS
    Users = {u1, u2}
    u1 = u1
    u2 = u2
    NoUser = NoUser
    Manager = Manager
    MaxScore = 2
    MinCreditScore = 2
    MaxHistory = 1
    MaxMinters = 3
    DefaultBurnThreshold = 2
    MaxBurnThreshold = 3
    TransferCooldown = 1
    ScoreUnit = 9
    InitialScores = {2}
    Penalties = {0}
    Deltas = {0}
    Repayments = {2}
    Thresholds = {1}
    MaxDefaults = 2
    MaxLedger = 4
    MaxLoanId = 2
    Bps = 4
    Term = 1
    Precision = 1
    MaxLateFee = 4
    MaxBonus = 2
    RiskTimelock = 2
    LatePenalty = 0
    DefaultPenalty = 0
    MaxExtensions = 1
    ExtensionFee = 1
    DebtMultiplier = 2
    MinWindow = 1
    DefaultConfig <- MCConfig
    DefaultRisk <- MCRisk
    Settings <- MCSettings
    Amounts = {1}
    Terms = {1}
    OracleRates = {1}
    PoolFunds = {2}
    MaxLoan = 3
    MaxHeld = 0
    Grace = 0
    Window = 0
    MinRepay = 1
    Rate = 1
    LateFee = 1
    MinScore = 1
SYMMETRY UserSymmetry
CONSTRAINT ParamsOrNftFocus
PROPERTIES
    NoDefaultInGrace
    PauseFreezesDebt
    RiskChangesAreAnnounced
    DefaultMarksBorrower
