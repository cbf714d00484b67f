SPECIFICATION HSpec
CONSTANTS
    Accounts = {a1, a2}
    a1 = a1
    a2 = a2
    NoAccount = NoAccount
    Funds = 4
    Virtual = 2
    Amounts = {0, 1, 3}
    MaxPoolSizes = {0, 3}
    Cooldowns = {0, 1}
    DefaultCooldown = 0
    MaxCooldown = 1
    YieldLimits = {0, 1, 3}
    Periods = {0, 1}
    MaxPeriod = 1
    MaxLedger = 3
    MaxOverdraw = 2
    MaxManaged = 8
    MaxYield = 3
SYMMETRY AccountSymmetry
CONSTRAINT Focus
INVARIANTS
    SharesAccounted
    ManagedCoversShares
    NoRoundTripProfit
PROPERTIES
    SharePriceNeverFalls
    YieldWithinLimit
