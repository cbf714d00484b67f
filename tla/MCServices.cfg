SPECIFICATION Spec
CONSTANTS
    Wallets = {"w1", "w2"}
    ChallengeIds = {n1, n2, n3}
    n1 = n1
    n2 = n2
    n3 = n3
    Logins = {l1, l2}
    l1 = l1
    l2 = l2
    CleanupBatch = 1
    RemittanceIds = {r1, r2}
    r1 = r1
    r2 = r2
    NoRemittance = NoRemittance
    HttpRequests = {q1, q2}
    q1 = q1
    q2 = q2
    IdempotencyKeys = {"k1", "k2"}
    MaxRequests = 4
    Senders = {"ann", "bob"}
    Owner = "ann"
    Admins = {"ann", "bob"}
    NoAdmin = "nobody"
    PrivRequests = {p1, p2}
    p1 = p1
    p2 = p2
    Discrepancies = {"d1"}
    ConfigChange = "config"
    ExecuteCalls = {c1, c2}
    c1 = c1
    c2 = c2
    NRecords = 3
    Keys = {"k1", "k2"}
    LocalKey = "local"
    Batches = {b1, b2}
    b1 = b1
    b2 = b2
    NoBatch = NoBatch
    Runs = {x1, x2}
    x1 = x1
    x2 = x2
    PageSize = 1
    MaxRotationFaults = 1
    PoolOps = {d1}
    d1 = d1
    RepayOps = {y1}
    y1 = y1
    GovAccounts = {g1, g2}
    g1 = g1
    g2 = g2
    GovContract = GovContract
    MinTimelock = 2
    ProposalTtl = 4
    ReproposalCooldown = 1
    MaxSigners = 2
    Delays = {1, 2, 5}
    MaxTime = 7
    MaxProposals = 2
    Users = {u1, u2}
    u1 = u1
    u2 = u2
    NoUser = NoUser
    Manager = Manager
    MaxScore = 2
    MinCreditScore = 1
    MaxHistory = 2
    MaxMinters = 2
    DefaultBurnThreshold = 2
    MaxBurnThreshold = 2
    TransferCooldown = 1
    ScoreUnit = 2
    InitialScores = {0}
    Penalties = {1}
    Deltas = {1}
    Repayments = {0, 2}
    Thresholds = {0, 1}
    MaxDefaults = 2
    MaxLedger = 2
SYMMETRY UserSymmetry
CONSTRAINTS NftOrMinterFocus VerificationAlone
INVARIANTS
    OneLoginPerChallenge
    SubmittedIsNeverPending
    DualControl
    CompletedLeavesOne
    OptimismIsTransient
    HistoryExplainsScore
    DefaultSticks
PROPERTIES
    TransfersAreApproved
    RemintsAreApproved
CHECK_DEADLOCK FALSE
