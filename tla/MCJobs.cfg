SPECIFICATION Spec
CONSTANTS
    NLoans = 2
    CheckerProcesses = {p1}
    p1 = p1
    NoHolder = NoHolder
    CheckBatchSize = 1
    MaxLoansPerRun = 1
    CheckConcurrency = 1
    MaxOperatorRuns = 1
    MaxCheckerFaults = 1
    NNotes = 2
    NoteLimit = 1
    ApiProcesses = {a1, a2}
    a1 = a1
    a2 = a2
    NoProcess = NoProcess
    MaxConnects = 1
INVARIANTS
    JobsTypeOK
PROPERTIES
    OverdueLoansAreSettled
    ListConverges
CHECK_DEADLOCK FALSE
