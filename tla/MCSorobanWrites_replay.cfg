SPECIFICATION MCSpec
CONSTANTS
    FailureThreshold = 2
    Backends = {p1}
    p1 = p1
    NoBackend = NoBackend
    Writes = {w1, w2}
    w1 = w1
    w2 = w2
    BatchSize = 2
    MaxOutages = 1
    MaxCrashes = 1
INVARIANTS
    QueuedOnce
    OneTrial
PROPERTIES
    DrainedUnlessWedged
