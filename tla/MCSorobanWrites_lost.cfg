SPECIFICATION MCSpec
CONSTANTS
    FailureThreshold = 1
    Backends = {p1}
    p1 = p1
    NoBackend = NoBackend
    Writes = {w1, w2}
    w1 = w1
    w2 = w2
    BatchSize = 2
    MaxOutages = 1
    MaxCrashes = 0
INVARIANT AppliedIsKnown
