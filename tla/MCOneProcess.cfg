SPECIFICATION FairSpec

CONSTANTS
    c1 = c1
    c2 = c2
    w1 = w1
    w2 = w2
    p1 = p1
    p2 = p2
    NoCall = NoCall
    Calls = {c1}
    Workers = {w1, w2}
    ProcOf <- OneProcess
    Faults = {"db", "storage", "redis", "request", "provider", "lease", "crash"}
    HasPlaybook = TRUE
    MaxRetry = 2
    MaxShutdowns = 1

INVARIANTS
    TypeOK
    LockedViewIsFresh
    FailureIsTruthful
PROPERTIES
    ImplementsLifecycle
    AcceptedIsSettled
