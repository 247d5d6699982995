SPECIFICATION FairSpec

CONSTANTS
    c1 = c1
    c2 = c2
    w1 = w1
    w2 = w2
    p1 = p1
    p2 = p2
    NoCall = NoCall
    Calls = {c1, c2}
    Workers = {w1, w2}
    ProcOf <- OneProcess
    Faults = {"provider"}
    HasPlaybook = TRUE
    MaxRetry = 1
    MaxShutdowns = 0

INVARIANTS
    ScoredByPlaybook
PROPERTIES
    AcceptedIsResolved
