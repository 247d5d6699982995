SPECIFICATION Spec

CONSTANTS
    c1 = c1
    c2 = c2
    w1 = w1
    w2 = w2
    p1 = p1
    p2 = p2
    NoCall = NoCall
    Calls = {c1}
    Workers = {w1, w2}
    ProcOf <- TwoProcesses
    Faults = {"db", "storage", "redis", "request", "provider", "lease", "crash"}
    HasPlaybook = TRUE
    MaxRetry = 1
    MaxShutdowns = 0

INVARIANTS
    CheckpointsPersisted
    AcceptedIsDurable
    QueuedHasAudio
    DoneMeansCompleted
    MessageMeansFailed
PROPERTIES
    CompletedIsFinal
