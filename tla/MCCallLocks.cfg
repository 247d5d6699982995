SPECIFICATION FairSpec

CONSTANTS
    Goroutines = {g1, g2, g3}
    Calls = {c1, c2}
    Entries = {e1, e2, e3}
    None = None

INVARIANTS
    EntriesAreCounted
PROPERTIES
    ImplementsMutex
    LockReturns
