SPECIFICATION Spec

CONSTANTS
    NoRow = NoRow
    Sessions = {s0, s1, s2, s3}
    Tokens = {t1, t2, t3}
    Requests = {r1, r2}
    InitialAccounts <- EitherAccount
    InitialSessions = {s0}
    Ops = {"login", "register", "resend", "confirm", "forgot", "reset", "refresh", "logout", "bootstrap", "suspend", "restore", "promote", "demote"}
    MaxRequests = 3
    MaxFaults = 1

INVARIANTS
    RowsHold
    ResetEndsSessions
PROPERTIES
    BootstrapMakesAdmin
    ImplementsChains
