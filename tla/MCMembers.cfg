SPECIFICATION Spec

CONSTANTS
    o1 = o1
    o2 = o2
    o3 = o3
    s1 = s1
    s2 = s2
    k1 = k1
    k2 = k2
    m1 = m1
    n1 = n1
    n2 = n2
    u1 = u1
    u2 = u2
    u3 = u3
    u4 = u4
    u5 = u5
    u6 = u6
    r1 = r1
    r2 = r2
    NoMember = NoMember
    Members = {o1, o2, o3, s1, s2, k1, k2, m1, n1, n2}
    UserOf <- MCUserOf
    InitialRows <- OneReport
    Requests = {r1, r2}
    Inputs <- AllInputs
    MaxRequests = 3
    Overlapping <- RaceInputs
    MaxOverlapping = 2
    Crowded <- CrowdInputs

INVARIANTS
    TableHolds
PROPERTIES
    RankIsProtected
    ImplementsRoster
    Answered
