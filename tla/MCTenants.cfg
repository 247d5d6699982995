SPECIFICATION Spec

CONSTANTS
    root = root
    olga = olga
    mira = mira
    w1 = w1
    w2 = w2
    w3 = w3
    q1 = q1
    q2 = q2
    NoOne = NoOne
    Users = {root, olga, mira}
    Spaces = {w1, w2, w3}
    Requests = {q1, q2}
    Admins = {root}
    InitialMembers <- MCMembers
    Ops = {"found", "suspend space", "restore space", "suspend user", "restore user", "promote", "demote", "create", "get", "rename", "delete", "upload"}
    MaxRequests = 3
    MaxOverlapping = 3
    MaxFaults = 1

INVARIANTS
    TransactionsAreWhole
PROPERTIES
    ChangesTakeEffect
