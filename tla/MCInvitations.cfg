SPECIFICATION Spec

CONSTANTS
    i1 = i1
    i2 = i2
    i3 = i3
    anna = anna
    boris = boris
    q1 = q1
    q2 = q2
    NoOne = NoOne
    Invites = {i1, i2, i3}
    Guests = {anna, boris}
    Registered = {boris}
    Requests = {q1, q2}
    Ops = {"invite", "revoke", "info", "accept", "register", "remove", "login", "refresh"}
    MaxRequests = 3
    MaxFaults = 1

INVARIANTS
    RowsHold
PROPERTIES
    ImplementsAdmissions
