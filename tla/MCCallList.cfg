SPECIFICATION ListSpec

CONSTANTS
    olga = olga
    sven = sven
    mira = mira
    NoOne = NoOne
    Users = {olga, sven, mira}
    InitialTeam <- MCTeam
    Readers = {sven}
    MaxCalls = 3
    MaxChanges = 1
    DefaultSize = 1
    MaxSize = 2

INVARIANTS
    NothingSkipped
    ScopesAgree
PROPERTIES
    PagesStayInScope
