SPECIFICATION Spec

CONSTANTS
    b1 = b1
    b2 = b2
    b3 = b3
    b4 = b4
    b5 = b5
    n1 = n1
    n2 = n2
    NoName = NoName
    greeting = greeting
    closing = closing
    upsell = upsell
    spaced = spaced
    Blank = Blank
    Keys = {greeting, closing, upsell, spaced, Blank}
    Trim <- MCTrim
    BuiltIn = {greeting, closing}
    Maximum <- MCMaximum
    ColumnMax <- MCColumnMax
    TotalMax = 3
    Lists <- MCLists
    Scores <- MCScores
    Books = {b1, b2, b3, b4, b5}
    Names = {n1, n2}
    InitialRows <- TwoBooks
    Requests = {r1, r2}
    Inputs <- MCInputs
    MaxRequests = 2
    Overlapping <- Flags
    MaxOverlapping = 3
    MaxEdits = 1

INVARIANTS
    RowsHold
    CallsShowTheirScore
PROPERTIES
    ImplementsCatalogue
    Answered
