SPECIFICATION Spec
CONSTANTS
    Files <- MCFiles
    Repeated <- MCRepeated
    Runners = {r1, r2}
    MaxStarts = 4
    MaxFaults = 2
INVARIANTS
    RecordedIsApplied
PROPERTIES
    ImplementsUpgrade
    Settles
