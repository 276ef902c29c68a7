CONSTANTS
    r1 = r1
    Months = {1, 2}
    LastMonth = 4
    Keeps = {1, 2}
    Keys = 1
    CHUNK = 1
    BUDGET = 2
    Reader = {r1}
    Isolation = "read committed"
    MaxFaults = 2
SPECIFICATION FairSpec
INVARIANTS
    WaitIsBounded
    RecordsTellTruth
    ReadsAreWhole
PROPERTIES
    ImplementsRetention
    CleanupEnds
    CleanedIsFinished
