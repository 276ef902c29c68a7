CONSTANTS
    r1 = r1
    Months = {1, 2}
    LastMonth = 4
    Keeps = {1, 2}
    Keys = 1
    CHUNK = 1
    BUDGET = 2
    Reader = {r1}
    Isolation = "repeatable read"
    MaxFaults = 0
SPECIFICATION Spec
INVARIANT ReadsAreWhole
