CONSTANTS
    i1 = i1
    i2 = i2
    tr = tr
    pe = pe
    none = none
    unreliable = unreliable
    Importer = {i1, i2}
    Trainer = tr
    People = pe
    Pages <- Files
    RuleOf <- Rules
    Value <- Values
    Unreliable = unreliable
    Sid = {1, 2}
    LaterEnd = 3
    None = none
    MaxFaults = 1
SPECIFICATION FairSpec
INVARIANTS
    ProjectionIsExact
    TextsAreUnique
PROPERTY WritersEnd
CHECK_DEADLOCK FALSE
