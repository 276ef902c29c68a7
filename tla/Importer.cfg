CONSTANTS
    b1 = b1
    b2 = b2
    p1 = p1
    p2 = p2
    c1 = c1
    c2 = c2
    c3 = c3
    k = k
    Batch = {b1, b2}
    Path = {p1, p2}
    Content = {c1, c2, c3}
    Torn = torn
    Manifests <- TwoLists
    Key <- Named
    Delivered <- FirstGiven
    NoKey = nokey
    Overlap <- OnePair
    MaxEdits = 1
    MaxFaults = 1
SPECIFICATION FairSpec
INVARIANTS
    MembersStay
    ImportedAreDistinct
PROPERTIES
    CompleteIsWhole
    BatchSettles
