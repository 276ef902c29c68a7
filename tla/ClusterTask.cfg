CONSTANTS
    c1 = c1
    c2 = c2
    None = None
    Command = {c1, c2}
    Mode <- PublishModes
    Mortal = {c2}
    Tries = 2
SPECIFICATION FairSpec
INVARIANTS
    WritesUnderLease
    CurrentVersionSound
    OneBlockPerFailure
    SuccessMeansPublished
    AdmissionSettles
PROPERTIES
    BuildEndsOnce
    ImplementsVersionLine
    LeaseComesFree
    WatchedBuildSettles
CHECK_DEADLOCK FALSE
