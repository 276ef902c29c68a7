CONSTANTS
    Unit = {"timer", "web"}
    MaxApplies = 2
    MaxRuns = 2
    MaxFaults = 3
    MaxBoots = 1
SPECIFICATION FairSpec
INVARIANTS
    NothingLost
    OnlyFitting
    ClosedIsTrue
PROPERTY UpgradeSettles
CHECK_DEADLOCK FALSE
