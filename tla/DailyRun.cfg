CONSTANTS
    Clusters = 1
    Day = {1, 2}
    Views <- Looks
    Off = {"build"}
    MaxRuns = 2
    MaxStops = 2
SPECIFICATION Spec
INVARIANTS
    OpenIsLastConclusion
    SuccessIsWhole
CHECK_DEADLOCK FALSE
