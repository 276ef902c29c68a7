CONSTANTS
    Clusters = 1
    Day = {1}
    Views <- Looks
    Off = {"build", "raw"}
    MaxRuns = 2
    MaxStops = 0
SPECIFICATION Spec
PROPERTY ProblemsStay
CHECK_DEADLOCK FALSE
