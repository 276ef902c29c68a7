CONSTANTS
    Push = {1, 2}
    File = {1, 2, 3}
    DayOf <- Named
    Size = {1, 2}
    Unsteady = {2}
    Absent = absent
    Part = part
    MaxChanges = 1
    MaxCuts = 1
SPECIFICATION FairSpec
PROPERTIES
    ImplementsSealedDays
    NothingUnreceivedGoes
    PushIsReceived
