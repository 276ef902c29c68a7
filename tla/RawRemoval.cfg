CONSTANTS
    f1 = f1
    f2 = f2
    f3 = f3
    s1 = s1
    File = {f1, f2, f3}
    Stray = {s1}
    MaxEdits = 2
    MaxStops = 3
SPECIFICATION FairSpec
INVARIANTS
    RowsAreExact
PROPERTIES
    OnlyImportedGoes
    MarkerGoesLast
    ChangesAreReported
    DeletionFinishes
