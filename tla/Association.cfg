CONSTANTS
    s1 = s1
    s2 = s2
    s3 = s3
    s4 = s4
    a = a
    b = b
    none = none
    Session = {s1, s2, s3, s4}
    Nameless = {s4}
    Sql = {a, b}
    Announced = {a}
    Moment = {1, 2}
    max_sessions = 2
    None = none
    MaxCalls = 3
SPECIFICATION ReaderSpec
INVARIANTS
    AssociationIsExact
SYMMETRY Alike
CHECK_DEADLOCK FALSE
