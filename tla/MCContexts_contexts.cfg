SPECIFICATION Spec
CONSTANTS
    Names = {n1, n2}
    Calls = {c1, c2, c3}
    Ttl = 2
    ScanEvery = 1
    MaxTime = 7
SYMMETRY Interchangeable
INVARIANTS
    Serialised
    SessionsLast
CHECK_DEADLOCK FALSE
