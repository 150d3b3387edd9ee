SPECIFICATION Spec
CONSTANTS
    Wild = "*"
    Lines <- MCLines
    MaxChildren = 1
    Workers = {w1, w2}
    Width = 1
    Lookback = 0
    LoadWindow = 0
    MaxTime = 1
    MaxCalls = 2
    MaxBatch = 2
    MaxEvents = 1
    Events = {"restart", "delete", "failure"}
SYMMETRY WorkerSymmetry
INVARIANTS
    LinesAreReported
    MapIsCurrent
    ParsedAreKnown
CHECK_DEADLOCK FALSE
