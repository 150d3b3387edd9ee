SPECIFICATION Spec
CONSTANTS
    Wild = "*"
    Lines <- MCBlank
    MaxChildren = 1
    Workers = {w1, w2}
    Width = 1
    Lookback = 0
    LoadWindow = 0
    MaxTime = 0
    MaxCalls = 2
    MaxBatch = 2
    MaxEvents = 0
    Events = {}
SYMMETRY WorkerSymmetry
INVARIANTS
    DocumentsAreStored
CHECK_DEADLOCK FALSE
