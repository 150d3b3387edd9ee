SPECIFICATION HSpec
CONSTANTS
    Sec = 1
    Durations = {1}
    MaxOpenShards = 2
    Clients = {}
    Early = {a1}
    Late = {b1}
    Times <- MCTimes
    Records <- MCRecords
    TimeOf <- MCTimeOf
    Workers = {w1, w2}
    Instances = {1, 2, 3, 4}
    Kinds = {"add", "batch", "delete", "search"}
    Events = {"sync", "stop"}
SYMMETRY NameSymmetry
INVARIANTS
    AckedIsFound
    DeletedIsGone
