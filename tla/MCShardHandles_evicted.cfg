SPECIFICATION HSpec
CONSTANTS
    Sec = 1
    Durations = {1}
    MaxOpenShards = 1
    Clients = {}
    Early = {a1, a2}
    Late = {b1}
    Times <- MCTimes
    Records <- MCRecords
    TimeOf <- MCTimeOf
    Workers = {w1, w2}
    Instances = {1, 2, 3}
    Kinds = {"batch"}
    Events = {"sync", "close", "crash"}
SYMMETRY NameSymmetry
INVARIANTS
    IndexedHaveRows
PROPERTIES
    VectorsStayFound
