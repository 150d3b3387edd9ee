SPECIFICATION Spec
CONSTANTS
    Contents = {1, 2, 4}
    Similar <- MCSimilar
    Ids = {r1, r2, r3}
    CallerIds = {}
    Workers = {w1, w2}
    MaxBatch = 2
    MaxLog = 2
    Deletes = TRUE
    Crashes = TRUE
SYMMETRY Symmetry
INVARIANTS
    NoSimilarPrimaries
    RecordsAreReachable
    StoredOnce
    LoggedIsStored
