SPECIFICATION Spec
CONSTANTS
    Ids = {1, 2}
    MaxVersion = 2
    MaxCalls = 4
    MaxChunks = 1
    Workers = {w1, w2}
    Calls = {"add", "vectors", "batch", "file", "update", "revise", "delete", "reindex", "sync"}
    Events = {"crash", "failure"}
SYMMETRY WorkerSymmetry
INVARIANTS
    EmbeddedIsFound
    DeletedIsGone
    RecordsHaveTheirChunks
CHECK_DEADLOCK FALSE
