SPECIFICATION FairSpec
CONSTANTS
    Ids = {r1, r2}
    Times = {1, 2}
    CallerIds = {r1}
    Workers = {w1, w2}
    Calls = {"add", "secondary", "duplicate", "search", "vector", "delete"}
    Capacity = 1
    Ttl = 1
INVARIANTS
    CacheBounded
    EntriesAreCurrent
PROPERTIES
    DeletedFades
    SecondariesShowUp
CHECK_DEADLOCK FALSE
