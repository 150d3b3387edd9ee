SPECIFICATION Spec
CONSTANTS
    Sec = 2
    Durations = {4, 6}
    MaxOpenShards = 2
    Clients = {c1}
    MaxList = 4
    Times = {0, 1, 3, 4, 6, 8}
CONSTRAINT ListBound
INVARIANTS
    CacheBounded
    OpenIsEvictable
    JustUsedIsOpen
    OpenIsRegistered
    ShardsDisjoint
    SpanCollectsOverlap
PROPERTIES
    StableRouting
