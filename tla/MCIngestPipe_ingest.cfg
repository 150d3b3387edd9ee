SPECIFICATION FairSpec
CONSTANTS
    Docs = {d1, d2, d3}
    Bad = {d3}
    Blank = {d2}
    Clients = {c1, c2}
    Capacity = 1
    BatchSize = 2
    MaxDocs = 2
    MaxLog = 6
INVARIANTS
    Conveyed
    AcceptedAreStored
PROPERTIES
    ImplementsLog
    AcceptedGetStored
    ShutdownEnds
CHECK_DEADLOCK FALSE
