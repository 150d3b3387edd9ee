SPECIFICATION SplitSpec
CONSTANTS
    Inputs <- SmallInputs
    MaxAtoms = 4
    MaxLen = 4
    MaxChars = 3
INVARIANTS
    TextIsCovered
    ChunksAreBounded
CHECK_DEADLOCK FALSE
