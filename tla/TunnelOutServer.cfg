SPECIFICATION FairSpec
CONSTANTS
    ContentLength = 12
    MaxLength = 15
    SizeMod = 64
    IsClient = FALSE
    Strict = FALSE
    Inputs = {1, 10}
    Blocks = {4}
    CanFail = TRUE
    CanExpire = FALSE
INVARIANTS
    FullIsExact
    WriteCountExact
PROPERTY OperationEnds
CHECK_DEADLOCK FALSE
