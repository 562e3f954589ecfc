SPECIFICATION FairSpec
CONSTANTS
    ContentLength = 12
    MaxLength = 7
    SizeMod = 64
    IsClient = TRUE
    Strict = TRUE
    Inputs = {1, 10}
    Blocks = {4, 16}
    CanFail = TRUE
    CanExpire = TRUE
INVARIANTS
    TypeOK
    FullIsExact
    OvershootBounded
    WriteCountExact
    PadAligned
    StrictCloseFills
PROPERTY OperationEnds
CHECK_DEADLOCK FALSE
