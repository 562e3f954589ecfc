SPECIFICATION Spec
CONSTANTS
    ContentLength = 9
    MaxLength = 15
    SizeMod = 64
    IsClient = TRUE
    Strict = FALSE
    Inputs = {1, 8}
    Blocks = {4}
    CanFail = TRUE
    CanExpire = FALSE
INVARIANT NoGap
CHECK_DEADLOCK FALSE
