SPECIFICATION Spec
CONSTANTS
    ContentLength = 9
    MaxLength = 3
    SizeMod = 32
    IsClient = TRUE
    Strict = TRUE
    Inputs = {1, 3}
    Blocks = {4}
    CanFail = FALSE
    CanExpire = TRUE
INVARIANT Framed
CHECK_DEADLOCK FALSE
