SPECIFICATION Spec
CONSTANTS
    ContentLength = 9
    MaxLength = 15
    SizeMod = 64
    IsClient = TRUE
    Strict = TRUE
    Inputs = {1, 3}
    Blocks = {4}
    CanFail = FALSE
    CanExpire = TRUE
INVARIANT StrictLength
CHECK_DEADLOCK FALSE
