SPECIFICATION Spec
CONSTANTS
    MaxItems <- TwoUpOneDown
    Sessions = 1
    NConns = 6
    Capacity = 9
    Backlog = 1
    EndChoices = {{"htc", "hts"}}
    Ages = FALSE
    Hangups = {}
    KeepAlives = {"htc"}
    Timeouts = FALSE
    Faults = 0
INVARIANTS NoGap
CHECK_DEADLOCK FALSE
