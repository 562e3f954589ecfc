SPECIFICATION Spec
CONSTANTS
    MaxItems <- TwoEach
    Sessions = 1
    NConns = 7
    Capacity = 9
    Backlog = 1
    EndChoices = {{"htc", "hts"}}
    Ages = TRUE
    Hangups = {}
    KeepAlives = {"htc"}
    Timeouts = TRUE
    Faults = 1
INVARIANTS TypeOK Ordered
CHECK_DEADLOCK FALSE
