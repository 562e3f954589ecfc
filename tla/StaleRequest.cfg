SPECIFICATION Spec
CONSTANTS
    MaxItems <- OneEach
    Sessions = 2
    NConns = 6
    Capacity = 9
    Backlog = 1
    EndChoices = {{}}
    Ages = FALSE
    Hangups = {"htc", "hts"}
    KeepAlives = {}
    Timeouts = FALSE
    Faults = 0
INVARIANTS OpenFirst
CHECK_DEADLOCK FALSE
