SPECIFICATION FairSpec
CONSTANTS
    MaxItems <- OneEach
    Sessions = 1
    NConns = 6
    Capacity = 9
    Backlog = 1
    EndChoices = {{"hts"}}
    Ages = FALSE
    Hangups = {"htc"}
    KeepAlives = {"htc", "hts"}
    Timeouts = TRUE
    Faults = 0
PROPERTIES CloseIsHeard
CHECK_DEADLOCK FALSE
