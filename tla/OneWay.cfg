SPECIFICATION FairSpec
CONSTANTS
    MaxItems <- OneEach
    Sessions = 1
    NConns = 6
    Capacity = 9
    Backlog = 1
    EndChoices = {{"htc"}, {"hts"}}
    Ages = FALSE
    Hangups = {"htc", "hts"}
    KeepAlives = {"htc"}
    Timeouts = FALSE
    Faults = 2
INVARIANTS TypeOK NeverRejected
PROPERTIES DataPathSpec Delivered ServerCloses ClientCloses
CHECK_DEADLOCK FALSE
