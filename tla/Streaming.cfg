\* Streaming.  Deadlock is not checked: the system stops when the user has
\* called Play MaxPlays times and nothing plays, and Stop may wait for ever.
CONSTANTS
    CBuf = 2
    BufSize = 3
    MetaUnit = 1
    Streams <- BothStreams
    PreBuf = 2
    ReadSizes = {2}
    OutBufs = 2
    OutPre = 2
    MaxPlays = 2
SPECIFICATION FairSpec
CHECK_DEADLOCK FALSE
INVARIANTS
    TypeOK
    EventsTrue
    BuffersConserved
    TakenIsThere
    AudioInOrder
PROPERTIES
    
    EndNoticed
