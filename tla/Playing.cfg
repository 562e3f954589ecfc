\* Playing.  Deadlock is not checked: the player stops when the user calls
\* nothing, and two threads may wait for each other.
CONSTANT CBuf = 2
SPECIFICATION FairSpec
CHECK_DEADLOCK FALSE
INVARIANTS
    TypeOK
    EventTrue
    RingTrue
    FreshOnly
    StatusTrue
PROPERTIES
    
    PlaybackEnds
