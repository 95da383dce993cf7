SPECIFICATION FairSpec
CONSTANTS
    NULL = NULL
    WILD = WILD
    Objects = {1, 2, 3}
    Others = {3}
    Threads = {1, 2}
    Max = 2
    WritesPerSecond = 1
    MaxWrites = 2
INVARIANTS
    TypeOK
    SieveExact
    RefcntExact
    NoAssertionFails
    NoLostWakeup
    Fresh304
PROPERTIES
    EventuallyAnswered
    StopEnds
CHECK_DEADLOCK FALSE
