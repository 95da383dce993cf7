SPECIFICATION FairSpec
CONSTANTS
    r1 = r1
    r2 = r2
    r3 = r3
    NULL = NULL
    WILD = WILD
    Objects <- ThreeRequests
    Max = 2
    Modes = {"RetryFirst", "RetryLast", "NoTimeout"}
    RetryCount = 2
    Hwm = 1
INVARIANTS
    OneOwnResponse
    RefcntExact
    OnlyWaitingTracked
PROPERTY
    EventuallyAnswered
CHECK_DEADLOCK FALSE
