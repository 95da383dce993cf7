SPECIFICATION Spec
CONSTANTS
    r1 = r1
    r2 = r2
    r3 = r3
    NULL = NULL
    WILD = WILD
    Objects <- TwoRequests
    Max = 2
    Modes = {"RetryLast"}
    RetryCount = 2
    Hwm = 2
SYMMETRY Symmetry
INVARIANT
    LastAttemptUsed
CHECK_DEADLOCK FALSE
