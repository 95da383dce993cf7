SPECIFICATION Spec
CONSTANTS
    s1 = s1
    r1 = r1
    r2 = r2
    r3 = r3
    r4 = r4
    r5 = r5
    NULL = NULL
    Sessions <- OneSession
    Requests <- FourRequests
    QueueLimit = 2
    OutFormats = {"single", "jsonlist"}
    RefusedOn = {"POST"}
    Limits <- SmallLimits
    AckedOn = {"GET", "BIDI", "CLOSE"}
    HonestAcks = TRUE
    PollsExpireFirst = TRUE
    MaxMessages = 2
INVARIANT
    Reliable
CHECK_DEADLOCK FALSE
