SPECIFICATION Spec
CONSTANTS
    s1 = s1
    r1 = r1
    r2 = r2
    r3 = r3
    r4 = r4
    r5 = r5
    NULL = NULL
    Sessions <- OneSession
    Requests <- FiveRequests
    QueueLimit = 2
    OutFormats = {"single"}
    RefusedOn = {"POST"}
    Limits <- NoLimit
    AckedOn = {"GET", "BIDI", "POST", "CLOSE"}
    HonestAcks = TRUE
    PollsExpireFirst = TRUE
    MaxMessages = 2
INVARIANT
    NoAssertionFails
CHECK_DEADLOCK FALSE
