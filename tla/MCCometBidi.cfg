SPECIFICATION FairSpec
CONSTANTS
    s1 = s1
    r1 = r1
    r2 = r2
    r3 = r3
    r4 = r4
    r5 = r5
    NULL = NULL
    Sessions <- OneSession
    Requests <- FourRequests
    QueueLimit = 2
    OutFormats = {"single"}
    RefusedOn = {"POST", "BIDI"}
    Limits <- NoLimit
    AckedOn = {"GET", "BIDI", "CLOSE"}
    HonestAcks = TRUE
    PollsExpireFirst = TRUE
    MaxMessages = 2
PROPERTY
    SessionsEnd
CHECK_DEADLOCK FALSE
