SPECIFICATION FairSpec
CONSTANTS
    h1 = h1
    h2 = h2
    out = out
    Hybis <- MCHybis
    Forward = forward
    Named = {out}
    Capacity = 1
    Hwm = 2
    MaxEvents = 4
    MaxBeats = 1
INVARIANTS
    TypeOK
    RefcntExact
    Fifo
    SessionProtocol
    NoLostWakeup
PROPERTIES
    PausedIsSilent
    EventuallyDelivered
