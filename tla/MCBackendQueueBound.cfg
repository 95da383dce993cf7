SPECIFICATION Spec
CONSTANTS
    h1 = h1
    h2 = h2
    out = out
    Hybis <- MCHybis
    Forward = forward
    Named = {out}
    Capacity = 1
    Hwm = 1
    MaxEvents = 6
    MaxBeats = 0
INVARIANT
    QueueBounded
