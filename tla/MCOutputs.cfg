SPECIFICATION Spec
CONSTANTS
    s1 = s1
    s2 = s2
    p1 = p1
    p2 = p2
    p3 = p3
    k1 = k1
    k2 = k2
    Forward = forward
    Cookies = {c1}
    NoCookie = none
    Sessions <- MCSessions
    MsgPrefixes <- MCPrefixes
    Sockets <- MCSockets
SYMMETRY Symmetry
INVARIANTS
    RunsGrouped
    ListsMirror
PROPERTY
    OutputTableSpec
