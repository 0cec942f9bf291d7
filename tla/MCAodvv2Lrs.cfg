SPECIFICATION Spec
CONSTANTS
    d1 = d1
    d2 = d2
    d3 = d3
    n1 = n1
    unspec = unspec
    Addr <- MCAddr
    Unspecified = unspec
    SeqMax = 65535
    MaxHopCount = 255
    NSlots = 2
    ActiveInterval = 1
    MaxIdleTime = 2
    MaxSeqnumLifetime = 4
    MaxTime = 8
    Nodes <- MCNodes
INVARIANT TimersConsistent
PROPERTIES SeqnumRemembered DeleteForgets KeepsRoutes
CHECK_DEADLOCK FALSE
