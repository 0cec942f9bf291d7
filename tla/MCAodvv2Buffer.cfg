SPECIFICATION Spec
CONSTANTS
    p1 = p1
    p2 = p2
    p3 = p3
    d1 = d1
    d2 = d2
    Pkts <- MCPkts
    Dsts <- MCDsts
    DstOf <- MCDstOf
    Null = null
    Unspecified = unspec
    NSlots = 2
INVARIANT HandsOverOwnedOnly
PROPERTIES DispatchTerminates
