SPECIFICATION Spec
CONSTANTS
    SeqMax = 65535
    Prefix <- MCPrefix
    Host <- MCHost
    ZeroPrefix = "0"
    ZeroHost = "0"
    Routers <- MCLine
    Link <- MCLineLink
    LinkLocal <- MCLinkLocal
    Clients <- MCPrefixes
    Wanted <- MCOneWay
    StackRtr <- MCStackRtr
    NoHop = null
    NSlots = 3
    NEntries = 3
    QueueSize = 2
    BufferSize = 2
    NibSize = 3
    MaxDiscoveries = 2
    MaxHopCount = 5
INVARIANTS RreqHopsAccounted NibServesLrs NextHopCarriesOn RrepHasNextHop
CHECK_DEADLOCK FALSE
