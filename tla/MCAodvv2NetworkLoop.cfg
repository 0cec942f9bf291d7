SPECIFICATION Spec
CONSTANTS
    SeqMax = 65535
    Prefix <- MCPrefix
    Host <- MCHost
    ZeroPrefix = "0"
    ZeroHost = "0"
    Routers <- MCStar
    Link <- MCStarLink
    LinkLocal <- MCLinkLocal
    Clients <- MCClients
    Wanted <- MCOneWay
    StackRtr <- MCStackRtr
    NoHop = null
    NSlots = 2
    NEntries = 3
    QueueSize = 2
    BufferSize = 2
    NibSize = 3
    MaxDiscoveries = 1
    MaxHopCount = 5
INVARIANT LoopFree
CHECK_DEADLOCK FALSE
