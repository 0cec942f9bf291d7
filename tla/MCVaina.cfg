SPECIFICATION Spec
CONSTANTS
    Width = 2
    IpSize = 16
    Ips <- MCIps
    PfxLens <- MCPfxLens
    SeqLimit = 3
    RcsSlots = 1
    NibSlots = 1
    MaxRequests = 3
    MaxRestarts = 1
INVARIANTS PendingCoversAnswers
PROPERTY KeepsPromise
CHECK_DEADLOCK FALSE
