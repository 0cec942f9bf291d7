SPECIFICATION Spec
CONSTANTS
    Width = 2
    NSlots = 2
    Threads <- MCThreads
    Prio <- MCPrio
    Adders <- MCAdders
    Deleters <- MCDeleters
    Seekers <- MCSeekers
INVARIANTS DeleteHitsItsMatch SeekerReadsItsClient DuplicatesBounded
