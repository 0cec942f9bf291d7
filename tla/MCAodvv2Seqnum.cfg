SPECIFICATION Spec
CONSTANTS
    SeqMax = 7
    Threads <- MCThreads
    Prio <- MCPrio
    Reporters <- MCReporters
INVARIANTS OverflowBounded
PROPERTIES ZeroOnlyDuringWrap OverflowRepaired
