SPECIFICATION Spec
CONSTANTS
    own = own
    k1 = k1
    k2 = k2
    nokey = nokey
    unspec = unspec
    junk = junk
    Key <- MCKey
    NoKey = nokey
    OwnKey <- MCOwnKey
    Rtr <- MCRtr
    Unspecified = unspec
    SeqMax = 65535
    MaxHopCount = 255
    SeqNums <- MCSeqNums
    Metrics = {0, 1}
    NEntries = 2
    MaxSeqnumLifetime = 1
    MaxTime = 3
INVARIANTS OneEntryPerForeignKey RetransmissionRedundant
PROPERTIES SeqnumNeverRewinds
SYMMETRY MCSymmetry
CHECK_DEADLOCK FALSE
