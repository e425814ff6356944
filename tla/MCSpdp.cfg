CONSTANTS
    Participants = {a, b}
    Period = 2
    Jitter = 1
    Lease = 6
SPECIFICATION FairSpec
INVARIANT TypeOK
PROPERTIES
    EvictionJustified
    ImplementsPeerTable
    DeadPeersLeave
    PeersHeard
CHECK_DEADLOCK FALSE
