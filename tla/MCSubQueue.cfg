CONSTANTS
    Pushers = {p1, p2}
    Receivers = {r1}
    Closers = {c1}
    Capacity = 2
    Policy = "DropOldest"
    WatcherOn = TRUE
    MaxPush = 3
SPECIFICATION FairSpec
INVARIANTS
    TypeOK
    NoMissedWakeup
    StrandedBound
PROPERTIES
    ImplementsChannel
    SamplesLeaveQueue
    WatcherEnds
CHECK_DEADLOCK FALSE
