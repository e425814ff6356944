CONSTANTS
    Pushers = {p1}
    Receivers = {r1}
    Closers = {c1}
    Capacity = 1
    Policy = "DropNewest"
    WatcherOn = FALSE
    MaxPush = 2
SPECIFICATION FairSpec
PROPERTY RecvReturnsAfterClose
CHECK_DEADLOCK FALSE
