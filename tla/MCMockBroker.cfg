CONSTANTS
    p1 = p1
    p2 = p2
    s1 = s1
    s2 = s2
    c1 = c1
    c2 = c2
    Publishers = {p1, p2}
    Subscribers = {s1, s2}
    Calls = {c1, c2}
    Owner <- OwnPublishers
    Durable <- LiveReader
    QosDepth <- Depths
    Capacity = 2
    Policy = "DropNewest"
    MaxWrites = 3
SPECIFICATION Spec
INVARIANTS
    OneOrder
    NoGapOnJoin
    DeliveriesCounted
CHECK_DEADLOCK FALSE
