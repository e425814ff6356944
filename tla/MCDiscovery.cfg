CONSTANTS
    a = a
    b = b
    w = w
    r = r
    Participants = {a, b}
    Writers = {w}
    Readers = {r}
    Owner <- MCOwner
    Topic <- MCTopic
    NoWriter = NoWriter
SPECIFICATION FairSpec
INVARIANTS
    TypeOK
    NoMissedMatch
    NoMissedAnnouncement
PROPERTIES
    Discovered
CHECK_DEADLOCK FALSE
