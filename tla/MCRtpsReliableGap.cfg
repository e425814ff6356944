CONSTANTS
    HistoryDepth = 1
    MaxReorderAhead = 1
    AckWindow = 2
    Calls = {w1}
    Readers = {r1}
    Loops = {uni}
    Multicast = FALSE
    Keep = FALSE
    MaxSeq = 2
    MaxOverlap = 2
SPECIFICATION FairSpec
PROPERTY GapAdvancesReader
CHECK_DEADLOCK FALSE
