CONSTANTS
    HistoryDepth = 2
    MaxReorderAhead = 1
    AckWindow = 2
    Calls = {w1, w2}
    Readers = {r1}
    Loops = {uni, mc}
    Multicast = TRUE
    Keep = TRUE
    MaxSeq = 3
    MaxOverlap = 3
SPECIFICATION Spec
INVARIANTS
    WatermarkSound
    ReorderBounded
    AckedSound
    HistoryWindow
    RequestsAnswerable
    
SYMMETRY Symmetry
CONSTRAINT Tractable
CHECK_DEADLOCK FALSE
