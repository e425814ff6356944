CONSTANTS
    a = a
    b = b
    p1 = p1
    p2 = p2
    s1 = s1
    c1 = c1
    c2 = c2
    Procs = {a, b}
    Publishers = {p1, p2}
    Subscribers = {s1}
    Calls = {c1, c2}
    Home <- Homes
    DurablePublishers = {p1, p2}
    Loaners = {p2}
    Capacity = 1
    Policy = "DropNewest"
    BufSize = 2
    MaxPooled = 1
    MaxWrites = 3
    MaxOverlap = 2
SPECIFICATION Spec
SYMMETRY Symmetry
INVARIANTS
    WriterOrder
    VolatileFresh
    WholeUnlessRaced
    LoanServed
CHECK_DEADLOCK FALSE
