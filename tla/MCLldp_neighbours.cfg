SPECIFICATION Spec
CONSTANTS
    Ports = {p1, p2}
    Elements <- MCElements
    Epoch = 1000000
    Durations <- MCDurations
    MaxTicks = 3
    MaxRequests = 2
    NULL = null
INVARIANTS
    TypeOK
    NoLeak
    MarkDrift
    CrashNeedsCause
    NeighboursAnswered
SYMMETRY MCSymmetry
CHECK_DEADLOCK FALSE
