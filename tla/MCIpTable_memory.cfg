SPECIFICATION Spec
CONSTANTS
    Names = {i1, i2, lo}
    Interfaces = {i1, i2}
    Addrs = {a1, a2}
    MaxRows = 3
    MaxRounds = 1
    NULL = null
INVARIANTS
    RecordsFreed
CHECK_DEADLOCK FALSE
