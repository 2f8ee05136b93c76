SPECIFICATION Spec
CONSTANTS
    Ifaces = {i1, i2}
    Odd = {i2}
    MaxFaults = 0
    NULL = null
INVARIANTS
    NoUnlockedSharing
CHECK_DEADLOCK FALSE
