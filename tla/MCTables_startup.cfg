SPECIFICATION TablesSpec
CONSTANTS
    Names = {i1, i2, lo}
    Interfaces = {i1, i2}
    Addrs = {a1, a2}
    MaxRows = 3
    MaxRounds = 2
    Vids = {1, 2}
    Slots = 2
    MaxEntries = 3
    NULL = null
    BAD = bad
INVARIANTS
    EveryRowSaved
    TablesInOrder
    PlainBecomeComponents
CHECK_DEADLOCK FALSE
