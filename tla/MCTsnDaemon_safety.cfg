SPECIFICATION Spec
CONSTANTS
    Ifaces = {i1, i2}
    Addrs = {a1}
    Bridges = {b1}
    Chassis = chassis
    Deaf = {i2}
    FdLimit = 2
    None = none
    MaxFaults = 1
    MaxRefusals = 2
INVARIANTS
    TypeOK
    HomeDatastore
    StoreSeparation
    CarryOver
    NothingPendingWithoutFailure
    StaleConfigNeedsTwoFailures
PROPERTIES
    PoisonFreezesRunning
    SettledConfigStays
