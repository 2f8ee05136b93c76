SPECIFICATION Spec
CONSTANTS
    Ifaces = {i1, i2}
    Odd = {i2}
    MaxFaults = 0
    NULL = null
INVARIANTS
    CrashNeedsCause
    AnswersComplete
PROPERTIES
    WarmListIsStable
CHECK_DEADLOCK FALSE
