SPECIFICATION Spec
CONSTANTS
    Threads = {t1, t2}
    Hour = 2
    MaxTime = 3
    Levels = {2, 4}
    MAX_CALLBACKS = 2
    NULL = null
SYMMETRY ThreadSymmetry
INVARIANTS
    StampsExplained
    SinksGetTheirEvents
