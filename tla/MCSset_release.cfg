SPECIFICATION Spec
CONSTANTS
    n1 = n1
    n2 = n2
    n3 = n3
    n4 = n4
    Nodes <- MCNodes
    Hash <- MCHash
    NULL = null
    NDEBUG = TRUE
INVARIANTS
    AssertingCallsDoTheirWork
CHECK_DEADLOCK FALSE
