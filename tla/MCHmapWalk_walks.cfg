SPECIFICATION FairSpec
CONSTANTS
    n1 = n1
    n2 = n2
    n3 = n3
    n4 = n4
    n5 = n5
    Nodes <- MCNodes
    Hash <- MCHash
    NULL = null
    Reservations = {8}
INVARIANTS
    TypeOK
    LoadBounded
    VisitedExactlyOnce
    PositionsFollowTraversal
PROPERTIES
    ImplementsSet
    WalkTerminates
