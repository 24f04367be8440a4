SPECIFICATION Spec
CONSTANTS
    u1 = u1
    u2 = u2
    u3 = u3
    u4 = u4
    u5 = u5
    p1 = p1
    p2 = p2
    z1 = z1
    z2 = z2
    NoOne = NoOne
    User <- MCFive
    Party <- MCOneParty
    Zone <- MCOneZone
    Home <- MCTogether
    Capacity = 3
    CanDrop <- MCNone
    CanQuit <- MCFive
SYMMETRY SymUsers
CHECK_DEADLOCK FALSE
INVARIANTS
    TypeOK
    NoCrash
    PartiesAgree
    PoolExact
    NoDangling
PROPERTIES
    RightOneOut
