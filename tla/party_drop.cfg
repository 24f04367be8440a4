SPECIFICATION Spec
CONSTANTS
    u1 = u1
    u2 = u2
    u3 = u3
    u4 = u4
    u5 = u5
    p1 = p1
    p2 = p2
    z1 = z1
    z2 = z2
    NoOne = NoOne
    User <- MCFour
    Party <- MCTwoParties
    Zone <- MCOneZone
    Home <- MCTogether
    Capacity = 3
    CanDrop <- MCFour
    CanQuit <- MCNone
SYMMETRY SymUsers
CHECK_DEADLOCK FALSE
INVARIANTS
    PartiesAgree
    NoDangling
