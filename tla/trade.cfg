SPECIFICATION Spec
CONSTANTS
    u1 = u1
    u2 = u2
    i1 = i1
    i2 = i2
    null = null
    User <- MCUser
    Item <- MCItem
    NInv = 1
    NTrade = 1
    Limits <- MCLimits
SYMMETRY MCSymmetry
INVARIANTS
    TypeOK
    Conserved
PROPERTIES
    TradeAsConfirmed
CHECK_DEADLOCK FALSE
