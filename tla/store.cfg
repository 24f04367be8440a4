SPECIFICATION Spec
CONSTANTS
    c1 = c1
    c2 = c2
    i1 = i1
    i2 = i2
    null = null
    Char <- MCChar
    Item <- MCItem
    Appraised = {}
    Stackable <- MCStackable
    NInv = 1
    NBank = 1
    MaxRequests = 1
    Limits <- MCLimits
SYMMETRY MCSymmetry
CONSTRAINT Explored
INVARIANTS
    TypeOK
    RowsRefer
    NoDuplicate
    OptionsKept
PROPERTIES
    ImplementsItemHome
    RowsChangeBySave
    LostOnlyBy
