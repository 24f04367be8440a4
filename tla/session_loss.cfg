SPECIFICATION FairSpec
CONSTANTS
    a1 = a1
    w1 = w1
    w2 = w2
    Account <- MCAccount
    World <- MCOneWorld
    MaxLogin = 2
    MaxLoss = 2
    MaxRetry = 0
    MaxGsJoin = 0
    MaxCharChange = 0
CHECK_DEADLOCK FALSE
INVARIANTS
    OneRecordPerAccount
PROPERTIES
    ClosedWorldLoggedOut
