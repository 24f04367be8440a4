SPECIFICATION Spec
CONSTANTS
    a1 = a1
    w1 = w1
    w2 = w2
    Account <- MCAccount
    World <- MCOneWorld
    MaxLogin = 2
    MaxLoss = 0
    MaxRetry = 0
    MaxGsJoin = 3
    MaxCharChange = 1
CHECK_DEADLOCK FALSE
INVARIANTS
    TypeOK
    OneJoinPerAccount
    OneHolder
    JoinCoversRecords
PROPERTIES
    ImplementsLease
