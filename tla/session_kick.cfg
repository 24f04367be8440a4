SPECIFICATION FairSpec
CONSTANTS
    a1 = a1
    w1 = w1
    w2 = w2
    Account <- MCAccount
    World <- MCOneWorld
    MaxLogin = 2
    MaxLoss = 0
    MaxRetry = 1
    MaxGsJoin = 2
    MaxCharChange = 0
CHECK_DEADLOCK FALSE
INVARIANTS
    OneUserPerAccount
    LoggedOutOnce
PROPERTIES
    AccountReleased
    KickFreesAccount
