SPECIFICATION FairSpec
CONSTANTS
    Server = {"login", "world", "game"}
    p1 = p1
    p2 = p2
    j1 = j1
    j2 = j2
    j3 = j3
    Producer <- MCProducer
    Job <- MCJob
INVARIANTS
    TypeOK
    NoLostWakeup
    DrainedAtExit
PROPERTIES
    ImplementsJobQueue
    EventuallyHandled
    ShutdownCompletes
