CONSTANTS
    Commands = {"edit", "load"}
    Kind <- EachKind
    Nothing = Nothing
    MaxInFlight = 2
    ReplayWindow = 2
    MailboxCapacity = 1
    ResponseCapacity = 2
    CacheCapacity = 1
    MaxConnections = 2
    MaxEpochs = 2
    MaxRevision = 1
    StopDuringLoad = FALSE
SPECIFICATION FairSpec
INVARIANTS
    TypeOK
    NoFault
    RefusalIsTrue
PROPERTIES
    KeepsCommandPromise
    EveryCommandEnds
CHECK_DEADLOCK FALSE
