CONSTANTS
    Sections = {"blocks", "status"}
    Volatile = {"status"}
    Values = {0, 1}
    Initial <- Blank
    NoState = NoState
    RingCapacity = 1
    WireCapacity = 2
    MaxRevision = 2
    MaxConnections = 2
SPECIFICATION FairSpec
INVARIANTS
    TypeOK
    PatchFollows
PROPERTIES
    KeepsPromise
    CaughtUp
    LiveAgain
