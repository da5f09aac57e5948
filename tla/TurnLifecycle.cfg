CONSTANTS
    MaxRequests = 2
    MaxPrompts = 2
    MaxBatch = 2
    MaxRetries = 0
    CallKinds <- ToolsAndRejects
    BatchModes = {TRUE, FALSE}
    AllowAlways = TRUE
    SaveFaults = TRUE
    DoneLag = FALSE
    BatchCut = FALSE
    Signals = FALSE
SPECIFICATION FairSpec
INVARIANTS
    OneWorker
    StopReaches
    BusyOwned
PROPERTIES
    NothingStarts
    KeepsTurnPromise
    CancellationEnds
    ShutdownEnds
CHECK_DEADLOCK FALSE
