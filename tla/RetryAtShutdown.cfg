CONSTANTS
    MaxRequests = 2
    MaxPrompts = 1
    MaxBatch = 1
    MaxRetries = 1
    CallKinds <- ToolsOnly
    BatchModes = {TRUE}
    AllowAlways = TRUE
    SaveFaults = FALSE
    DoneLag = FALSE
    BatchCut = FALSE
    Signals = FALSE
SPECIFICATION FairSpec
PROPERTIES
    ShutdownEnds
CHECK_DEADLOCK FALSE
