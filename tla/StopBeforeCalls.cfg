CONSTANTS
    MaxRequests = 2
    MaxPrompts = 2
    MaxBatch = 2
    MaxRetries = 0
    CallKinds <- ToolsOnly
    BatchModes = {TRUE}
    AllowAlways = TRUE
    SaveFaults = FALSE
    DoneLag = FALSE
    BatchCut = FALSE
    Signals = FALSE
SPECIFICATION Spec
PROPERTIES
    TranscriptComplete
CHECK_DEADLOCK FALSE
