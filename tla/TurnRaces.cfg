CONSTANTS
    MaxRequests = 2
    MaxPrompts = 2
    MaxBatch = 2
    MaxRetries = 1
    CallKinds <- ToolsAndQuestions
    BatchModes = {TRUE}
    AllowAlways = FALSE
    SaveFaults = TRUE
    DoneLag = TRUE
    BatchCut = TRUE
    Signals = TRUE
SPECIFICATION Spec
INVARIANTS
    TypeOK
    MarkerIsLive
    PendingOwned
    ExecutingOwned
CHECK_DEADLOCK FALSE
