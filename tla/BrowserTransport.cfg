CONSTANTS
    Modes = {"session", "token"}
    RefreshInterval = 5
    MaxEpochs = 3
SPECIFICATION FairSpec
INVARIANTS
    TypeOK
    OneAttempt
    Attended
    RetryAfterKept
    ClosedForCause
PROPERTIES
    Recovers
CHECK_DEADLOCK FALSE
