CONSTANTS
    MaxStarts = 2
    MaxTasks = 1
SPECIFICATION FairSpec
INVARIANTS
    TypeOK
    VerdictTrue
    NoLostWakeup
    DeliveredIsTold
PROPERTIES
    DueIsTold
CHECK_DEADLOCK FALSE
