CONSTANTS
    Containers = {1, 2}
    Stuck = {1}
    Probers = {p1, p2}
    MaxPerPass = 1
    MaxTries = 1
    MaxAttempts = 3
    MaxFaults = 2
    TornWrites = FALSE
SPECIFICATION FairSpec
INVARIANTS
    TypeOK
    NoneForgotten
PROPERTIES
    Drained
CHECK_DEADLOCK FALSE
