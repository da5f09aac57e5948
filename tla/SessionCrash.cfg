CONSTANTS
    Processes = {p1, p2}
    Sessions = {s1}
    MaxFaults = 3
SPECIFICATION FairSpec
INVARIANTS
    TypeOK
    OneUser
    ReleasedFirst
PROPERTIES
    WorkKept
    DeletionEnds
