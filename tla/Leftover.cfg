CONSTANTS
    Processes = {p1}
    Sessions = {s1}
    MaxFaults = 1
SPECIFICATION FairSpec
PROPERTY
    LeftoverGoes
