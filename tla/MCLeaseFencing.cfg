SPECIFICATION Spec
CONSTANTS
    p1 = p1
    p2 = p2
    Processes <- MCProcesses
    TokenOf <- MCSharedToken
    Duration = 2
    MaxClock = 3
    MaxGeneration = 3
    MaxRollbacks = 1
INVARIANTS
    OneHolderPerGeneration
    HolderNotDisplacedEarly
PROPERTIES
    StaleHolderNeverWrites
CHECK_DEADLOCK FALSE
