CONSTANTS
    Workers = {1, 2}
    MinInterval = 1
    FailureCooldown = 3
    MaxTime = 7
    MaxCalls = 3
SPECIFICATION Spec
CHECK_DEADLOCK FALSE
INVARIANTS
    CallsAreSpaced
    StateIsWhole
PROPERTIES
    RecordNeverBack
