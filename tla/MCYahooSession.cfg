SPECIFICATION Spec
CONSTANTS
    Auxiliary <- MCAuxiliary
    MaxAttempts = 4
    MaxWait = 2
    MaxFailures = 1
    MaxRollbacks = 1
INVARIANTS
    LostIsUnknown
    SuccessIsBacked
    NothingLeftBehind
PROPERTIES
    StopsAfterAnomaly
    ExchangeEnds
CHECK_DEADLOCK FALSE
