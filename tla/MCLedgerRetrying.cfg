SPECIFICATION Spec
CONSTANTS
    Requests <- MCRetrying
    TaskOf <- MCTaskOf
    FpOf <- MCRetryingFp
    DomainOf <- MCDomainOf
    KeysOf <- MCKeysOf
    Concurrency <- MCConcurrency
    GlobalLimit = 2
    DomainLimit = 2
    TaskLimit = 1
    MaxAttempts = 2
    MaxGeneration = 3
INVARIANTS
    GatesCoverSends
    RecoveryNeverRefused
PROPERTIES
    UnknownIsNotResent
CHECK_DEADLOCK FALSE
