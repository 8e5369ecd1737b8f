SPECIFICATION Spec
CONSTANTS
    Requests <- MCCompeting
    TaskOf <- MCTaskOf
    FpOf <- MCCompetingFp
    DomainOf <- MCDomainOf
    KeysOf <- MCKeysOf
    Concurrency <- MCConcurrency
    GlobalLimit = 2
    DomainLimit = 2
    TaskLimit = 1
    MaxAttempts = 1
    MaxGeneration = 2
INVARIANT
    TransferredAttemptEligible
CHECK_DEADLOCK FALSE
