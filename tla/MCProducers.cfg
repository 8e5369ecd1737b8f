CONSTANTS
    Runs = {1, 2}
    Workloads <- MCWorkloads
    Years = 2
SPECIFICATION Spec
CHECK_DEADLOCK FALSE
INVARIANTS
    EvidenceIsBacked
    SendsInOrder
    SlotsBoundSends
    TakeoverNeverRefused
PROPERTIES
    KeepsPromise
