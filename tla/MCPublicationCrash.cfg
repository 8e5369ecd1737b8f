SPECIFICATION Spec
CONSTANTS
    Publications <- MCTwo
    MaxGeneration = 3
INVARIANTS
    CommittedIsWhole
    ReconcileNeverRefused
PROPERTIES
    SettledIsFinal
CHECK_DEADLOCK FALSE
