CONSTANTS
    Process = {p1, p2}
    Consumer = {c1}
    FirstVersions = {0, 1, 2, 3, 4, 5, 6, 7, 8}
    MaxCrashes = 2
SPECIFICATION StorageSpec
CHECK_DEADLOCK FALSE
INVARIANT OpenedIsCurrent
PROPERTIES
    ResultsKept
    UpgradeCompletes
