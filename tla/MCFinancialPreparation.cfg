CONSTANTS
    Filing <- MCFiling
    FactSets <- MCFactSets
    Metrics <- MCMetrics
    Required = {0, 1, 2, 3}
    Primary = "p"
    Additional = "a"
    Original = "q"
    Amended = "r"
    Issuer = "e"
    MaxWithdrawals = 1
    MaxLists = 2
SPECIFICATION FinancialSpec
CHECK_DEADLOCK FALSE
INVARIANTS
    CountedIsSound
    AcceptedIsUnanimous
    MergedIsConsistent
