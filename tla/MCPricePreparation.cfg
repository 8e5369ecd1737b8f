CONSTANTS
    Sessions <- MCSessions
    Calendars <- MCCalendars
    Approval <- MCApproval
    Span = 2
    ProfileFrom = 1
    ProfileTo = 5
    StartTime = 7
    MaxTime = 13
    MaxAcquired = 1
SPECIFICATION Spec
CHECK_DEADLOCK FALSE
INVARIANTS
    ConvertedIsFinal
    ReadyIsComplete
PROPERTIES
    RequirementAdvances
