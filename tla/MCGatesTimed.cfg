CONSTANTS
    y1 = y1
    y2 = y2
    y3 = y3
    b1 = b1
    Attempts <- MCAttempts
    KeysOf <- MCKeysOf
    ProviderOf <- MCProviderOf
    PolicyOf <- MCPolicyOf
    Concurrency <- MCConcurrency
    Interval <- MCInterval
    PerWindow <- MCPerWindow
    Window <- MCWindow
    RetryAfters <- MCRetryAfters
    MaxClock = 3
    MaxRollbacks = 1
SYMMETRY MCSymmetry
SPECIFICATION Spec
INVARIANTS SpacingKept WindowKept
PROPERTY CooldownKept
CHECK_DEADLOCK FALSE
