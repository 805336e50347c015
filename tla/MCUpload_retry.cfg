CONSTANTS
    NFiles = 2
    MaxAttempts = 3
    MaxFaults = 2
    Late = "none"
SPECIFICATION SlowSpec
INVARIANTS
    RetryPossible
CHECK_DEADLOCK FALSE
