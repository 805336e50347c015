CONSTANTS
    NFiles = 2
    MaxAttempts = 3
    MaxFaults = 2
    Late = "slow"
SPECIFICATION SlowSpec
INVARIANTS
    NeverRefusedLater
    QueuedHasFiles
    SafeToForget
PROPERTIES
    AcceptedForGood
    RetriesSucceed
CHECK_DEADLOCK FALSE
