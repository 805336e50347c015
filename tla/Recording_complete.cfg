CONSTANTS
    MaxFrames = 3
    MaxSleep = 1
    None = None
SPECIFICATION Spec
INVARIANTS
    CompleteOnDisk
CHECK_DEADLOCK FALSE
