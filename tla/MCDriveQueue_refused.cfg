\* the backend refuses a violation
CONSTANTS
    w1 = w1
    w2 = w2
    host = host
    Drives = {1}
    Workers <- OneWorker
    Runs = {1, 2, 3}
    Viols = {v1}
    WorkDirOf <- OwnDirs
    Slots = 1
    ShipAsync <- OneWorker
    Timely = TRUE
    MaxFaults = 1
    NoWorker = NoWorker
    NoRun = NoRun
SPECIFICATION Spec
INVARIANTS
    ProcessedMeansRecorded
CHECK_DEADLOCK FALSE
