\* every drive settles
CONSTANTS
    w1 = w1
    w2 = w2
    host = host
    Drives = {1}
    Workers <- TwoWorkers
    Runs = {1, 2, 3}
    Viols = {v1}
    WorkDirOf <- OwnDirs
    Slots = 1
    ShipAsync <- TwoWorkers
    Timely = TRUE
    MaxFaults = 1
    NoWorker = NoWorker
    NoRun = NoRun
SPECIFICATION FairSpec
PROPERTIES
    EveryDriveSettles
    StopEnds
CHECK_DEADLOCK FALSE
