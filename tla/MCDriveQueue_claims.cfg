\* two workers that ship inline compete for one drive
CONSTANTS
    w1 = w1
    w2 = w2
    host = host
    Drives = {1}
    Workers <- TwoWorkers
    Runs = {1, 2, 3}
    Viols = {v1}
    WorkDirOf <- OwnDirs
    Slots = 1
    ShipAsync = {}
    Timely = TRUE
    MaxFaults = 2
    NoWorker = NoWorker
    NoRun = NoRun
SPECIFICATION Spec
SYMMETRY Symmetry
INVARIANTS
    TypeOK
    ClaimHeld
    RawKept
    DuplicatesExplained
PROPERTIES
    SettledStays
    OneHolderAtATime
CHECK_DEADLOCK FALSE
