\* one worker ships drives while it processes the next ones
CONSTANTS
    w1 = w1
    w2 = w2
    host = host
    Drives = {1, 2, 3}
    Workers <- OneWorker
    Runs = {1, 2, 3}
    Viols = {v1, v2}
    WorkDirOf <- OwnDirs
    Slots = 1
    ShipAsync <- OneWorker
    Timely = TRUE
    MaxFaults = 0
    NoWorker = NoWorker
    NoRun = NoRun
SPECIFICATION Spec
INVARIANTS
    ClipBeforeDoc
    AllReported
    JobDirsSafe
    BacklogBounded
    ExitLeavesNothing
CHECK_DEADLOCK FALSE
