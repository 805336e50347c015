CONSTANTS
    w1 = w1
    w2 = w2
    soft = soft
    hard = hard
    Workers <- OneWorker
    Starting <- OneWorker
    Requests <- Both
    Wanted <- Levels2
    MaxKeys = 2
    NoFile = NoFile
SPECIFICATION FairSpec
INVARIANTS
    ForcedByTwo
    AbandonedOnNow
PROPERTIES
    NowInterrupts
    RequestHeard
CHECK_DEADLOCK FALSE
