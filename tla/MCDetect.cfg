CONSTANTS
    v1 = v1
    v2 = v2
    None = None
    NoBox = NoBox
    Offsets <- VehicleOffsets
    Lost = {0}
    Samples = 5
    LineMargin = 15
    Hold = 1
    StraddleHold = 2
    MinTransit = 2
    MaxTransit = 4
    Tenths = {7}
    Sights = {0}
    Aspects = {1, 4}
    MaxAspect = 2
    ClipFrames = 4
    Yellows = {1, 2}
    KConsec = 1
    LastHits = 3
    MaskFrames = 4
    GhostTTL = 2
    Phantom = 0
    Confidences = {40, 90}
    Columns <- LensColumns
    Drift = {0, 1}
    RideFrames = 5
    MinAge = 2
    MemoryTTL = 2
    KFrames = 2
    Distances <- ShoulderDistances
    RowWidth = 5
    Watched = {v1}
    Hidden = 0
    SegScenes <- LiveScenes
    LaneSets = {{}, {1, 4}}
    Cadences = {1, 2}
    THigh = 40
    TLow = 25
    MaxAge = 1
    Close = 1
    Dilate = 1
    RowFrames = 4
    DriveFrames = 7
    RoadSpeeds = {6, 8, 9}
    Threshold = 8
    ReportCooldown = 4
    MinFramesOver = 2
    MaxGap = 1
    MaxMiss = 1
    Cooldown = 1
    Vehicles = {v1, v2}
    Paint <- RoadPaint
    Places <- VehiclePlaces
    Width = 4
    K = 2
    M = 2
    GhostLen = 1
    Margin = 1
    NoTireMargin = 2
    ArmMargin = 1
    Penetration = 1
    Headings = {FALSE}
    Deadband = 1
    OnFrames = 1
    OffFrames = 1
    SameAxle = TRUE
    RequireBand = TRUE
    SepPercent = 105
    Band = 2
SPECIFICATION DriveSpec
INVARIANTS
    ReportedOnce
    MotionTrusted
    PaintRemembered
    CrossingProven
    TrackAsAsked
CHECK_DEADLOCK FALSE
