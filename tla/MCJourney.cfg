CONSTANTS
    NoOne = NoOne
    None = None
    Sessions = {s1, s2}
    Viols = {x1}
    MaxBatches = 3
    N = 2
    Total = 4
    Pre = 2
    Post = 1
    Vehicles = {v1, v2}
    Length = 5
    MaxGap = 1
    Limits = {0, 3}
    Authorities = {a1, a2}
    Clicks = {c1, c2, c3}
    MaxFaults = 1
    Emails = {e1, e2}
    Passwords = {k1, k2}
    Short = {}
    Tabs = {b1, b2}
    Phone = app
    Attempts = {1, 2}
    MaxLost = 1
    Queries = {q1, q2}
    Everything = q1
    Rows = {1, 2, 3}
    TypeOf <- ThreeTypes
    Rank <- ThreeRanks
    TypesOffered = {"speeding"}
    Sorts = {"priority_desc"}
    PerPage = 2
    MaxGets = 3
    MaxShows = 2
    MaxFrames = 3
    MaxSleep = 1
    MaxScreens = 2
    MaxUploads = 2
    MaxPosts = 1
    MaxFound = 2
    Confs = {1, 2}
    KeyFrames = {1, 4}
    RecordTypes = {"SPEEDING", "SOLID_LINE_CROSSING"}
    Outcomes <- DriveOutcomes
    Tracks = {{}, {1, 5}}
    NEvidence = 2
    MaxAttempts = 2
    Tracked = {v1}
    Plates = {p1, p2}
    Scores = {1, 2, 3}
    BufferSize = 3
    MaxOcrFrames = 1
    FinalFrame = 3
SPECIFICATION Spec
INVARIANTS
    PortalSound
    EvidenceTrue
    ReviewTold
    ClipReachesReviewer
    RecordingWhole
    UploadsTold
    RunsApart
    TracksWhole
    JobFaithful
CHECK_DEADLOCK FALSE
