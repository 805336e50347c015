--------------------------------- MODULE MCJourney ---------------------------------
(***************************************************************************)
(* The way of a drive from the phone to the reviewer: the components that  *)
(* wait for each other, for files or for people, side by side. Each behaviour*)
(* exercises one of them. They share no state, so their product would show *)
(* nothing more.                                                           *)
(***************************************************************************)
EXTENDS Integers, Sequences, FiniteSets

CONSTANTS NoOne, None,
          Sessions, Viols, MaxBatches, \* OfflineBatch
          N, Total, Pre, Post, \* EvidenceClip
          Vehicles, Length, MaxGap, Limits, \* FrameLoop
          Authorities, Clicks, MaxFaults, \* Review
          Emails, Passwords, Short, Tabs, Phone, Attempts, MaxLost, \* Accounts
          Queries, Everything, Rows, TypeOf, Rank, TypesOffered, Sorts, PerPage, MaxGets,
          MaxShows, \* ViolationList
          MaxFrames, MaxSleep, \* Recording
          MaxScreens, MaxUploads, MaxPosts, \* DriveScreens
          MaxFound, Confs, KeyFrames, \* JobExchange
          RecordTypes, Outcomes, Tracks, NEvidence, MaxAttempts, \* ViolationRecords
          Tracked, Plates, Scores, BufferSize, MaxOcrFrames, FinalFrame  \* PlateEvidence

\* Two violations of one type around one of another, the oldest the most urgent.
ThreeTypes == <<"speeding", "lane_crossing", "speeding">>
ThreeRanks == <<2, 1, 0>>

\* What an attempt may find: nothing, one or two violations, of one vehicle, of one type, at
\* one time; with no crops at all, or with crops of which not all show the plate.
Crop(f, p) == [frame |-> f, plate |-> p]
SomeCar == CHOOSE v \in Vehicles : TRUE
Incident(v, t, k) == [vehicle |-> v, type |-> t, key |-> k]
SpeedingAt(k) == Incident(SomeCar, "SPEEDING", k)
Evidence(crops, read) ==
    [crops |-> [v \in Vehicles |-> crops], readable |-> {SomeCar} \cap read]
DriveOutcomes ==
    {[found |-> es, crops |-> s.crops, readable |-> s.readable] :
        es \in {{}, {SpeedingAt(1), SpeedingAt(4)},
                {SpeedingAt(4), Incident(SomeCar, "SOLID_LINE_CROSSING", 4)}}
               \cup {{SpeedingAt(1), Incident(v, "SPEEDING", 1)} : v \in Vehicles},
        s \in {Evidence(<<>>, {})} \cup
             {Evidence(<<Crop(2, FALSE), Crop(1, TRUE), Crop(4, TRUE)>>, read) :
                 read \in {{}, Vehicles}}}

VARIABLES
    part,  \* the component this behaviour exercises
    status, reviewedBy, notes, page, message, at, who, action, seen, faults,
    ffmpeg, key, phase, now, writer, pos, frames, file, clip, head, sent,
    main, camera, recorder, started, flags, clock, taken, image, held, rows, video, files,
    left,
    onDisk, flagged, old, active, current, posts, thread, screens, prompt, login, notifies,
    used,
    batches, todo, pc, session, crops, breaker, found, bundle, loose, folder, listed, drive,
    whole,
    loopPc, decoder, broken, limit, frame, loopSeen, start, end, box,
    users, accountsAt, form, account, waiting, storage, tab, phone, acted, lost,
    query, type, sort, listRows, answered, listPage, loading, error, gets, flying, last,
    dialog, picture, listBroken, shows, asks,
    jobPc, reference, copy, jobFound, manifest, stored, notified,
    plateFrame, offered, kept, plates, license, events, next, plateRows,
    outcome, track, recordsPhase, attempt, recordsFiles, recordsBundle, clips,
    recordsPlates, posted

R == INSTANCE Review
C == INSTANCE EvidenceClip
G == INSTANCE Recording
D == INSTANCE DriveScreens
B == INSTANCE OfflineBatch
F == INSTANCE FrameLoop WITH pc <- loopPc, seen <- loopSeen
A == INSTANCE Accounts WITH Nobody <- NoOne, at <- accountsAt
L == INSTANCE ViolationList WITH Types <- TypesOffered, rows <- listRows, page <- listPage,
                                 broken <- listBroken
J == INSTANCE JobExchange WITH MaxEvents <- MaxFound, Keys <- KeyFrames, pc <- jobPc,
                               found <- jobFound
P == INSTANCE PlateEvidence WITH Vehicles <- Tracked, NoPlate <- None,
                                 MaxEvents <- MaxFound, MaxFrame <- FinalFrame,
                                 Types <- RecordTypes, frame <- plateFrame,
                                 rows <- plateRows
H == INSTANCE ViolationRecords WITH Types <- RecordTypes, Keys <- KeyFrames,
                                    MaxEvents <- MaxFound, phase <- recordsPhase,
                                    files <- recordsFiles, bundle <- recordsBundle,
                                    plates <- recordsPlates

reviewVars == <<status, reviewedBy, notes, page, message, at, who, action, seen, faults>>
clipVars == <<ffmpeg, key, phase, now, writer, pos, frames, file, clip, head, sent>>
recordingVars == <<main, camera, recorder, started, flags, clock, taken, image, held, rows,
                   video, files, left>>
screensVars == <<onDisk, flagged, old, active, current, posts, thread, screens, prompt,
                 login, notifies, used>>
batchVars == <<batches, todo, pc, session, crops, breaker, found, bundle, loose, folder,
               listed, drive, whole>>
loopVars == <<loopPc, decoder, broken, limit, frame, loopSeen, start, end, box>>
accountsVars == <<users, accountsAt, form, account, waiting, storage, tab, phone, acted,
                  lost>>
listVars == <<query, type, sort, listRows, answered, listPage, loading, error, gets, flying,
              last, dialog, picture, listBroken, shows, asks>>
jobVars == <<jobPc, reference, copy, jobFound, manifest, stored, notified>>
plateVars == <<plateFrame, offered, kept, plates, license, events, next, plateRows>>
recordsVars == <<outcome, track, recordsPhase, attempt, recordsFiles, recordsBundle, clips,
                 recordsPlates, posted>>
vars == <<part, reviewVars, clipVars, recordingVars, screensVars, batchVars, loopVars,
          accountsVars, listVars, jobVars, plateVars, recordsVars>>

reviewUnused == status = "-" /\ reviewedBy = "-" /\ notes = "-" /\ page = "-" /\
                message = "-" /\ at = "-" /\ who = "-" /\ action = "-" /\ seen = "-" /\
                faults = "-"
clipUnused == ffmpeg = "-" /\ key = "-" /\ phase = "-" /\ now = "-" /\ writer = "-" /\
              pos = "-" /\ frames = "-" /\ file = "-" /\ clip = "-" /\ head = "-" /\
              sent = "-"
recordingUnused == main = "-" /\ camera = "-" /\ recorder = "-" /\ started = "-" /\
                   flags = "-" /\ clock = "-" /\ taken = "-" /\ image = "-" /\ held = "-" /\
                   rows = "-" /\ video = "-" /\ files = "-" /\ left = "-"
screensUnused == onDisk = "-" /\ flagged = "-" /\ old = "-" /\ active = "-" /\
                 current = "-" /\ posts = "-" /\ thread = "-" /\ screens = "-" /\
                 prompt = "-" /\ login = "-" /\ notifies = "-" /\ used = "-"
batchUnused == batches = "-" /\ todo = "-" /\ pc = "-" /\ session = "-" /\ crops = "-" /\
               breaker = "-" /\ found = "-" /\ bundle = "-" /\ loose = "-" /\
               folder = "-" /\ listed = "-" /\ drive = "-" /\ whole = "-"
loopUnused == loopPc = "-" /\ decoder = "-" /\ broken = "-" /\ limit = "-" /\ frame = "-" /\
              loopSeen = "-" /\ start = "-" /\ end = "-" /\ box = "-"
accountsUnused == users = "-" /\ accountsAt = "-" /\ form = "-" /\ account = "-" /\
                  waiting = "-" /\ storage = "-" /\ tab = "-" /\ phone = "-" /\
                  acted = "-" /\ lost = "-"
listUnused == query = "-" /\ type = "-" /\ sort = "-" /\ listRows = "-" /\ answered = "-" /\
              listPage = "-" /\ loading = "-" /\ error = "-" /\ gets = "-" /\
              flying = "-" /\ last = "-" /\ dialog = "-" /\ picture = "-" /\
              listBroken = "-" /\ shows = "-" /\ asks = "-"
jobUnused == jobPc = "-" /\ reference = "-" /\ copy = "-" /\ jobFound = "-" /\
             manifest = "-" /\ stored = "-" /\ notified = "-"
plateUnused == plateFrame = "-" /\ offered = "-" /\ kept = "-" /\ plates = "-" /\
               license = "-" /\ events = "-" /\ next = "-" /\ plateRows = "-"
recordsUnused == outcome = "-" /\ track = "-" /\ recordsPhase = "-" /\ attempt = "-" /\
                 recordsFiles = "-" /\ recordsBundle = "-" /\ clips = "-" /\
                 recordsPlates = "-" /\ posted = "-"

Init ==
    /\ part \in {"review", "clip", "recording", "screens", "batch", "loop", "accounts", "list",
                 "job", "plate", "records"}
    /\ IF part = "review" THEN R!Init ELSE reviewUnused
    /\ IF part = "clip" THEN C!Init ELSE clipUnused
    /\ IF part = "recording" THEN G!Init ELSE recordingUnused
    /\ IF part = "screens" THEN D!Init ELSE screensUnused
    /\ IF part = "batch" THEN B!Init ELSE batchUnused
    /\ IF part = "loop" THEN F!Init ELSE loopUnused
    /\ IF part = "accounts" THEN A!Init ELSE accountsUnused
    /\ IF part = "list" THEN L!Init ELSE listUnused
    /\ IF part = "job" THEN J!Init ELSE jobUnused
    /\ IF part = "plate" THEN P!Init ELSE plateUnused
    /\ IF part = "records" THEN H!Init ELSE recordsUnused

Next ==
    /\ UNCHANGED part
    /\ IF part = "review" THEN R!Next ELSE UNCHANGED reviewVars
    /\ IF part = "clip" THEN C!Next ELSE UNCHANGED clipVars
    /\ IF part = "recording" THEN G!Next ELSE UNCHANGED recordingVars
    /\ IF part = "screens" THEN D!Next ELSE UNCHANGED screensVars
    /\ IF part = "batch" THEN B!Next ELSE UNCHANGED batchVars
    /\ IF part = "loop" THEN F!Next ELSE UNCHANGED loopVars
    /\ IF part = "accounts" THEN A!Next ELSE UNCHANGED accountsVars
    /\ IF part = "list" THEN L!Next ELSE UNCHANGED listVars
    /\ IF part = "job" THEN J!Next ELSE UNCHANGED jobVars
    /\ IF part = "plate" THEN P!Next ELSE UNCHANGED plateVars
    /\ IF part = "records" THEN H!Next ELSE UNCHANGED recordsVars

Spec == Init /\ [][Next]_vars

-----------------------------------------------------------------------------
(* Review *)

\* Drivers are told of what is verified, and what they and the pages were told stands
\* until another review is saved, whatever order the reviews run in.
ReviewTold == part = "review" => R!ReviewTold

(* EvidenceClip *)

\* Every reported violation has something to open, and it is its own clip, with the key
\* frame in it, whenever that was rendered whole.
ClipReachesReviewer == part = "clip" => C!ClipReachesReviewer

(* Recording *)

\* What the phone hands over of a drive whose driver stayed in the app is one recording.
RecordingWhole == part = "recording" => G!RecordingWhole

(* DriveScreens *)

\* The screens tell the driver the truth about the one upload there is.
UploadsTold == part = "screens" => D!UploadsTold

(* OfflineBatch *)

\* Sessions of one process, and of later ones, do not touch each other: every run starts
\* fresh, and only a session some run finished is left out.
RunsApart == part = "batch" => B!RunsApart

(* FrameLoop *)

\* A track is an unbroken series of boxes, and what is made up in it lies between sightings.
TracksWhole == part = "loop" => F!TracksWhole

(* JobExchange *)

\* What the backend is told of is stored, comes from the clip the job named, and is
\* ordered the way the review queue shows it.
JobFaithful == part = "job" => J!JobFaithful

\* Nobody signs in as somebody else, or as an authority that is none, and what the list of
\* violations shows is what was asked for.
PortalSound ==
    /\ part = "accounts" => A!SignInSound
    /\ part = "list" => L!ListSound

\* The evidence of a violation is the best there was of its own vehicle: the sharpest crops
\* survive the buffer until they are read, the violations of a vehicle name one plate, and
\* the pictures, the clip, the plate and the place a record leads to are of its incident, be it
\* one that an attempt before has found.
EvidenceTrue ==
    /\ part = "plate" => P!EvidenceKept
    /\ part = "records" => H!RecordsTrue

=============================================================================
