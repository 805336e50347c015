# Road-Guard in TLA+

Road-Guard records drives on a phone, uploads them to object storage, has a GPU worker look for
traffic violations in them, and lets an authority review what was found. This directory holds
TLA+ models of the parts of that system that keep state and can go wrong by order, by failure or by
repetition, the TLC instances that check them, and theorems about them checked by TLAPS.

Paths below are relative to the repository.

## 1. The system

| Component | State | Operations | Talks to |
| --- | --- | --- | --- |
| Phone upload: `UploadService`, `SessionStore`, `PostDriveActivity`, `HomeActivity` | session folder with its flags, one active upload (not persisted) | start, init, PUT per file, complete, mark, sweep | upload API, R2 |
| Recording app: `RecordingActivity`, `RecordingSession` | camera, recorder, analyzer, clocks, the session folder | begin, frame, stop, finalise, lifecycle | session folder |
| Upload API: `backend/controllers/driverController.js` | `Drive` document | init, complete | MongoDB, R2 |
| Drive queue: `backend/routes/internalRoutes.js` | `Drive.status/claimedAt/workerId`, `Violation` documents | next-job (watchdog + claim), violation, complete + retention, release | MongoDB, R2 |
| GPU worker: `worker.py` | drive in hand, ship queue, job dirs | claim, process, ship, stop | drive queue, R2, pipeline |
| Stop control: `worker_stop.py` | request file, stop level, signals | request, watch, signal, install | worker main thread |
| Pipeline, detection: `main.py`, `line_crossing/`, `violations/cascade/`, `tools/ghost_mask.py`, `tools/motion_filter.py`, `tools/shoulder_violation.py` | tracks, lines, ghosts, windows per vehicle | per-frame updates, per-clip evaluation | a call of the worker |
| Pipeline, speed: `speed_estimation/` | poses, runs, caches and breaker of the limit lookup | per-clip estimates, Overpass queries | GPS and sensor logs, OpenStreetMap |
| Pipeline, plates: `lpr/`, `tools/pipeline/` | crop buffer, votes, plate memory | observe, read, link, propagate | OCR |
| Pipeline, export: `violations/`, `run_timing.py`, `worker_common.py` | clips, bundle, records, stopwatch | render, encode, bundle, unpack, payloads | files in the job dir |
| Offline batch: `worker_offline.py` | folders of sessions with their output | resume, process, write | pipeline, disk |
| Review API: `backend/controllers/authorityController.js` | `Violation.status/reviewedBy`, `Notification` | verify, dismiss, queries | MongoDB, R2 |
| Dashboard: `frontend/roadguard-authority` | page state per authority, the list with its filters, pages and dialog | open, click, filter, turn pages | review API |
| Accounts: `authController.js`, `middleware/`, the login page and the app's first screen | `User`, the tabs' localStorage, the app's preferences | register, login, logout | MongoDB |

How they interact: the phone creates a drive (`created`), PUTs its files to R2 and completes it
(`queued`); a worker polls `next-job`, which claims the oldest queued drive (`processing`); the worker
downloads the files, runs the pipeline, uploads one clip per violation, POSTs the violations and
completes the drive (`processed` or `failed`), upon which the backend deletes the raw files. An
authority then verifies or dismisses each violation and the driver is notified. All of these are
calls without transactions between MongoDB, R2 and two clients that may stop at any time.

What is hard, and what makes each component correct:

* **Drive queue and worker.** Claims without leases that are renewed, calls that are sent once and
  whose answers are ignored, a watchdog on age alone, two threads and possibly several processes in
  one work directory, stops at any bytecode. Correct means: a drive is worked on under a claim; its raw
  files outlive the need for them; nothing is recorded before its evidence is there or reported
  processed before it is recorded; a settled drive stays settled; every drive is settled in the end;
  disk use is bounded; an exit loses nothing.
* **Stop control.** Two processes and three threads around one file and one flag. Correct means: a
  request is heard and never weakened, a stop-now always ends the pipeline, and no single signal ever
  cuts an evidence upload.
* **Upload.** Handlers of several awaits on one document and one prefix, retried by a client that
  deletes its copy when told the server has it. Correct means: the phone forgets a drive only when the
  server has all of it for good; an accepted drive stays accepted; a failure leaves something a retry
  can clear away.
* **Review.** Reviews of one violation overlap. Correct means: drivers and authorities are told
  what is true, or at least what nobody has overruled since.
* **Portal.** Registrations of one email race, tabs share a localStorage, a phone takes every answer, and
  list queries are answered in any order. Correct means: nobody signs in as somebody else or as an
  authority that is none, and the list is what was asked for, on a page that exists.
* **Phone app.** Handlers on the main thread, an analyzer thread, a recorder that finalises on its own,
  an upload thread that posts results to screens that come and go, a clock that stands still while the
  phone sleeps. Correct means: what is handed over is one recording, and what a screen says of an
  upload is so.
* **From detections to evidence.** Several stages, in two processes and over files, find each other's
  products by a name or by a position in a list; rendering, encoding and reading may fail for one
  incident of many. Correct means: every reported violation leads to its own clip, plate, place and
  vehicle, and nothing of one session reaches another.
* **Detectors and estimators.** Sequential, but full of windows, hysteresis, votes and bounded memories
  whose boundary cases no test enumerates. Correct means: one manoeuvre is one report, what is reported
  was seen, a short occlusion changes nothing, a gap is never bridged by an invented value, and a limit
  or a plate is the one that was asked for or none.

## 2. Modules

| Module | Models | Checked in |
| --- | --- | --- |
| `DriveQueue` | internal routes, worker main thread and ship thread, R2 objects, job dirs | `queue_*`; `DriveQueueProofs`, `DriveShipProofs` |
| `DriveClaims` | what the queue promises: abstract specification that `DriveQueue` implements | `queue_claims`, `DriveQueueProofs` |
| `Upload` | upload service, init and complete handlers, prefix in R2, worker (coarse) | `upload_*`, `UploadProofs` |
| `StopControl` | request file, watcher, signal handler, main thread (coarse) | `stop_control`, `StopControlProofs` |
| `Accounts` | `authController.js`, `User.js`, the login page in several tabs, the app's first screen | `journey`, `JourneyProofs` |
| `ViolationList` | `ViolationsPage`, `FilterBar`, `PlateImageButton` and the queries behind them | `journey`, `JourneyProofs` |
| `Review` | detail pages, verify and dismiss handlers | `journey`, `JourneyProofs` |
| `Recording` | `RecordingActivity`, `RecordingSession`: camera, recorder, analyzer, clocks | `journey`, `recording_complete`, `JourneyProofs` |
| `DriveScreens` | `PostDriveActivity`, `HomeActivity`, `SplashActivity`, `SessionStore`, `UploadProgress` | `journey`, `JourneyProofs` |
| `EgoPose` | `ego_yaw.py`, `session_clock.py`, `tools/cut_clip.py` | `evidence` |
| `FrameLoop` | `video_handler.py`, the loop of `main.py`, `Objects/`, `bbox_interpolator.py` | `journey`, `JourneyProofs` |
| `FrameMap` | `tools/sync_sessions.py` and the anchor of `session_clock.py` | `evidence` |
| `LaneTracks` | `crossing2/lane_tracks.py`: markings to lines | `evidence` |
| `PlateEvidence` | `lpr/evidence.py` and the report of `main.py` | `journey`, `EvidenceProofs` |
| `PlateVotes` | `lpr_consumer.py`, `plate_char_voter.py`, `plate_vehicle_linker.py` | `evidence` |
| `PlateMemory` | `joiner.py`, `reid_linker.py`, `roadguard.py`, `plate_report.py`, `run_pipeline.py` | `evidence`, `reid_alive` |
| `EvidenceClip` | `clip_extract.py`, `annotate_clip.py`, `clip_encoder.py`, the clips on their way to R2 | `journey`, `JourneyProofs` |
| `ViolationRecords` | the bundle, its unpacking and the record POSTed for each violation | `journey`, `EvidenceProofs` |
| `JobExchange` | `main.py --job-payload`, `ingest_client.py`, `video_integrity.py`, the ranking of `export.py` | `journey`, `EvidenceProofs` |
| `OfflineBatch` | `worker_offline.py` | `journey`, `JourneyProofs` |
| `RunTiming` | `run_timing.py` | `evidence` |
| `LineEvents` | `crossing2/offsets.py`, `events.py` | `detect`, `DetectProofs` |
| `CrossingChannels` | `evaluate_crossing`, `_stage2_confirm`, `edge_contact.py`, `yellow_crossing.py` | `detect`, `DetectProofs` |
| `GhostMask` | `tools/ghost_mask.py` | `detect`, `DetectProofs` |
| `ShoulderLine` | `tools/shoulder_violation.py`, `LaneMemory` | `detect`, `DetectProofs` |
| `Oncoming` | `tools/motion_filter.py`, `wrong_way.py`, the motion gate of the shoulder rule | `detect` |
| `Cascade` | `violations/cascade/stage2.py`, `temporal.py`, `tire_model.py`, `geometry.py` (in integers) | `detect`, `DetectProofs` |
| `LiveLanes` | `line_crossing/line_detector.py`, `classical_adapter.py` | `evidence` |
| `ClassVotes` | `tools/class_stabilizer.py` | `evidence` |
| `LiveCrossing` | `DLLaneDetector`, `mask_stabilizer.py`, `CrossingMonitor` | `detect`, `DetectProofs` |
| `SpeedLimits` | `speed_limit_lookup.py`, `flag_overspeed_vehicles` | `detect` |
| `SpeedRuns` | `speed_estimator.py`, `smoothers.py`, `relevance_flags.py` | `detect` |
| `SpeedingEpisodes` | `flag_speeding_fixed_limit` and its events | `detect`, `DetectProofs` |
| `MCDriveQueue`, `MCUpload`, `MCStopControl` | instances for TLC | |
| `MCJourney` | the way of a drive from the phone to the reviewer: eleven components, side by side | `journey`; `JourneyProofs`, `EvidenceProofs` |
| `MCEvidence` | the lines, clocks, plates and times of a drive: eight components, side by side | `evidence` |
| `MCDetect` | the detectors: ten components, side by side | `detect`, `DetectProofs` |

Definitions marked `\* mutant` are plausible bugs in the definition they precede; the specifications do
not use them. They record which change of the code each property notices.

`MCJourney`, `MCEvidence` and `MCDetect` put components that share no state next to each other: a behaviour picks one
(`part`) and runs it, the variables of the others stay `"-"`. Their product would show nothing more, and
the state space is the sum instead of the product. What the components do share, they share in a
module of its own: the files between the pipeline and the worker in `ViolationRecords` and
`EvidenceClip`, the document and the objects between phone, backend and worker in `Upload` and
`DriveQueue`, the singletons of a process between sessions in `OfflineBatch`, the tracks and lines
between a detector and its memory in each detector. Where a property of such a run joins several
(`PortalSound`, `EvidenceTrue`, `PlatesEarned`, `LinesSound`, `ClocksTrusted`, `ReportedOnce`,
`PaintRemembered`, `MotionTrusted`), each conjunct is a named property of its module.

### DriveQueue

One element of `Runs` is one claim of one drive by one worker process. `pc` says where the run is:
`reply` (claimed), `download`, `pipeline`, `submit` on the main thread, `upload`, `post` on the ship
thread, `report` (about to send complete), `tidy` (about to delete the job dir), `handback` and
`abandon` (about to release), then `over`, `dead` (its worker died) or `lost` (the claim's reply was
lost). `main` is where the worker's loop is. The handlers of complete, release and retention are
elements of `calls`: they are sent, and later served or lost, whatever has become of their sender.
`next-job` is two actions, `Poll` (the watchdog's `updateMany`) and `Claim` (the
`findOneAndUpdate`), because other requests come in between.

Abstractions. `claimedAt` is null, fresh or stale; `ClaimExpires` makes it stale. `Timely` is the
operating assumption that this happens only when nobody works on the drive and no call about it is
under way: `JOB_STALE_MINUTES` exceeds every drive and every delayed call. Mongoose's find and save of
complete are one step (its `save` writes the status it was asked for, so the two do not tell apart).
A worker that restarts is another element of `Workers`, as it draws a new id. Which violations a
pipeline run finds is arbitrary, and may differ between two runs of a drive. Plate pictures, the
annotated video and transcoding change no state another part reads. A signal that arrives inside
`contextlib`'s own frames is not modelled.

### DriveClaims

No code of its own. A drive is queued, held, processed, failed or disputed; `working` is the set of
drives whose claim somebody will still act on. `Take`, `Settle`, `GiveBack`, `Reclaim` and `Purge`
are what `next-job`, complete, release, the watchdog and retention amount to; `Leave` stands for
deaths and lost calls, `Dispute` for the stop-now that cuts a failure report. `DriveQueue` maps to it:
`stateOf`, `holderOf` and `workingOn` (the drives of engaged runs), and `OneHolderAtATime` says that
it implements it.

### Upload

`init` and `comp` hold, per attempt, how far that attempt's request or its handler is; every await
of the handlers is a step. `seen` is what the handler's `findOne` returned, which is what
`deleteOne` and `save` later act on. `Late` says what of a call the phone gave up on may still
happen: nothing (`"none"`: calls end before they time out), the rest of a handler that runs
(`"slow"`), or also a request that is still under way (`"late"`). `MCUpload` adds `prompt`, a history
variable that is true until a handler outlives its call: some promises hold for ever, some until then,
and one run checks both. The worker is coarse: it claims,
downloads, ships, reports and releases; its protocol is `DriveQueue`'s. A missing sensor file or a
video of the wrong size is refused by `PostDriveActivity` before the upload starts. OkHttp's own
retry of a connection that fails, and sessions the user skips, are left out.

### StopControl

The request file is modelled down to inodes because `request_stop` writes through one temporary
name: `file` and `tmp` are directory entries, `content` what the inodes hold, `holds` what a request has
open. POSIX rename is assumed (on Windows the replacement fails while the file is open). The main
thread is a few places: what matters is whether it is inside `drive()`, and whether an exception
there abandons a drive, drops one or cuts the uploads. Python delivers signals between bytecodes;
with CPython 3.10, the version the project pins, none falls between the end of a drive and
`_in_drive = False`, so `InDrive` is a function of `main`.

### Review

One violation; each click on a page is a POST of its own, since the buttons stay until the first
answer. `SavedStatus` and `SavedReviewer` are mongoose's rule that `save` writes only the fields that
differ from what `find` returned. A fault ends a handler at any of its awaits, or loses its answer when
the handler is through. `ReviewTold` has three parts: a violation on record as verified has been
announced or is about to be, unless each verify that saved it was cut off before the note
(`VerifiedAnnounced`); a page claims a note only when a click of its own made it (`ToldTrue`); and what a
driver was told or a page shows, and is not on record, was overruled by a saved review (`Overruled`). More
is not true: when a verify and a dismiss overlap, the driver is notified of a violation that is on record
as dismissed (`ShownAsRecorded`), and the reviewer on record may be another than the one whose decision is
(`OwnDecision`). Both are checked by hand.

### Accounts and ViolationList

`Accounts` follows each POST of the login page or of the app through its handler: `find`, `compare` and
`create` are awaits, so that two registrations of one email may both find nobody; the unique index, part
of `Create`, refuses the second. Tabs share `storage` (localStorage) while each shows its own `tab`
until it is loaded again; the app may have several requests under way and takes each answer. Tokens
stand for the account they name, `acted` collects whom the authority routes served. Expiry of a token
and the name of a user are left out; addresses are compared as they were typed.

`ViolationList` is one open list page. `flying` holds the GETs on their way, an answer is any set of
rows (violations come and change meanwhile), and `Before` is the order that the browser sorts them
into; `asks` are the plate pictures on their way. A dialog goes when its row is no longer
on display: the button that owns it is unmounted.

Three things these modules show besides their invariants. A tab whose neighbour signed in with another
account shows the one and sends the token of the other. A login of the phone that is answered after a
logout signs in again. An answer that is overtaken by a newer one is still put on display, and
"Failed to load." stays when a later query succeeds.

### The phone: Recording, DriveScreens, EgoPose

`Recording` has the main thread's handlers, the analyzer thread, the recorder and two clocks. Only one of
them counts while the phone sleeps; `Stamp` is the offset the app derives between them. The driver's and
Android's moves (`BackPressed`, `Hidden`, `Leave`, `TimesOut`, `Return`, `Sleep`) are external actions.
Its invariant speaks of a driver who stays in the app (`left` records that), because after a call or a
look at the map the rows and the video part, see below.

`DriveScreens` has the stack of screens, the queue of messages to the main thread (`posts`), the upload
thread and the flags on disk. `Kill` ends the process: what is left are `onDisk` and the saved state of
the screen on top. What an upload does is `Upload`; here it ends well, badly or with a 401.

`EgoPose` measures time in ticks and quantities in small integers: a heading rate is a mean of gyro
samples in the window around a frame, the speed is the complementary filter's. Noise, units and the
learning of the accelerometer's axis are left out. `Cut` is `cut_clip.py`.

`FrameMap` films one drive with two phones, each on a clock of its own, and then runs the tool that pairs
their frames. A fix is stamped when it is delivered, later than it was measured; the anchor is the median of
what the fixes say. It is the anchor of `gps.csv`; the one in `session_meta.json` is the same statistic,
computed on the device.

### From frames to records

`FrameLoop` is the reading of the video (cv2 or the ffmpeg pipe) and what `World` keeps of a tracker that
misses and returns. `PlateEvidence` keeps scores of crops, not pictures; what OCR makes of one is chosen.
`PlateVotes` takes a plate to be a sequence of digits and confidences to be numbers; `PlateMemory` names
a plate by the track it is on, so that a plate on the wrong car shows. Cosine similarity and distances
are values of small sets, and thresholds are constants.

`EvidenceClip` follows one violation through `ClipWriter`, ffmpeg that may be missing, die or fail at its
end, the bundle, `ensure_h264` and the upload. `ViolationRecords` follows a drive's violations through
names: clips, crops, plate pictures and records find each other by vehicle, type and key frame. Each
attempt at a drive comes to an outcome of its own (`Outcomes`: the violations, crops and plates of one
pass over the video); one that dies leaves its clips and its bundle, whole or torn, in the job directory,
to be found by the next attempt on that host. An attempt that finds nothing writes no bundle, so what it
unpacks and reports is the one that was left. Files and bundles carry the number of the attempt that made
them, for the properties. `JobExchange` is the other way into
the pipeline, a job payload with a fingerprint. `OfflineBatch` keeps what lives as long as the process
(collector, breaker, models) apart from what lives as long as a session. `RunTiming` is the stack of timed
calls, and the ship thread beside it.

### From boxes and paint to violations

Geometry is brought down to what the rules tell apart. In `LineEvents` a vehicle is its signed offset from
one line, in `GhostMask` the columns of the one row it stands on, in `LaneTracks` a marking is its place on
one row, in `LiveLanes` a line is its x at the bottom of the frame, in `LiveCrossing` the road is a row of
pixels. In `ClassVotes` a line is its place on an axis and a vote counts half as much with each newer one.
In `LineEvents` a sample is a footprint in hundredths of a lane: its offset, as the median filter of
`offsets.py` has left it, and its two sides, which lie unevenly about it (`Footprint`: a fifth of the box is
taken off on the side turned away from us), with the aspect of the box that the flank test asks for.
`Cascade` keeps the plane: it has the tests of `geometry.py` on integer points, and
distances are compared by their squares as fractions. `SpeedLimits` lays the drive and the roads along an
axis with headings in quarter turns; `SpeedRuns` drives on a grid, with the gates that are on by default: of
the Kalman smoother it keeps that an even motion has its own step for a velocity, and assumes nothing of
any other. `Oncoming` has the height of the contact
point and shares in per cent.

What a detector or a model sees in a frame is chosen from a set that contains every answer the rules
distinguish, wrong ones included. What is *true* (where the paint is, which way the vehicle goes, what
its speed is) is part of the state, and the properties compare the two. Where only a sufficiently good
observation can be expected to be judged right, the property says which: `SpeedTrusted`, for instance,
demands that no box of a run is collapsed, and `DirectionTold` a window without
a gap before an oncoming vehicle must be known.

## 3. Runs

Bounds were raised until every action fires in a passing run and every mutant is found; the
configurations say which constants they use. `CHECK_DEADLOCK FALSE` throughout: workers go down,
sessions, clips and drives end, and the bounds on claims, attempts, clicks and faults end behaviours on
purpose.

| Run | Shows |
| --- | --- |
| `queue_claims` | Two workers with `SHIP_ASYNC=0` (a signal may cut their shipping), one drive, up to three claims, two faults: `ClaimHeld`, `RawKept`, `SettledStays`, that a duplicate violation means a worker died or a call was lost (`DuplicatesExplained`), and that all of it implements `DriveClaims` (`OneHolderAtATime`). |
| `queue_ship` | One worker, three drives, two violations: order of clips, documents and completion (`ClipBeforeDoc`, `AllReported`), job dirs (`JobDirsSafe`), slots (`BacklogBounded`), exit (`ExitLeavesNothing`). Three drives are one in the pipeline, one shipping and one waiting for a slot. |
| `queue_live` | Every drive is settled or no worker is left (`EveryDriveSettles`), and a worker asked to stop ends (`StopEnds`). |
| `upload_slow` | Three attempts, two faults, handlers that may outlive their call. `NeverRefusedLater` holds for ever; while `prompt`, `QueuedHasFiles`, `SafeToForget`, `AcceptedForGood`, and a driver who retries gets the drive accepted unless it expires on the phone (`RetriesSucceed`). |
| `stop_control` | Who may interrupt what (`ForcedByTwo`, `AbandonedOnNow`), that a stop-now ends a drive whose pipeline never would (`NowInterrupts`), and that a request in place is heard (`RequestHeard`). |
| `journey` | From the phone to the reviewer: what waits for each other, for files or for people, and what reaches the reviewer with a violation; eleven components, one per behaviour (below). |
| `evidence` | From the frames of a drive to its lines, clocks, plates and times; eight components, one per behaviour (below). |
| `detect` | From boxes and paint to violations; ten components, one per behaviour (below). |
| `queue_refused` (fails) | `Drive.js:27` "processed: violations recorded": a refused POST is only logged, and the drive is processed without it. |
| `upload_retry` (fails) | `UploadService.kt:385` "tap to try again": after a lost reply of complete, init answers 409 for ever. |
| `recording_complete` (fails) | `PostDriveActivity.kt:69` "already complete on disk": the screen opens before the recorder has finalised the video. |
| `reid_alive` (fails) | `reid_linker.py:16` overlapping tracks "are never linked": two tracks alike to the same later one end in one group. |

Properties of `journey`:

| Property | Component | Says |
| --- | --- | --- |
| `RecordingWhole` | `Recording` | the logged rows are frames of the video, in order, and clocks agree in every row |
| `UploadsTold` | `DriveScreens` | at most one upload, its folder stays, a screen shows progress only of its own drive's |
| `TracksWhole` | `FrameLoop` | a track is an unbroken series, and a box is made up only between sightings near enough |
| `RunsApart` | `OfflineBatch` | a session inherits nothing of the one before and is skipped only when its output is whole |
| `ClipReachesReviewer` | `EvidenceClip` | every reported violation has something to open, its own clip when that was rendered whole |
| `ReviewTold` | `Review` | what is verified is announced; a driver or a page that was told something else than is on record was overruled by a saved review |
| `PortalSound` | `Accounts`, `ViolationList` | nobody signs in as somebody else or as an authority that is none; the list is what its filters ask for unless an older answer overtook, on a page that exists, and a dialog shows a picture or says why not |
| `EvidenceTrue` | `PlateEvidence`, `ViolationRecords` | the sharpest crops survive eviction and a vehicle has one plate; what a record points at (clip, plate, place) is of its own incident and of one attempt, also after a crash; a drive that is done has told of one whole bundle, its own if it found anything |
| `JobFaithful` | `JobExchange` | only stored bundles are announced, in the order of the review, and only the clip the job named is processed |

Properties of `evidence`:

| Property | Component | Says |
| --- | --- | --- |
| `ClocksTrusted` | `EgoPose`, `FrameMap` | a cut keeps turns and UTC, the accelerometer cannot carry the speed away from the fixes; late fixes do not move the anchor, and a frame is paired with the nearest of the other phone |
| `LinesSound` | `LaneTracks`, `LiveLanes`, `ClassVotes` | no line switches marking, an occlusion does not cut one, one half of a double fires; a line appears, stays and is labelled on the weight of its frames; a voted class changes no more often than the detected one, and every detection is shown |
| `PlatesEarned` | `PlateVotes`, `PlateMemory` | a majority wins every vote, a plate is inherited only from the best supported track |
| `TimesAddUp` | `RunTiming` | a session's times add up and fit its wall time, beside a ship thread that measures meanwhile |

Properties of `detect`:

| Property | Component | Says |
| --- | --- | --- |
| `ReportedOnce` | `LineEvents`, `CrossingChannels`, `SpeedingEpisodes` | one manoeuvre or spell is one report (of a vehicle too wide for its line's margin it may be two), and none long enough is lost without a cooldown |
| `CrossingProven` | `Cascade` | a vehicle that is reported stood at an edge of paint in K of the last M frames, and a ghost it was judged against it had met itself |
| `PaintRemembered` | `GhostMask`, `ShoulderLine`, `LiveCrossing` | a ghost bridges an occlusion while young and no longer; an incident is backed by frames beyond a line that is remembered, a live crossing by solid paint that frames vouch for |
| `TrackAsAsked` | `SpeedLimits` | the corridor query answers as the whole map would, outages cost a bounded number of requests, a vehicle is flagged against every reading of its road's limit only |
| `MotionTrusted` | `SpeedRuns`, `Oncoming` | the speed of a run in which no box collapsed is the vehicle's own, across no gap, with nothing of our car's; who came at us for half of its life is let off, and nobody else, and what is let off is only ever less |

Why the bounds are enough. Two faults suffice for one failure during the recovery from another; three
claims, attempts or clicks for a recovery from each of them. Windows, histories, cooldowns and life spans
of the detectors are set to the smallest values at which their parts are distinct (a k-of-m of 2 of 3, a
memory of 2 or 3 frames, a gap of 1), and clips are one or two frames longer than the longest chain of
them, so that something enters a window, leaves it and comes back. Thresholds of real quantities become
integers with a value below, at and above them among the inputs. Where a quotient matters (medians,
means, shares), values are doubled or in per cent and the module says so. Two vehicles are used where one
could take the other's evidence, else one.

Sentences of the repository that a module refutes, besides the four entries of `findings`; each is a
definition of its module, and is checked by hand. Instances of `MCDriveQueue`, `MCUpload` and
`MCStopControl` are described in the table; the others use the constants of
`MCJourney`, `MCEvidence` or `MCDetect`:

| Definition | Sentence | What happens |
| --- | --- | --- |
| `DriveQueue.NothingReportedYet`: one worker, `Timely` | `worker.py:596` nothing has been reported yet | A stop-now in the except branch follows a `failed` report with a release. |
| `DriveQueue.OneWorkerPerDrive`: two workers, one drive, no faults, not `Timely` | `internalRoutes.js:17,24` reclaims drives of dead workers | Age alone decides; a slow drive is processed twice at once. |
| `DriveQueue.PendingShipOwnsDir`: two workers with one `WORK_DIR`, not `Timely` | `worker.py:408` nothing else may delete that folder | The second worker of the host deletes the first one's dir. |
| `Upload.PhoneMayForget`, with the constants of `upload_slow`; likewise `EvidenceKept`, `internalRoutes.js:45` | `SessionStore.kt:84` safely on the server | A late cleanup deletes the files of the next attempt before it is queued, and may delete `out/`. |
| `StopControl.RequestHeard` when a second worker starts after the request | `worker.py:624` every worker picks it up | A starting worker removes the request first. |
| `StopControl.NeverHalfWritten`: one worker, two requests; likewise `NeverDowngraded` | `worker_stop.py:58,66` atomic; never downgrades | Two requests at once share the temporary file and a read-then-replace. |
| `Recording.FirstRowIsFirstFrame`, `RowsAlwaysInVideo`, `AllReleased` | index 0 of `frames.csv` is the first encoded frame | The analyzer may hold the frame before; after a call or a look at the map the log goes on without a video; location updates stay on when the screen is left before the recording began. |
| `DriveScreens.BackSeesResult`, `SkippedIdle` | a screen that comes back sees the result | A screen that is built anew may show progress although the upload it watched has ended; going home while a drive uploads may mark it skipped. |
| `EgoPose.SpeedSurvives` | `cut_clip.py` edge frames still have neighbours | The filter starts afresh in a cut: speeds differ from the drive's. |
| `EvidenceClip.FallsBackWhenUnrendered` | `worker.py:347` falls back to the head of the video | The file a failed encoder leaves is taken for the clip. |
| `OfflineBatch.OneRecordPerFinding` | `worker_offline.py:8` | A `--force` run that finds nothing, or is cut off, lists what the bundle of the run before holds. |
| `PlateMemory.HandshakeAsked` | `joiner.py` the car was readable under id 7 | `plate_report` never reads the predecessor. |
| `RunTiming.IndentedRowsInside`, `StartUpCloses` | the indented rows are parts of the row above | An exception in the frame loop loses the time of the row above; shipped on the timer's own thread, a drive's payloads end up in the start-up. |
| `LineEvents.NeverToldTwice` | `events.py:14` a straddle inside a traverse is folded into it | A wide box (a bus, or a car seen askew) straddles the line while its middle is still on its side: that strafe begins before the traverse, is not inside it, and the manoeuvre is told twice. |
| `LineEvents.NoSlowTransit` (with samples lost for three frames), `BiasOnlyShifts` | `config.py`, `events.py` | Samples are counted, so a gap in the track stretches a transit; near the margin a bias can erase a crossing. |
| `CrossingChannels.ConfirmedByOwnEvidence` | `evaluate_crossing` drops incidents without tire evidence | Stage 2 confirms the vehicle, and with it all of its incidents. |
| `ShoulderLine.YellowLongEnough` | "valid >= 3 s" | The age counts frames in which the line was remembered, not those in which it was seen as yellow. |
| `SpeedLimits.NoneWithoutRoad` | no limit only where no road is near | The road that scores best by its direction may be out of reach, and then a nearer one is not asked. |
| `SpeedRuns.SpeedAlwaysTrue` | (no sentence: the bound of `SpeedRuns.SpeedTrusted`) | The gate for collapsed boxes is off by default (`Constants.py:195`): the distance such a box stands for, and the speed over it, are wrong. |
| `Review.ShownAsRecorded` | `authorityController.js:41` verified and driver notified | A verify and a dismiss overlap: the driver is notified and the page says so, the record says dismissed. |
| `ViolationRecords.ReportsThisAttempt` | `worker.py:405` the drive's finished pipeline output | The attempt before died with its bundle written; this one finds nothing, writes none, and reports the other's. |
| `LiveLanes.LabelHeld`, `ShownOnItsSide` | "maintain in between" | A frame without paint turns the label to dashed; after a lane change a line keeps its side. |
| `LiveCrossing.OneMissBridged` | `mask_stabilizer.py` fixes a 1-2 frame dropout | With a cadence above the age, one missed inference clears the mask. |
| `Oncoming.StandingIsNotOncoming` | `V_y`: background motion is compensated | A frame in which the tracker misses the vehicle moves it, and its shift is not in the sum. |

Other things met while modelling, which no run is about: `--sim-speed` imports a module that does not exist
(`main.py:1039`); a spell of speeding too short to be reported still starts the cooldown; `get_speed_limit`
caches a failed lookup, and its cache ignores the radius; a voted plate may be one nobody read as a whole;
the ghost lines of the cascade do not expire by frames, and its side tracker is keyed by the vehicle only;
the caption of a yellow-line crossing says "a solid white lane line" (`export.py:171`); a video that
opens but cannot be decoded drops all crossings in the second pass.

## 4. Fairness

`DriveQueue`: weak fairness of each worker thread (its loop runs, each blocking call has a timeout),
of each handler (the backend serves what reached it) and of the passing of time (`ClaimExpires`).
Nothing is assumed of crashes, losses, stops or of a restart of a worker. `Upload`: weak fairness of
the upload thread, of the handlers, and of the driver starting another attempt, which is what the
"Unfinished Upload" prompt at each launch asks for. `StopControl`: the request process, the watcher
and the main thread run and pending signals are handled; the end of a pipeline is *not* assumed.

## 5. Proofs

`DriveQueueProofs` proves, for any number of drives, workers, claims, violations and faults:

* `TypeCorrect`: `Spec => []TypeOK`;
* `ClaimIsHeld`, `RawIsKept`, `SettledIsFinal`: `ClaimHeld`, `RawKept` and `SettledStays`, for
  `Timely` instances. Without the assumption a slow drive is processed twice at once (§3);
* `ImplementsClaims`: `Timely /\ Spec => OneHolderAtATime`, that the queue implements `DriveClaims`.

The invariant has two layers. `BasicInv` adds to `TypeOK` what a run is: claimed runs have a worker
and a drive (`RunInv`), a run is in the hands of one thread of the worker that claimed it
(`ThreadInv`), only claimed runs have calls (`CallUsed`), and which outcomes go with which place
(`OutcomeInv`: in particular that a stop-now can only cut a failure report). `ClaimInv` is the argument
proper: a run is *engaged* while it works or one of its last calls (complete or release) is under
way; an engaged run holds its drive's claim and is the only engaged run of the drive
(`EngagedInv`); a run makes one last call, after its work (`CallInv`); a stale claim has nobody engaged
(`StaleInv`); and retention only runs for a drive that was processed (`PurgeInv`). `ClaimHeld` alone is
not inductive: it says nothing of the calls that outlive a run, and those are what could settle or
requeue a drive another worker has claimed. The exception in all of them, a drive whose failure
report was cut by a stop-now (`Interrupted`), is what `NothingReportedYet` overlooks (§3).

The refinement takes the kinds of step the invariant distinguishes and maps each: a quiet step to `Leave` or `Dispute`, a poll to
`Reclaim` (by `StaleInv` nobody works on what is stale), a claim to `Take`, the service of a last call to
`Settle` or `GiveBack` (by `CallInv` and `EngagedInv` its run is the one that holds the drive, and is
engaged no longer), and everything to no step for a disputed drive.

`UploadProofs` proves `TypeCorrect` for any `Late`, and `NeverRefused`, `NeverRefusedLater` for
`Late # "late"`. The invariant orders what exists by attempt: only the current attempt has a request
under way (`UnderWayInv`), what a handler found is older than what its attempt creates (`AgeInv`), so
once the current attempt's init succeeded the session's document is that attempt's and only its own
complete changes it (`OwnInv`), and the phone is told so only by that complete (`PhoneInv`). With
`Late = "late"` the first part is false, and so is the property.

`StopControlProofs` proves `TypeCorrect`, `ForcingTakesTwo` (`ForcedByTwo`), `AbandonsOnNow`
(`AbandonedOnNow`) and `LevelNeverFalls` (`LevelRises`). The argument counts: signals counted, pending
and about to be sent by the watcher are at most the user's, plus one that `nudged` announces
(`CountInv`), and `nudged` implies a stop-now (`NudgeInv`).

`DriveShipProofs` proves, of every instance, `Timely` or not: `ExitIsOrderly` (`ExitLeavesNothing`),
`BacklogIsBounded` (`BacklogBounded`), `ClipsComeFirst` (`ClipBeforeDoc`) and `ReportsAreComplete`
(`AllReported`). Two layers on top of `BasicInv` carry them. `PlaceInv`
says where a worker's threads are: what place of the main thread goes with which place of its run
(`MainInv`), that only the head of the ship queue is being shipped and the queue fits its slots
(`QueueInv`), and that a run that is not over is in one of these hands (`HeldInv`); the bound then counts
hands. `EvidenceInv` says what a run has uploaded and posted at each place (`ShippedInv`), and that a
processed drive has a run that said so (`ProcessedInv`); the order of clip and document follows because
clips are never deleted, and a complete that arrives late still is of a run that recorded what it found.

The second half of `DriveShipProofs` proves `NoUnexplainedDuplicates` (`DuplicatesExplained`) for `Timely` instances,
`DirsAreOwned` for all, and `JobDirsAreSafe` (`JobDirsSafe`) when workers share no `WORK_DIR`
(`OwnWorkDirs`, which the runs' instance satisfies). `SoleInv` is about the runs of one drive: a worker has one at a time
(`AloneInv`); one loses its drive only when its worker is on its way out and nothing but the job dir is
left to do (`DisplacedInv`), and a release is sent by such a run, which has posted nothing
(`ReleaseInv`); at most one can still post (`OneInHand`); and one that has posted, whose worker lives
and whose calls arrived, keeps the drive until it is settled (`PostedInv`).

The second half of `UploadProofs` is about the time in which no handler has outlived its call (`prompt`):
`QueuedAreWhole` (`QueuedHasFiles`), `ForgettingIsSafe` (`SafeToForget`) and `AcceptedIsFinal`
(`AcceptedForGood`), for `Late # "late"`. `PromptInv` says that then only the current attempt has a handler
(`ServedInv`), that an init works on a document the phone has not been promised (`ReplaceInv`), which files
are in R2 by how far the PUTs are (`PutInv`), and what accepted and processed drives have (`WholeInv`).

`JourneyProofs` is about the parts of `MCJourney`, its specification for any constants.

* `ReviewersAreTold` (`ReviewTold`), for any number of authorities, clicks and faults: `ReviewInv`
  follows each click's handler to what it saved, and to the note if it got that far.
* `ClipsReachReviewer`, for any clip window: `ClipInv` ties the file on disk to the writer that made it.
* `TracksAreWhole` (`TracksWhole`), for any length and permitted gap: `LoopInv` says that a track has a box in
  every frame since its first and a real one in its last.
* `SessionsStayApart` (`RunsApart`), for any sessions, violations and restarts.
* `RecordingsAreWhole` (`RecordingWhole`), for any length of drive and of sleep: `RecordingInv` follows a
  frame from the camera over the analyzer to its row. It is later than every row there is, was exposed
  while the phone was awake, and is logged only while the recorder is on.
* `UploadsAreTold` (`UploadsTold`), for any number of drives, of screens on top of each other, of waiting
  messages and of kills: `OneInv` counts what may still end the active upload (a start that waits, the
  thread, or a finish that waits, exactly one of them), `PostsInv` says that a waiting message
  that shows progress is followed by the end of that upload if it has ended, and `ViewsInv` that a screen
  that shows progress of an upload that has ended has this end still in front of it.
* `SignInsAreSound`, for any emails, passwords, tabs and POSTs, without an assumption: `HandlersInv` says
  what a handler knows at each await (whom it found, that the code was given) and whose account its answer is,
  of which `OwnAccount` is a part; `BrowserInv` that where the browser keeps an account, a sign-in of one of its
  tabs was taken, which outlives logouts and the tab that made it.
* `ListIsSound`, for any finite set of rows, filters, ranking and page size: `FlyingInv` says that the newest GET
  asks what the filters say, `PageInv` that the page is one there is. That such a page has rows is a counting
  argument: the order is strict and total on the rows shown (`RowsPlaced`), so places differ, and as there
  are as many rows as places every place is taken (`PlacesTaken`).
* `PortalIsSound` (`PortalSound`) is both.

`EvidenceProofs` is about three more parts of `MCJourney`.

* `JobsAreFaithful` (`JobFaithful`), for any number of findings, confidences and key frames: a copy that is
  worked on passed its checks, nothing is announced before it is stored, what is announced is what is stored,
  and whatever is found is queued in the order of the review (`JobInv`).
* `EvidenceIsKept`, for any vehicles, scores, buffer sizes and lengths of clip: `BufferInv` says that a buffer
  holds the best of what was offered, although each eviction only compares with what is still there; `RowsInv`
  that the rows written so far are those of the first events, each with the best crop of its vehicle and
  the plate the vehicle has.
* `RecordsAreTrue` (`RecordsTrue`), for any outcomes of the attempts, fixes and number of attempts: every path names
  the violation its content is of, whichever attempt wrote it (`Of`). `BundleInv` says this of the bundle,
  `MadeInv` that the bundle is this attempt's, and of all it found, or is none of its own, `FilesInv` that the
  job directory, which an earlier attempt may have filled, holds the bundle's files as the bundle does, and
  `PostedInv` of what the backend was told.
* `EvidenceIsTrue` (`EvidenceTrue`) is the last two.

`DetectProofs` is about the parts of `MCDetect` that decide on an incident, its specification for any constants.

* `OcclusionIsBridged`: a ghost is as young as the last sight of its line, and the ghost of a touch has
  not moved off the line (`MaskInv`). `ShoulderIsProven`: a remembered line is as young as its last sight and as
  old as the frames it was seen in, and a candidate frame is right of it (`RideInv`, `ShoulderInv`).
  `CrossingsAreOnPaint`: a pixel of the live mask is on exactly while the frames vouch for it (`CorunInv`: a
  sure one once, a likely one often enough since). `PaintIsRemembered` (`PaintRemembered`) is the three.
* `CrossingsToldOnce`, `ManoeuvresToldOnce` and `SpeedingIsToldOnce`, together `ReportsAreSingle` (`ReportedOnce`).
  `CrossingChannels` and `ShoulderLine` merge runs of hits in the same way, and lemmas about that merging are
  shared: a group ends with the last run that joined it, so two groups are more than a cooldown apart. In
  `LineEvents` the argument is about the stretches a vehicle is committed to a side: between two crossings in one
  direction lies a stretch on the side they start from, and a strafe shares a frame with a crossing only where the
  vehicle keeps to its side with the line under it (`Shared`); that no narrow vehicle does is the geometry of its
  footprint (`FootprintIs`), carried through what is interpolated between samples (`BetweenIs`). In `SpeedingEpisodes`, `GroupedInv` says
  that the frames over the limit are grouped in order and groups lie further apart than a bridged break, `JudgedInv`
  that an episode judged so far is reported, too short, or rests on one before.
* `CrossingIsProven` (`CrossingProven`). `VerdictInv` says that each verdict in the window that counts is of a frame in
  which the vehicle really stood at an edge of the paint it was judged against, `GhostInv` that this paint was in
  view when the vehicle's own box touched paint. What is hard is the geometry below it: that a tire or, without one,
  the base of a box that the code finds near a contour reaches the *edge* of that marking (`ConfirmedReaches`).

The assumptions say that counts are natural numbers (`ClipBounds`, `LoopBounds`, `JobBounds`), that `None` is not a
session, a thread or a message (`ScreensOK`), that rows are finitely many numbers with integer priorities,
a page has room for one, and `None` is neither a row nor a query (`ListBounds`), that a buffer has room for a crop
(`PlateBounds`), that key frames and fixes are numbers of frames and an outcome's violations are of the drive
(`RecordBounds`). Of the detectors:

* a ghost and a remembered line live for a frame at least (`MaskBounds`, `ShoulderBounds`), the upper threshold of the
  mask is not below the lower (`CorunBounds`), frames and cooldowns are numbers (`ChannelBounds`, `SpeedingBounds`);
* `LineBounds`: a side is held for a sample at least, and offsets, widths and gaps are numbers. Nothing is assumed of
  the width: a car at 0.53 of a lane, or a bus, may straddle a line from its side, and `Narrow` (three tenths of
  the width within the margin) is a condition inside the property;
* `CascadeBounds`: a marking has a width and is no wider than a vehicle, a vehicle is wider than a tire, the margin
  of a box without wheels is not the smaller one, and no heading rate is passed, as the pipeline passes none. Paint
  wider than a vehicle would have boxes that lie wholly on it and touch no edge.

The instances TLC checks satisfy all of them, and it checked the invariants before they were proved. "The least", "the
nearest" or "the best" that a definition CHOOSEs exists by a least counterexample (`LeastNatural`), so that no induction
over data is needed.

Only model-checked:

* liveness (`EveryDriveSettles`, `StopEnds`, `NowInterrupts`, `RequestHeard`, `RetriesSucceed`): the
  prover has no rule for fairness and ENABLED here;
* `PlatesEarned`, `LinesSound`, `ClocksTrusted`: votes, tracks of lines and anchors are folds over sorted
  sequences, and what a fold computes for every input needs induction over data, which the installed provers
  cannot do;
* `MotionTrusted`: a speed and a direction are medians and means of a window, sorted by an operator that is passed as
  an argument, again a fold;
* `TrackAsAsked`: the route is thinned by a fold, and the property speaks of the roads of the instance;
* the times of `RunTiming` (`TimesAddUp`), sums over a stack and over the stages the instance names.

No module the proofs use declares a recursive operator, and none of the proofs about the queue, the
upload and the stop control depends on the pipeline modules.

## 6. Not modelled

* The neural networks (vehicle, lane, tire, plate, OCR, embedders) and image processing (masks, edges, flow,
  contours from pixels) are inputs: any answer in a set that the rules distinguish.
* Splines, the Kalman filter beyond what it does to an even motion, Savitzky-Golay smoothing, the logistic confidence model and lens correction: numeric
  without states or guards of their own. Where a rule uses the result, the result is an input or exact.
* The sweeps, evaluations, plots, training and rendering scripts in `tools/`; `fetch_models`: command
  line programs that read files and write pictures or tables, one after the other.
* The search and drive queries of the review API, which no page uses, the manifest's layout and the text of
  documents, notifications' look, the expiry of tokens: they keep nothing whose order matters.
* Build files and deployment.

`PROJECT.json` names the part of each component that is left out.

## 7. Plan

1. An abstract specification of `Upload`, "a session is handed over once", and its refinement.
2. The quota guard of the upload API (`r2.js:97`), whose cached usage counts no upload under way.
3. Lemmas that a fold of a commutative operator does not depend on the order, once a prover can induce over
   sequences: `PlatesEarned` and `MotionTrusted` would follow from them.
