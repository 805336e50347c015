----------------------------- MODULE Recording -----------------------------
(***************************************************************************)
(* The recording of a drive: RecordingActivity and RecordingSession of the    *)
(* phone app. The handlers of the activity run on the main thread; the frames  *)
(* are logged by the thread of the analyzer, and the recorder of the camera     *)
(* library starts and finalizes the video on its own. A frame carries its       *)
(* number and the two clocks at its exposure: the one that stands still while    *)
(* the phone sleeps, and the one every stream is logged on.                     *)
(***************************************************************************)
EXTENDS Integers, SequencesExt

CONSTANTS
    MaxFrames,  \* frames the camera delivers (a bound)
    MaxSleep,   \* times the phone sleeps (a bound)
    None

VARIABLES
    main,      \* what the main thread of the activity is at
    camera,    \* off, opening, bound; paused while the app is in the background
    recorder,  \* none, starting, on, finalizing, final
    started,   \* the Start event waits for the main thread
    flags,     \* the set of what is on: capturing, sensors, screen, location
    clock,     \* [source, offset, slept]: the clock of the frames, the offset measured
               \* at onCreate, how long the phone has slept
    taken,     \* frames the camera has delivered
    image,     \* the frame the analyzer will get next, None without one
    held,      \* the frame it is about to log, None without one
    rows,      \* what RecordingSession holds of frames.csv
    video,     \* the frames of the video file
    files,     \* frames.csv as written, None before
    left       \* the app was left for another in the middle of the recording

vars == <<main, camera, recorder, started, flags, clock, taken, image, held, rows, video, files,
          left>>

activity == <<main, started, flags>>
frames   == <<taken, image, held, rows, video>>

\* onCreate, after configureCameraClockAndIntrinsics.
Init ==
    /\ main \in {"asking", "running"}
    /\ camera = IF main = "running" THEN "opening" ELSE "off"
    /\ recorder = "none" /\ started = FALSE
    /\ flags = IF main = "running" THEN {"location"} ELSE {}
    /\ clock \in [source : {"realtime", "monotonic"}, offset : {0}, slept : {0}]
    /\ taken = 0 /\ image = None /\ held = None /\ rows = <<>> /\ video = {}
    /\ files = None /\ left = FALSE

Alive == main # "destroyed"
Idle  == main \in {"asking", "running", "post", "finishing"}   \* between two handlers

-----------------------------------------------------------------------------
(* The main thread *)

PermissionsAnswered ==
    /\ main = "asking"
    /\ \/ main' = "running" /\ camera' = "opening" /\ flags' = flags \cup {"location"}
       \/ main' = "finishing" /\ UNCHANGED <<camera, flags>>
    /\ UNCHANGED <<recorder, started, clock, frames, files, left>>

\* The listener of startCamera: bind, then beginRecording. A lifecycle that is destroyed
\* refuses to be bound.
CameraOpened ==
    /\ camera = "opening" /\ Idle
    /\ camera' = "bound" /\ recorder' = "starting"
    /\ UNCHANGED <<activity, clock, frames, files, left>>

LetsScreenGo == {"sensors", "capturing"}                                        \* mutant
\* What the Start event turns on.
Opened == {"screen", "sensors", "capturing"}

\* VideoRecordEvent.Start
StartEvent ==
    /\ started /\ (Idle \/ ~Alive)
    /\ started' = FALSE
    /\ flags' = flags \cup Opened
    /\ UNCHANGED <<main, camera, recorder, clock, frames, files, left>>

ClosesNothing(on) == on                                                          \* mutant
\* What stopRecordingAndProceed turns off before it stops the recorder.
Closed(on) == on \ {"capturing", "screen", "sensors"}

\* stopRecordingAndProceed, step by step: the other threads run meanwhile.
StopClicked ==
    /\ main = "running" /\ camera # "paused"
    /\ main' = "stopping"
    /\ flags' = Closed(flags)
    /\ UNCHANGED <<camera, recorder, started, clock, frames, files, left>>

Stopped(state) == IF state = "on" THEN "finalizing"
                  ELSE IF state = "starting" THEN "none" ELSE state

StopRecorder ==
    /\ main = "stopping"
    /\ main' = "writing"
    /\ recorder' = Stopped(recorder)
    /\ UNCHANGED <<camera, started, flags, clock, frames, files, left>>

\* writeSessionFiles, under the lock of the session.
WriteFiles ==
    /\ main = "writing"
    /\ files' = rows
    /\ main' = "post"                          \* PostDriveActivity is started
    /\ UNCHANGED <<camera, recorder, started, flags, clock, frames, left>>

\* The back gesture: the activity finishes, nothing is written.
BackPressed ==
    /\ main = "running" /\ main' = "finishing"
    /\ UNCHANGED <<camera, recorder, started, flags, clock, frames, files, left>>

\* onDestroy; the camera goes with the lifecycle, the location updates stay requested.
Destroy ==
    /\ main \in {"post", "finishing"}
    /\ main' = "destroyed" /\ camera' = "off"
    /\ recorder' = Stopped(recorder)
    /\ flags' = Closed(flags)
    /\ UNCHANGED <<started, clock, frames, files, left>>

-----------------------------------------------------------------------------
(* The camera library, the analyzer and the phone *)

RecorderStarts ==
    /\ recorder = "starting"
    /\ recorder' = "on" /\ started' = TRUE
    /\ UNCHANGED <<main, camera, flags, clock, frames, files, left>>

\* VideoRecordEvent.Finalize: the activity only logs it.
Finalized ==
    /\ recorder = "finalizing" /\ recorder' = "final"
    /\ UNCHANGED <<activity, camera, clock, frames, files, left>>

\* A frame goes to the video and to the analyzer, which keeps the latest it has not begun.
Frame ==
    LET frame == [number |-> taken + 1, awake |-> taken + 1, boot |-> taken + 1 + clock.slept]
    IN /\ camera = "bound" /\ taken < MaxFrames
       /\ taken' = taken + 1
       /\ video' = IF recorder = "on" THEN video \cup {taken + 1} ELSE video
       /\ image' = frame
       /\ UNCHANGED <<activity, camera, recorder, clock, held, rows, files, left>>

\* The analyzer looks at isCapturing ...
Analyze ==
    /\ image # None /\ held = None
    /\ held' = IF "capturing" \in flags THEN image ELSE None
    /\ image' = None
    /\ UNCHANGED <<activity, camera, recorder, clock, taken, rows, video, files, left>>

Stamp(frame) == IF clock.source = "realtime" THEN frame.boot ELSE frame.awake + clock.offset

\* ... and logs the frame: addFrame.
AddFrame ==
    /\ held # None
    /\ rows' = Append(rows, [frame |-> Len(rows), of |-> held.number,
                             off |-> Stamp(held) - held.boot])
    /\ held' = None
    /\ UNCHANGED <<activity, camera, recorder, clock, taken, image, video, files, left>>

\* The activity leaves the screen: the camera closes, which finalizes the video, while
\* isCapturing and the sensors stay.
Hidden ==
    /\ main = "running" /\ camera = "bound"
    /\ camera' = "paused" /\ recorder' = Stopped(recorder)
    /\ UNCHANGED <<activity, clock, frames, files>>

\* A call comes in, or the driver looks at a map.
Leave == Hidden /\ left' = TRUE

\* The screen times out, unless something keeps it on; not so soon that the Start event
\* of a recording is still to come.
TimesOut == "screen" \notin flags /\ recorder # "starting" /\ ~started /\ Hidden /\ UNCHANGED left

Return ==
    /\ camera = "paused" /\ camera' = "bound"
    /\ UNCHANGED <<activity, recorder, clock, frames, files, left>>

\* With no camera running the phone may sleep.
Sleep ==
    /\ camera # "bound" /\ Alive
    /\ clock.slept < MaxSleep
    /\ clock' = [clock EXCEPT !.slept = @ + 1]
    /\ UNCHANGED <<activity, camera, recorder, frames, files, left>>

Next == \/ PermissionsAnswered \/ CameraOpened \/ StartEvent \/ StopClicked \/ StopRecorder
        \/ WriteFiles \/ BackPressed \/ Destroy \/ RecorderStarts \/ Finalized \/ Frame
        \/ Analyze \/ AddFrame \/ Leave \/ TimesOut \/ Return \/ Sleep

Spec == Init /\ [][Next]_vars

-----------------------------------------------------------------------------
\* The rows of frames.csv are frames of the video, in its order, none of them twice: the
\* window of the log opens after the recorder started and closes before it is stopped, a
\* frame the analyzer still holds included. The first row may be the frame before, which
\* the analyzer had not looked at yet.
RowsAreVideoFrames == \A i \in DOMAIN files :
    /\ i = 1 \/ files[i].of \in video
    /\ \A j \in 1..i - 1 : files[j].of < files[i].of

\* The clock of the frames may be off, by the time the phone slept before the recording, but
\* by as much in every row: it does not sleep while frames are logged.
ClockSteady == \A i, j \in DOMAIN files : files[i].off = files[j].off

\* What the phone hands over of a drive whose driver stayed in the app is one recording.
RecordingWhole == files # None /\ ~left => RowsAreVideoFrames /\ ClockSteady

\* Checked by hand: "the recording is already complete on disk (RecordingActivity writes the
\* video + CSVs before launching this screen)" (PostDriveActivity.onCreate).
CompleteOnDisk == main = "post" /\ video # {} => recorder = "final" /\ files # None

\* Checked by hand: "frames.csv index 0 lines up with the first encoded video frame".
FirstRowIsFirstFrame == files # None /\ files # <<>> /\ ~left => \A n \in video : n >= files[1].of

\* Checked by hand: the rows are frames of the video after a call or a look at the map, too.
RowsAlwaysInVideo == files # None => RowsAreVideoFrames

\* Checked by hand: nothing is on once the screen is gone.
AllReleased == main = "destroyed" /\ ~started => flags = {}
=============================================================================
