----------------------------- MODULE FrameLoop -----------------------------
(***************************************************************************)
(* From the video file to the tracks: video_handler.py reads the frames in    *)
(* order with one decoder or the other, main.py's loop hands each to the      *)
(* tracker and keeps what it says of a vehicle in the World (Objects/), and   *)
(* bbox_interpolator.py fills the short gaps once the video has ended.        *)
(***************************************************************************)
EXTENDS Integers, FiniteSets, FiniteSetsExt

CONSTANTS
    Length,     \* frames of the video (a bound)
    MaxGap,     \* MAX_GAP_SECONDS in frames
    Vehicles,   \* track ids
    Limits      \* what --max-frames may be; 0 is no limit

VARIABLES
    pc,       \* "open", "loop", "read", "fill", "filled" or "raised"
    decoder,  \* VideoHandler: "cv2", "ffmpeg" or "none"
    broken,   \* the frame from which on the decoder in use fails
    limit,    \* --max-frames
    frame,    \* frame_id of main's loop
    seen,     \* per frame id, the vehicles the tracker reported in it
    start, end, \* Vehicle.start_frame and end_frame
    box       \* Vehicle.bounding_box: per frame "real", "zero" or "filled"

vars == <<pc, decoder, broken, limit, frame, seen, start, end, box>>
file == <<decoder, broken, limit>>
tracks == <<start, end, box>>

Absent == -1
Frames == 0..Length-1

Init ==
    /\ pc = "open" /\ decoder = "none"
    /\ broken \in 0..Length
    /\ limit \in Limits
    /\ frame = 0
    /\ seen = [f \in {} |-> {}]
    /\ start = [v \in Vehicles |-> Absent]
    /\ end = [v \in Vehicles |-> Absent]
    /\ box = [v \in Vehicles |-> [f \in {} |-> "real"]]

-----------------------------------------------------------------------------
(* VideoHandler *)

\* The constructor reads the first frame: cv2 when it opens and decodes the file, a pipe
\* from ffmpeg when it does not, and an error when that has no first frame either.
Open ==
    /\ pc = "open"
    /\ IF broken = 0
       THEN pc' = "raised" /\ UNCHANGED decoder
       ELSE pc' = "loop" /\ decoder' \in {"cv2", "ffmpeg"}
    /\ UNCHANGED <<broken, limit, frame, seen, tracks>>

-----------------------------------------------------------------------------
(* The loop of process_video_with_models *)

\* updateBoxAndEndFrame: the frames the tracker left out since the last box get zeros.
LeavesHole(v) == {}                                                             \* mutant
Missing(v) == IF end[v] = Absent THEN {} ELSE (end[v] + 1) .. (frame - 1)

WithBox(v) == [f \in DOMAIN box[v] \cup Missing(v) \cup {frame} |->
    IF f = frame THEN "real" ELSE IF f \in DOMAIN box[v] THEN box[v][f] ELSE "zero"]

\* processFrame: the boxes with a track id that are vehicles.
ProcessFrame == \E here \in SUBSET Vehicles :
    /\ pc = "loop"
    /\ seen' = [f \in DOMAIN seen \cup {frame} |-> IF f = frame THEN here ELSE seen[f]]
    /\ start' = [v \in Vehicles |-> IF v \in here /\ start[v] = Absent THEN frame ELSE start[v]]
    /\ box' = [v \in Vehicles |-> IF v \in here THEN WithBox(v) ELSE box[v]]
    /\ end' = [v \in Vehicles |-> IF v \in here THEN frame ELSE end[v]]
    /\ frame' = frame + 1
    /\ pc' = IF limit # 0 /\ frame + 1 >= limit THEN "fill" ELSE "read"
    /\ UNCHANGED file

\* read_next: the next frame, or the end of the video or of what can be decoded of it.
ReadNext ==
    /\ pc = "read"
    /\ pc' = IF frame < Min({Length, broken}) THEN "loop" ELSE "fill"
    /\ UNCHANGED <<file, frame, seen, tracks>>

-----------------------------------------------------------------------------
(* interpolate_bbox_gaps *)

RealFrames(v) == {f \in DOMAIN box[v] : box[v][f] = "real"}

Fills(gap) == gap > 0 /\ gap <= MaxGap

\* The frames strictly between two neighbouring real boxes that are near enough.
InShortGap(v, f) == \E a, b \in RealFrames(v) :
    /\ a < f /\ f < b
    /\ \A c \in (a + 1) .. (b - 1) : c \notin RealFrames(v)
    /\ Fills(b - a - 1)

FillGaps ==
    /\ pc = "fill"
    /\ box' = [v \in Vehicles |-> [f \in DOMAIN box[v] |->
                  IF InShortGap(v, f) THEN "filled" ELSE box[v][f]]]
    /\ pc' = "filled"
    /\ UNCHANGED <<file, frame, seen, start, end>>

Next == Open \/ ProcessFrame \/ ReadNext \/ FillGaps

Spec == Init /\ [][Next]_vars

-----------------------------------------------------------------------------
\* A track has an entry for every frame from its first to its last, and none outside:
\* later stages index a vehicle's boxes by any frame in between.
TracksHaveNoHoles == \A v \in Vehicles :
    DOMAIN box[v] = IF start[v] = Absent THEN {} ELSE start[v] .. end[v]

\* A box is only made up where the vehicle was seen within the gap on either side of it.
FilledBetweenSightings == \A v \in Vehicles : \A f \in DOMAIN box[v] :
    box[v][f] = "filled" =>
        /\ \E a \in RealFrames(v) : f - MaxGap <= a /\ a < f
        /\ \E b \in RealFrames(v) : f < b /\ b <= f + MaxGap

\* A track is an unbroken series of boxes, and what is made up in it lies between sightings.
TracksWhole == TracksHaveNoHoles /\ FilledBetweenSightings
=============================================================================
