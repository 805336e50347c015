---------------------------- MODULE EvidenceClip ----------------------------
(***************************************************************************)
(* The clip of each violation, from the frames around its key frame to the    *)
(* object the reviewer's browser opens: violations/clip_extract.py,           *)
(* annotate_clip.py and clip_encoder.py while the pipeline exports,           *)
(* worker_common.py while the bundle is unpacked, worker.py while it ships.   *)
(* ffmpeg may be missing, die on a frame, or report failure at its end.       *)
(***************************************************************************)
EXTENDS Integers, FiniteSets, FiniteSetsExt

CONSTANTS
    N,        \* violations 1..N, in the order of the manifest (a bound)
    Total,    \* frames the pipeline counted in the video (a bound)
    Pre, Post \* PRE_ROLL_SEC and POST_ROLL_SEC in frames

VARIABLES
    ffmpeg,  \* ffmpeg is on this host
    key,     \* the key frame of each violation
    phase,   \* "open", "render", "release", "unpack", "ship", "shipped" or "failed"
    now,     \* the violation in hand
    writer,  \* ClipWriter: "ffmpeg", "broken" (ffmpeg died), "cv2" or "none"
    pos,     \* the next frame of the source
    frames,  \* per violation, the frames its writer took
    file,    \* per violation, what <violation_id>.mp4 is: "none", "h264", "mp4v" or "cut"
    clip,    \* the violations whose export record has a clip
    head,    \* the 5 s cut of the raw video, once it has been uploaded
    sent     \* per violation, what videoClipPath leads to; "none" so far

vars == <<ffmpeg, key, phase, now, writer, pos, frames, file, clip, head, sent>>

Ids == 1..N
Kinds == {"none", "h264", "mp4v", "cut", "head"}

Init ==
    /\ ffmpeg \in BOOLEAN
    /\ key \in [Ids -> 0..Total-1]
    /\ phase = "open" /\ now = 1
    /\ writer = "none" /\ pos = 0
    /\ frames = [v \in Ids |-> {}]
    /\ file = [v \in Ids |-> "none"]
    /\ clip = {} /\ head = "none"
    /\ sent = [v \in Ids |-> "none"]

-----------------------------------------------------------------------------
(* Rendering, one violation after the other *)

\* clip_window, clamped to the frames of the video.
LastFrame(v) == Min({key[v] + Post, Total - 1})
FirstFrame(v) == Min({Max({0, key[v] - Pre}), LastFrame(v)})

Window(v) == FirstFrame(v) .. LastFrame(v)

\* The loop of export_and_push_violations goes on to the next violation, or bundles.
Continue == /\ phase' = IF now = N THEN "unpack" ELSE "open"
            /\ now' = IF now = N THEN 1 ELSE now + 1

\* The source or the writer cannot be opened: the violation ships without a clip.
RenderFailsAtOnce ==
    /\ phase = "open"
    /\ Continue
    /\ UNCHANGED <<ffmpeg, key, writer, pos, frames, file, clip, head, sent>>

\* ffmpeg is started before the first frame, or cv2's mp4v writer takes its place.
OpenWriter ==
    /\ phase = "open"
    /\ writer' = IF ffmpeg THEN "ffmpeg" ELSE "cv2"
    /\ pos' = FirstFrame(now)
    /\ phase' = "render"
    /\ UNCHANGED <<ffmpeg, key, now, frames, file, clip, head, sent>>

\* One frame: read, annotated, written; a dead ffmpeg takes no more of them.
WriteFrame == \E alive \in BOOLEAN :
    /\ phase = "render" /\ pos \in Window(now)
    /\ alive \/ writer = "ffmpeg"
    /\ IF alive /\ writer # "broken"
       THEN frames' = [frames EXCEPT ![now] = @ \cup {pos}] /\ UNCHANGED writer
       ELSE writer' = "broken" /\ UNCHANGED frames
    /\ pos' = pos + 1
    /\ UNCHANGED <<ffmpeg, key, phase, now, file, clip, head, sent>>

\* The window is done, or the source ends first.
EndOfFrames ==
    /\ phase = "render"
    /\ phase' = "release"
    /\ UNCHANGED <<ffmpeg, key, now, writer, pos, frames, file, clip, head, sent>>

\* release(): raises when ffmpeg failed, was cut off after 900 s or left nothing; what
\* it wrote until then stays on the disk.
Release == \E ok \in BOOLEAN, left \in {"none", "cut"} :
    /\ phase = "release"
    /\ ok => writer # "broken"
    /\ ~ok => writer # "cv2"
    /\ file' = [file EXCEPT ![now] = IF ~ok THEN left
                                     ELSE IF writer = "cv2" THEN "mp4v" ELSE "h264"]
    /\ clip' = IF ok THEN clip \cup {now} ELSE clip
    /\ writer' = "none"
    /\ Continue
    /\ UNCHANGED <<ffmpeg, key, pos, frames, head, sent>>

-----------------------------------------------------------------------------
(* Unpacking and shipping *)

\* move_clips takes whatever file has the violation's name.
OnlyH264(v) == file[v] = "h264"                                                 \* mutant
Moved(v) == file[v] # "none"

Unpack ==
    /\ phase = "unpack"
    /\ phase' = "ship"
    /\ UNCHANGED <<ffmpeg, key, now, writer, pos, frames, file, clip, head, sent>>

\* upload_clip: anything but H.264 is encoded again, and goes up as it is when that fails.
Uploaded(kind) == IF kind = "h264" \/ ~ffmpeg THEN {kind} ELSE {kind, "h264"}

Fallback(v) == "head"

\* upload_evidence, for one violation: its clip, or the one cut of the raw video's head.
ShipClip ==
    /\ phase = "ship"
    /\ IF Moved(now)
       THEN /\ \E kind \in Uploaded(file[now]) : sent' = [sent EXCEPT ![now] = kind]
            /\ UNCHANGED head
       ELSE sent' = [sent EXCEPT ![now] = Fallback(now)] /\ head' = "head"
    /\ phase' = IF now = N THEN "shipped" ELSE "ship"
    /\ now' = IF now = N THEN now ELSE now + 1
    /\ UNCHANGED <<ffmpeg, key, writer, pos, frames, file, clip>>

\* Neither the head of the video nor the upload can be had: the drive fails.
ShipFails ==
    /\ phase = "ship"
    /\ phase' = "failed"
    /\ UNCHANGED <<ffmpeg, key, now, writer, pos, frames, file, clip, head, sent>>

Next == RenderFailsAtOnce \/ OpenWriter \/ WriteFrame \/ EndOfFrames \/ Release
        \/ Unpack \/ ShipClip \/ ShipFails

Spec == Init /\ [][Next]_vars

-----------------------------------------------------------------------------
\* The backend requires a clip: whatever failed while rendering, every violation that
\* is reported has something to open.
NeverWithoutClip == phase = "shipped" => \A v \in Ids : sent[v] # "none"

\* A clip whose writer took every frame of its window shows the violation's key frame,
\* at either end of the video.
ShowsKeyFrame == \A v \in clip : Window(v) \subseteq frames[v] => key[v] \in frames[v]

\* A clip that was rendered whole goes up as the H.264 it is, or, from a host without
\* ffmpeg, as the mp4v that stands in for it: never the cut of the raw video.
RenderedGoesUp == \A v \in clip : sent[v] \in {"none", "h264", "mp4v"}

\* A violation whose clip failed to render falls back to the cut of the raw video.
FallsBackWhenUnrendered ==
    \A v \in Ids : v \notin clip /\ sent[v] # "none" => sent[v] = "head"

\* Every reported violation has something to open, and it is its own clip, with the key
\* frame in it, whenever that was rendered whole.
ClipReachesReviewer == NeverWithoutClip /\ ShowsKeyFrame /\ RenderedGoesUp
=============================================================================
