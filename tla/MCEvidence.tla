--------------------------------- MODULE MCEvidence ---------------------------------
(***************************************************************************)
(* From the frames of a drive to what is known of it and of its vehicles:  *)
(* the components on the way, side by side. Each behaviour exercises one of*)
(* them. They share no state, so their product would show nothing more.    *)
(***************************************************************************)
EXTENDS LaneTracks

CONSTANTS None

\* A single line and, four pixels apart, the two halves of a double one.
PaintBase == <<0, 20, 24>>
PaintBoundary == <<1, 2, 2>>

\* A phone in a drive: no fix, standing, driving; turning, straight on, and a silent gyro.
DriveTurns == {[gap |-> 2, rate |-> 12], [gap |-> 4, rate |-> 0], [gap |-> 2, rate |-> None]}
DriveMotions ==
    {[speed |-> None, accel |-> 1], [speed |-> 0, accel |-> 1], [speed |-> 4, accel |-> -1]}

\* The frames of one track: good reads of four plates, one of them of another length,
\* and a blurred, a lost, a small, an unfinished and an unread one.
Box(a, s, p, c, d, i) ==
    [area |-> a, sharp |-> s, plate |-> p, conf |-> c, away |-> d, inside |-> i]
TrackBoxes ==
    {Box(3, 2, <<1, 2>>, 1, 0, <<9, 6>>), Box(2, 2, <<1, 2>>, 3, 0, <<6, 6>>),
     Box(2, 2, <<1, 1>>, 2, 0, <<0, 0>>), Box(2, 2, <<1, 1, 2>>, 1, 1, <<5, 7>>),
     Box(2, 1, <<2, 2>>, 1, 0, <<3, 2>>), Box(4, 0, <<1, 1>>, 1, 0, <<6, 9>>),
     Box(4, None, <<1, 2>>, 3, 0, <<6, 2>>), Box(1, 2, <<2, 1>>, 3, 0, <<6, 2>>),
     Box(3, 2, <<2>>, 3, 0, <<7, 7>>), Box(4, 2, None, 0, 0, <<2, 8>>)}

\* Clips with two tracks at once after a third, two before one, a chain, and gaps too long.
Span(a, b) == [first |-> a, last |-> b]
MemoryClips ==
    {<<Span(1, 4), Span(8, 12), Span(9, 14)>>, <<Span(1, 3), Span(1, 4), Span(8, 10)>>,
     <<Span(1, 2), Span(6, 8), Span(12, 14)>>, <<Span(1, 2), Span(4, 5), Span(30, 31)>>}
\* A camera that stands, one that turned once, one that keeps turning.
MemoryPans ==
    {[f \in 1..31 |-> 0], [f \in 1..31 |-> IF f > 6 THEN 4 ELSE 0],
     [f \in 1..31 |-> IF f % 2 = 0 THEN -2 ELSE 0]}

\* Two phones that were switched on at different times, and fixes few of which were late.
PhoneZero == [p \in {"a", "b"} |-> IF p = "a" THEN 0 ELSE 2]
FixDelays == {<<>>, <<0>>, <<1, 0>>, <<1, 2, 0>>}

\* The lines of a lane and the next one's, one of them hard to tell from dashes.
LivePaint ==
    <<[x |-> -8, looks |-> {"solid"}], [x |-> 8, looks |-> {"solid", "dashed"}],
      [x |-> 24, looks |-> {"solid"}]>>

\* A line that is detected as one class or the other, or not at all, and two at once.
Line(c, f, x) == [class |-> c, conf |-> f, at |-> x]
ClassScenes ==
    {<<>>, <<Line("solid", 3, 0)>>, <<Line("solid", 9, 0)>>, <<Line("dashed", 3, 0)>>,
     <<Line("dashed", 9, 0)>>, <<Line("dashed", 6, 0), Line("solid", 6, 1)>>}

VARIABLES
    part,  \* the component this behaviour exercises
    drive, clip, first,
    clock, stack, cur, opened, began, totals, walls, failed, shipping,
    boxes,
    flow, memoryClip, violating, reads, crops, memorySeen, looks, group, result, stage,
    now, frames, late, outcome, pairs,
    car, mode, side, vps, roi, liveFrames, phase,
    tracks, classesClosed, out, scene, classesFrames

E == INSTANCE EgoPose WITH MaxFrames <- 4, Turns <- DriveTurns, Motions <- DriveMotions,
                           Delays <- {0, 1}, Epoch <- 1000, Starts <- {0, 2, 3},
                           Lengths <- {3, 5, 20}, Guard <- 2, MinFixes <- 2,
                           MinSamples <- 3, GapLimit <- 3, TauLow <- 1, TauFast <- 4,
                           FullSpeed <- 4, Stopped <- 0, Sign <- 1
K == INSTANCE RunTiming WITH
                             Timed <- {"load.total", "pipeline.total", "loop.total", "loop.decode", "worker.payloads"},
                             MaxClock <- 2, MaxSessions <- 2, ShipAsync <- TRUE
V == INSTANCE PlateVotes WITH Boxes <- TrackBoxes, Length <- 4, MinArea <- 1, MinSharp <- 1,
                              MaxFrames <- 3, Valid <- {2, 3}, MinInside <- 6
M == INSTANCE PlateMemory WITH Clips <- MemoryClips, Pans <- MemoryPans, Scores <- {1, 2},
                               Looks <- {0, 2, 4}, Places <- {0, 1, 3}, GapMin <- 3,
                               GapMax <- 5, Near <- 1, MaxGap <- 12, Alike <- 2,
                               clip <- memoryClip, seen <- memorySeen
Y == INSTANCE FrameMap WITH Zero <- PhoneZero, Fixes <- FixDelays, MaxGap <- 2,
                            Instants <- 5
W == INSTANCE LiveLanes WITH Paint <- LivePaint, Starts <- {0}, Shifts <- {2}, View <- 12,
                             Reach <- 8, SlopeDelta <- 7, HistoryLen <- 2, MaxMissed <- 2,
                             Hit <- 2, Miss <- 1, Cap <- 4, High <- 3, Low <- 1,
                             VotesLen <- 2, ScoreHit <- 2, ScoreMiss <- 1, ScoreCap <- 4,
                             ScoreHigh <- 3, ScoreLow <- 1,
                             Modes <- {"BASELINE", "STRIP", "GRADIENT"}, Horizons <- {2, 5},
                             VpMin <- 2, VpMax <- 9, VpLen <- 2, VpOffset <- 1,
                             DefaultTop <- 7, TopMax <- 9, MaxFrames <- 6,
                             frames <- liveFrames
A == INSTANCE ClassVotes WITH Scenes <- ClassScenes, Classes <- {"solid", "dashed"},
                              Window <- 3, Reach <- 1, Margin <- 5, SwitchK <- 2,
                              ConfGate <- 4, Death <- 1, MaxFrames <- 6,
                              closed <- classesClosed, frames <- classesFrames

poseVars == <<drive, clip, first>>
timingVars == <<clock, stack, cur, opened, began, totals, walls, failed, shipping>>
votesVars == <<boxes>>
memoryVars == <<flow, memoryClip, violating, reads, crops, memorySeen, looks, group, result,
                stage>>
syncVars == <<now, frames, late, outcome, pairs>>
liveVars == <<car, mode, side, vps, roi, liveFrames, phase>>
classesVars == <<tracks, classesClosed, out, scene, classesFrames>>
DriveVars == <<part, vars, poseVars, timingVars, votesVars, memoryVars, syncVars, liveVars,
               classesVars>>

poseUnused == drive = "-" /\ clip = "-" /\ first = "-"
timingUnused == clock = "-" /\ stack = "-" /\ cur = "-" /\ opened = "-" /\ began = "-" /\
                totals = "-" /\ walls = "-" /\ failed = "-" /\ shipping = "-"
votesUnused == boxes = "-"
memoryUnused == flow = "-" /\ memoryClip = "-" /\ violating = "-" /\ reads = "-" /\
                crops = "-" /\ memorySeen = "-" /\ looks = "-" /\ group = "-" /\
                result = "-" /\ stage = "-"
syncUnused == now = "-" /\ frames = "-" /\ late = "-" /\ outcome = "-" /\ pairs = "-"
liveUnused == car = "-" /\ mode = "-" /\ side = "-" /\ vps = "-" /\ roi = "-" /\
              liveFrames = "-" /\ phase = "-"
classesUnused == tracks = "-" /\ classesClosed = "-" /\ out = "-" /\ scene = "-" /\
                 classesFrames = "-"

DriveInit ==
    /\ part \in {"tracks", "pose", "timing", "votes", "memory", "sync", "live", "classes"}
    /\ Init
    /\ IF part = "pose" THEN E!Init ELSE poseUnused
    /\ IF part = "timing" THEN K!Init ELSE timingUnused
    /\ IF part = "votes" THEN V!Init ELSE votesUnused
    /\ IF part = "memory" THEN M!Init ELSE memoryUnused
    /\ IF part = "sync" THEN Y!Init ELSE syncUnused
    /\ IF part = "live" THEN W!Init ELSE liveUnused
    /\ IF part = "classes" THEN A!Init ELSE classesUnused

DriveNext ==
    /\ UNCHANGED part
    /\ IF part = "tracks" THEN Next ELSE UNCHANGED vars
    /\ IF part = "pose" THEN E!Next ELSE UNCHANGED poseVars
    /\ IF part = "timing" THEN K!Next ELSE UNCHANGED timingVars
    /\ IF part = "votes" THEN V!Next ELSE UNCHANGED votesVars
    /\ IF part = "memory" THEN M!Next ELSE UNCHANGED memoryVars
    /\ IF part = "sync" THEN Y!Next ELSE UNCHANGED syncVars
    /\ IF part = "live" THEN W!Next ELSE UNCHANGED liveVars
    /\ IF part = "classes" THEN A!Next ELSE UNCHANGED classesVars

DriveSpec == DriveInit /\ [][DriveNext]_DriveVars

-----------------------------------------------------------------------------
(* RunTiming *)

\* The table of a session that went through adds up, and no session's stages take more
\* than its wall time, whatever the ship thread measures meanwhile: the walls of the
\* start-up and of the sessions do not overlap either.
TimesAddUp == part = "timing" => K!TimesAddUp

(* PlateMemory *)

\* By hand, violated. "tracks that OVERLAP IN TIME are different physical objects ... and
\* are never linked" (reid_linker.py): two unread violators side by side that resemble the
\* same later track end in one group and are filed with one plate.
NeverLinkedAlive == part = "memory" => M!NeverLinkedAlive

\* A plate a violation is filed with is one the clip supports: the votes over the frames of
\* a track elect what they show, and a track without a plate takes none but the best of a
\* track that is likely the same car, by its place or by its looks.
PlatesEarned ==
    /\ part = "votes" => V!VotesSound
    /\ part = "memory" => M!PlatesWellFounded

\* A clock is right where it is used: a cut of a drive is a drive, what the phone measured of
\* the car's motion comes out of it as out of the whole; and two recordings of one drive are
\* put side by side frame by frame, whatever few fixes were late.
ClocksTrusted ==
    /\ part = "pose" => E!MotionSurvives
    /\ part = "sync" => Y!FramesPaired

\* The lines of the road stay what is painted: every tracked line is one boundary's markings,
\* no marking is two lines and of a double line one half fires; the lines of a lane keep their
\* place, presence and type through misses and noise; and the class a line is shown with
\* changes no more often than the one it is detected as.
LinesSound ==
    /\ LinesAreMarkings
    /\ part = "live" => W!LinesKept
    /\ part = "classes" => A!ClassesSteady

=============================================================================
