---------------------------------- MODULE MCDetect ----------------------------------
(***************************************************************************)
(* From the boxes and the paint of the frames to the violations of a drive:*)
(* the components of the detection, side by side, one per behaviour.       *)
(***************************************************************************)
EXTENDS Cascade

CONSTANTS v1, v2, None, NoBox,
          Offsets, Lost, Samples, LineMargin, Hold, StraddleHold, MinTransit, MaxTransit,
          Tenths, Sights, Aspects, MaxAspect, \* LineEvents
          ClipFrames, Yellows, KConsec, LastHits, \* CrossingChannels
          MaskFrames, GhostTTL, Phantom, Confidences, Columns, Drift, \* GhostMask
          RideFrames, MinAge, MemoryTTL, KFrames, Distances, \* ShoulderLine
          RowWidth, Watched, Hidden, SegScenes, LaneSets, Cadences, THigh, TLow, MaxAge,
          Close, Dilate, RowFrames, \* LiveCrossing
          DriveFrames, RoadSpeeds, Threshold, ReportCooldown, MinFramesOver, \* SpeedingEpisodes
          MaxGap, MaxMiss, Cooldown  \* shared by several of them

\* The roads near the drive: one of every kind of tag and direction that is told apart.
MapRoads ==
    <<[from |-> -8, to |-> -5, heading |-> 0, oneway |-> "yes", class |-> "primary", maxspeed |-> "30 mph"],
      [from |-> 14, to |-> 30, heading |-> 2, oneway |-> "-1", class |-> "residential", maxspeed |-> ""],
      [from |-> 3, to |-> 3, heading |-> 1, oneway |-> "", class |-> "footway", maxspeed |-> "80"],
      [from |-> 12, to |-> 12, heading |-> 2, oneway |-> "", class |-> "motorway", maxspeed |-> "none"],
      [from |-> -40, to |-> -30, heading |-> 0, oneway |-> "", class |-> "service", maxspeed |-> "IL:30"]>>

\* Two painted lines with a lane's width between them.
VehiclePlaces == {-7, -2, 0}
RoadPaint == <<[from |-> 2, to |-> 3], [from |-> 9, to |-> 10]>>

\* What the seg head sees of a row: nothing, two lines, a faint one, a dashed one by one.
White(ps, c) == [type |-> "solid_white", at |-> ps, conf |-> c]
LiveScenes ==
    {<<>>, <<White({1}, 40), White({3}, 40)>>, <<White({1}, 30)>>,
     <<[type |-> "dashed", at |-> {1}, conf |-> 90], White({1}, 40)>>}

\* Where a car may be: beside a line, across the width of the image, by the shoulder line.
VehicleOffsets == {-40, -16, 0, 16}
LensColumns == -3..4
ShoulderDistances == {-1, 1, 2}

VARIABLES
    part,  \* the component this behaviour exercises
    frames, raw, aspect,
    pc, timeline, touching, incidents, secondPass, confirmed, channelsContacts, crossings,
    frame, right, track, maskGhost, at, hit, sinceLine, sinceTouch,
    shoulderPc, shoulderTrack, mem, recs, shoulderIncidents, keys, sightings, sinceSeen,
    gone,
    kind, ours, oncomingAt, oncomingTrack, prev, resid, clip,
    fixes, limits, answered, failures, down, sent, cache, flagged, lookups,
    motion, posed, ego, boxes, flaws, distance, rejected, speed,
    head, masks, lanes, age, anchor, violators, told, seen,
    speedingSpeed, todo, episodes, judged, lastOnset, events

L == INSTANCE LineEvents WITH NoOffset <- None, MaxLen <- Samples, Margin <- LineMargin
C == INSTANCE CrossingChannels WITH Length <- ClipFrames, M <- LastHits,
                                    contacts <- channelsContacts
G == INSTANCE GhostMask WITH MaxFrame <- MaskFrames, TTL <- GhostTTL, ghost <- maskGhost
S == INSTANCE ShoulderLine WITH Length <- RideFrames, TTL <- MemoryTTL, pc <- shoulderPc,
                                track <- shoulderTrack, incidents <- shoulderIncidents
N == INSTANCE Oncoming WITH Length <- 4, Starts <- {1}, Shifts <- {0, 1}, Approach <- 2,
                            Depths <- {0, 20, 80}, Window <- 3, Stale <- 1, SpeedWin <- 2,
                            Full <- 3, Horizon <- 2, Mid <- 4, K <- 2, at <- oncomingAt,
                            track <- oncomingTrack
O == INSTANCE SpeedLimits WITH Roads <- MapRoads, Spots <- {0, 1, 9}, Bearings <- {2},
                               MaxFixes <- 3, FrameTimes <- <<2, 5, 6>>, Radius <- 6,
                               Weight <- 12, Spacing <- 5, MaxPoints <- 2, Cell <- 2,
                               BoxMargin <- 40, Requests <- 2, FailureLimit <- 1,
                               Speeds <- {70, 130}, Margin <- 10, MinFramesOver <- 1,
                               MaxLookups <- 2
R == INSTANCE SpeedRuns WITH Length <- 5, Start <- <<8, 8>>,
                             Motions <- {<<0, 0>>, <<1, 0>>, <<-1, 0>>, <<0, -2>>},
                             Flaws <- {"missing", "clipped", "collapsed"}, LatSign <- 1,
                             MaxDistance <- 36, MinRunLen <- 3, MinTrackFrames <- 2,
                             HampelSigmas <- 3, TowardMin <- 2, PosedFrames <- {2, 5},
                             Unknown <- None
X == INSTANCE LiveCrossing WITH Width <- RowWidth, Vehicles <- Watched, Scenes <- SegScenes,
                                MaxFrames <- RowFrames
E == INSTANCE SpeedingEpisodes WITH Length <- DriveFrames, Speeds <- RoadSpeeds,
                                    Unknown <- None, Gap <- MaxGap,
                                    Cooldown <- ReportCooldown, speed <- speedingSpeed

linesVars == <<frames, raw, aspect>>
channelsVars == <<pc, timeline, touching, incidents, secondPass, confirmed,
                  channelsContacts, crossings>>
maskVars == <<frame, right, track, maskGhost, at, hit, sinceLine, sinceTouch>>
shoulderVars == <<shoulderPc, shoulderTrack, mem, recs, shoulderIncidents, keys, sightings,
                  sinceSeen, gone>>
oncomingVars == <<kind, ours, oncomingAt, oncomingTrack, prev, resid, clip>>
limitsVars == <<fixes, limits, answered, failures, down, sent, cache, flagged, lookups>>
speedVars == <<motion, posed, ego, boxes, flaws, distance, rejected, speed>>
corunVars == <<head, masks, lanes, age, anchor, violators, told, seen>>
speedingVars == <<speedingSpeed, todo, episodes, judged, lastOnset, events>>
DriveVars == <<part, vars, linesVars, channelsVars, maskVars, shoulderVars, oncomingVars,
               limitsVars, speedVars, corunVars, speedingVars>>

linesUnused == frames = "-" /\ raw = "-" /\ aspect = "-"
channelsUnused == pc = "-" /\ timeline = "-" /\ touching = "-" /\ incidents = "-" /\
                  secondPass = "-" /\ confirmed = "-" /\ channelsContacts = "-" /\
                  crossings = "-"
maskUnused == frame = "-" /\ right = "-" /\ track = "-" /\ maskGhost = "-" /\ at = "-" /\
              hit = "-" /\ sinceLine = "-" /\ sinceTouch = "-"
shoulderUnused == shoulderPc = "-" /\ shoulderTrack = "-" /\ mem = "-" /\ recs = "-" /\
                  shoulderIncidents = "-" /\ keys = "-" /\ sightings = "-" /\
                  sinceSeen = "-" /\ gone = "-"
oncomingUnused == kind = "-" /\ ours = "-" /\ oncomingAt = "-" /\ oncomingTrack = "-" /\
                  prev = "-" /\ resid = "-" /\ clip = "-"
limitsUnused == fixes = "-" /\ limits = "-" /\ answered = "-" /\ failures = "-" /\
                down = "-" /\ sent = "-" /\ cache = "-" /\ flagged = "-" /\ lookups = "-"
speedUnused == motion = "-" /\ posed = "-" /\ ego = "-" /\ boxes = "-" /\ flaws = "-" /\
               distance = "-" /\ rejected = "-" /\ speed = "-"
corunUnused == head = "-" /\ masks = "-" /\ lanes = "-" /\ age = "-" /\ anchor = "-" /\
               violators = "-" /\ told = "-" /\ seen = "-"
speedingUnused == speedingSpeed = "-" /\ todo = "-" /\ episodes = "-" /\ judged = "-" /\
                  lastOnset = "-" /\ events = "-"

DriveInit ==
    /\ part \in {"lines", "channels", "mask", "shoulder", "cascade", "oncoming", "limits", "speed",
                 "corun", "speeding"}
    /\ Init
    /\ IF part = "lines" THEN L!Init ELSE linesUnused
    /\ IF part = "channels" THEN C!Init ELSE channelsUnused
    /\ IF part = "mask" THEN G!Init ELSE maskUnused
    /\ IF part = "shoulder" THEN S!Init ELSE shoulderUnused
    /\ IF part = "oncoming" THEN N!Init ELSE oncomingUnused
    /\ IF part = "limits" THEN O!Init ELSE limitsUnused
    /\ IF part = "speed" THEN R!Init ELSE speedUnused
    /\ IF part = "corun" THEN X!Init ELSE corunUnused
    /\ IF part = "speeding" THEN E!Init ELSE speedingUnused

DriveNext ==
    /\ UNCHANGED part
    /\ IF part = "cascade" THEN Next ELSE UNCHANGED vars
    /\ IF part = "lines" THEN L!Next ELSE UNCHANGED linesVars
    /\ IF part = "channels" THEN C!Next ELSE UNCHANGED channelsVars
    /\ IF part = "mask" THEN G!Next ELSE UNCHANGED maskVars
    /\ IF part = "shoulder" THEN S!Next ELSE UNCHANGED shoulderVars
    /\ IF part = "oncoming" THEN N!Next ELSE UNCHANGED oncomingVars
    /\ IF part = "limits" THEN O!Next ELSE UNCHANGED limitsVars
    /\ IF part = "speed" THEN R!Next ELSE UNCHANGED speedVars
    /\ IF part = "corun" THEN X!Next ELSE UNCHANGED corunVars
    /\ IF part = "speeding" THEN E!Next ELSE UNCHANGED speedingVars

DriveSpec == DriveInit /\ [][DriveNext]_DriveVars

-----------------------------------------------------------------------------
(* SpeedLimits *)

\* The limit a vehicle is measured against is the one the drive asked for, or none.
TrackAsAsked == part = "limits" => O!TrackAsAsked

\* One manoeuvre or spell of speeding makes one report: a crossing of a line is one event
\* however it ends or is interrupted, unless the vehicle is so wide that it straddles the line
\* from its side; the channels that see it merge theirs and a line rests between incidents, and
\* two reports of speeding are a cooldown apart, while no spell long enough is left out without
\* one.
ReportedOnce ==
    /\ part = "lines" => L!OneManoeuvre
    /\ part = "channels" => C!OneIncidentPerCooldown
    /\ part = "speeding" => E!SpeedingToldOnce

\* How a vehicle moves is judged by its own motion: the road speed it is charged with is its
\* own, and one that goes our way is never let off, or accused, as one that comes towards us.
MotionTrusted ==
    /\ part = "speed" => R!SpeedTrusted
    /\ part = "oncoming" => N!DirectionSound

\* Paint that is briefly not seen is remembered and not invented: the ghost of a line bridges
\* an occlusion while it is young and no longer, a shoulder ride rests on frames beyond a line
\* that is remembered, and a live crossing on solid paint that a frame has shown.
PaintRemembered ==
    /\ part = "mask" => G!OcclusionBridged
    /\ part = "shoulder" => S!ShoulderProven
    /\ part = "corun" => X!CrossingsOnPaint

=============================================================================
