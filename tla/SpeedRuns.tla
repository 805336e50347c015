----------------------------- MODULE SpeedRuns -----------------------------
(***************************************************************************)
(* From the boxes of a tracked vehicle to its speed on the road: the distance *)
(* a box stands for, the runs of frames that can be trusted, their place in    *)
(* the world once the motion of the ego car is taken out, and the velocity in    *)
(* that (speed_estimator.py, smoothers.py, relevance_flags.py), with the gates    *)
(* that are on by default. The car drives on a grid and turns by quarters; the     *)
(* vehicle moves evenly. A box is what the detector made of the vehicle, and its    *)
(* two distances may be wrong. The Kalman smoother is kept by what it does to an     *)
(* even motion; of the velocity it finds in any other nothing is assumed.             *)
(***************************************************************************)
EXTENDS Integers, FiniteSets, SequencesExt

CONSTANTS
    Length,        \* frames of the clip (a bound)
    Start,         \* where the vehicle is at first, the car being at <<0, 0>>
    Motions,       \* <<dx, dy>> the vehicle moves by in a frame
    Flaws,         \* what may happen to a box: "missing", "clipped", "collapsed"
    LatSign,       \* Constants.LAT_SIGN
    MaxDistance,   \* MAX_SPEED_DISTANCE_M
    MinRunLen, MinTrackFrames,
    HampelSigmas,
    TowardMin,     \* TOWARD_MIN_SPEED_MPS: a slower motion has no say about its direction
    PosedFrames,   \* how many frames may have a pose: frames.csv may be too short
    NoBox,
    Unknown        \* a velocity of which the model knows nothing

VARIABLES
    motion,   \* of the vehicle
    posed,    \* the frames up to this one have an ego pose
    ego,      \* per frame: [x, y, c, s], the heading by its cosine and sine
    boxes,    \* per frame: [height, ground, lateral, edge] or NoBox
    flaws,    \* per frame: what happened to the box (history)
    distance, \* dist_per_frame: 0 where a box says nothing
    rejected, \* compute_relevance_flags, by direction: the one criterion that is on
    speed     \* speed_per_frame: [frame, v], v the square of twice the speed

vars == <<motion, posed, ego, boxes, flaws, distance, rejected, speed>>

Frames == DOMAIN boxes
Wrong == 5  \* how many times too far a flawed box looks

Init ==
    /\ motion \in Motions /\ posed \in PosedFrames
    /\ ego = <<>> /\ boxes = <<>> /\ flaws = <<>>
    /\ distance = <<>> /\ rejected = FALSE /\ speed = {}

\* Where the vehicle is in a frame.
Place(f) == <<Start[1] + (f - 1) * motion[1], Start[2] + (f - 1) * motion[2]>>

\* The box a camera at a pose gets of the vehicle. Its distance is read off the height of
\* the box, or off its lower edge, which a vehicle at the horizon does not have.
Seen(pose, at, flaw) ==
    LET dx == at[1] - pose.x  dy == at[2] - pose.y
        depth == dx * pose.c + dy * pose.s
        times == IF flaw = "whole" THEN 1 ELSE Wrong
    IN IF depth <= 0 \/ flaw = "missing" THEN NoBox
       ELSE [height |-> times * depth,
             ground |-> IF times * depth > MaxDistance THEN NoBox ELSE times * depth,
             lateral |-> times * LatSign * (dx * pose.s - dy * pose.c),
             edge |-> flaw = "clipped"]

Poses == IF ego = <<>> THEN {[x |-> 0, y |-> 0, c |-> 1, s |-> 0]}
         ELSE LET p == Last(ego)
              IN {[p EXCEPT !.x = @ + p.c, !.y = @ + p.s],          \* straight on
                  [p EXCEPT !.c = -p.s, !.s = p.c]}                   \* a quarter to the left

Frame == \E pose \in Poses, flaw \in Flaws \cup {"whole"} :
    LET n == Len(boxes)
    IN /\ n < Length /\ distance = <<>>
       /\ ego' = Append(ego, pose)
       /\ flaws' = Append(flaws, flaw)
       /\ boxes' = Append(boxes, Seen(pose, Place(n + 1), flaw))
       /\ UNCHANGED <<motion, posed, distance, rejected, speed>>

-----------------------------------------------------------------------------
\* CombinedDistance: the average of two estimates, or the one there is.
Combined(a, b) == IF a = NoBox THEN b ELSE IF b = NoBox THEN a ELSE (a + b) \div 2
Depth(f) == Combined(boxes[f].height, boxes[f].ground)

Real == {f \in Frames : boxes[f] # NoBox}

\* _contiguous_runs: the stretches of consecutive frames in a set.
Stretches(S) == {r[1]..r[2] : r \in {r \in S \X S :
    r[1] <= r[2] /\ r[1]..r[2] \subseteq S /\ r[1] - 1 \notin S /\ r[2] + 1 \notin S}}

EdgeUnknown(stretch) == stretch                                                \* mutant

\* _drop_mask: the frames of a stretch whose box does not touch the border of the image.
Kept(stretch) == {f \in stretch : ~boxes[f].edge}

\* build_world_runs: what a drop or a distance out of reach leaves of each stretch.
Runs == {run \in UNION {Stretches({f \in Kept(s) : Depth(f) < MaxDistance}) :
                             s \in Stretches(Real)} : Cardinality(run) >= MinRunLen}

\* The pose of a frame without one is the origin.
Pose(f) == IF f <= posed THEN ego[f] ELSE [x |-> 0, y |-> 0, c |-> 1, s |-> 0]

\* Where the vehicle is in the world: <<Tx, Ty>>.
WorldX(f) == LET p == Pose(f) IN p.x + Depth(f) * p.c + LatSign * boxes[f].lateral * p.s
WorldY(f) == LET p == Pose(f) IN p.y + Depth(f) * p.s - LatSign * boxes[f].lateral * p.c

\* Twice the median of a bag of numbers, given as a sequence.
Median2(seq) == LET s == SortSeq(seq, <)  n == Len(s)
                IN s[(n + 1) \div 2] + s[(n + 2) \div 2]

\* hampel_filter over a frame and its neighbours in the run: a value too far from their
\* median becomes the median (all values doubled).
Hampel(run, at) == [f \in run |->
    LET near == SetToSeq(run \cap (f - 1)..(f + 1))
        med == Median2([i \in DOMAIN near |-> at[near[i]]])
        off(g) == IF 2 * at[g] >= med THEN 2 * at[g] - med ELSE med - 2 * at[g]
        mad == Median2([i \in DOMAIN near |-> off(near[i])])
    IN IF mad > 0 /\ 20000 * off(f) > HampelSigmas * 14826 * mad THEN med ELSE 2 * at[f]]

\* kalman_velocity_1d, per axis and on doubled values: along an even motion of MinRunLen
\* frames both axes are filtered alike, and the velocity is the step of the motion (to about
\* one per cent); in a shorter one the filter, which starts at rest, holds it back.
Velocity2(run, x, y) ==
    LET later == run \ {Min(run)}
        steps == {<<x[f] - x[f - 1], y[f] - y[f - 1]>> : f \in later}
    IN IF Cardinality(steps) = 1 THEN CHOOSE d \in steps : TRUE ELSE Unknown

\* compute_relevance_flags, on every box of a track, kept or not: whether the frames of a
\* stretch come at us, by the velocity of the stretch at twice its size.
Toward(f, v) ==
    /\ v[1] * v[1] + v[2] * v[2] >= 4 * TowardMin * TowardMin
    /\ v[1] * (Pose(f).x - WorldX(f)) + v[2] * (Pose(f).y - WorldY(f)) > 0

RawVelocity2(run) ==
    Velocity2(run, [g \in run |-> 2 * WorldX(g)], [g \in run |-> 2 * WorldY(g)])

\* The frames that vote for the other carriageway, whatever the filter makes of them, and
\* those that may: in a motion that is not even, or held back by a short stretch.
Votes == {f \in Real : \E run \in Stretches(Real) :
    /\ f \in run /\ Cardinality(run) >= MinRunLen
    /\ RawVelocity2(run) # Unknown /\ Toward(f, RawVelocity2(run))}
MayVote == {f \in Real : \E run \in Stretches(Real) :
    /\ f \in run /\ Cardinality(run) >= 2
    /\ RawVelocity2(run) # Unknown => Toward(f, RawVelocity2(run))}

\* Rejected when it comes at us for at least half of its life.
MostOfLife(votes) == Real # {} /\ 2 * Cardinality(votes) >= Cardinality(Real)

Speeds == UNION {
    LET v == Velocity2(run, Hampel(run, [g \in run |-> WorldX(g)]),
                            Hampel(run, [g \in run |-> WorldY(g)]))
        squared == IF v = Unknown THEN Unknown ELSE v[1] * v[1] + v[2] * v[2]
    IN {[frame |-> f, v |-> squared] : f \in run} : run \in Runs}

\* The end of the clip: distances, relevance, and the speeds of the vehicles that matter.
Estimate ==
    /\ boxes # <<>> /\ distance = <<>>
    /\ distance' = [f \in Frames |-> IF f \in Real THEN Depth(f) ELSE 0]
    /\ rejected' \in {MostOfLife(Votes), MostOfLife(MayVote)}
    /\ speed' = IF rejected' \/ Cardinality(Real) < MinTrackFrames THEN {} ELSE Speeds
    /\ UNCHANGED <<motion, posed, ego, boxes, flaws>>

Next == Frame \/ Estimate

Spec == Init /\ [][Next]_vars

-----------------------------------------------------------------------------
TrueSpeed == 4 * (motion[1] * motion[1] + motion[2] * motion[2])

\* Nothing collapsed the box of a frame, and the frame has a pose.
Sound(f) == flaws[f] # "collapsed" /\ f <= posed

\* A speed is the speed of the vehicle, whatever the car did meanwhile and whatever else
\* befell the track, as long as no box of the run it is taken from collapsed: clipped boxes do
\* not reach it, no speed is derived across a gap, and a parked car does not pick up ours.
SpeedIsTrue == \A s \in speed :
    (\A run \in Runs : s.frame \in run => \A f \in run : Sound(f)) => s.v = TrueSpeed

\* The frames in which the vehicle did come at us, faster than the floor.
Coming == {f \in Real :
    /\ TrueSpeed >= 4 * TowardMin * TowardMin
    /\ motion[1] * (ego[f].x - Place(f)[1]) + motion[2] * (ego[f].y - Place(f)[2]) > 0}

\* A vehicle that is seen whole is let off as oncoming only when it did come at us for half
\* of the frames it is seen in, however we drive and turn; and when it did, and was never out
\* of sight so soon that the filter is still at rest, it is let off.
JudgedByItsOwnMotion == (distance # <<>> /\ \A f \in Real : flaws[f] = "whole" /\ f <= posed) =>
    /\ rejected => MostOfLife(Coming)
    /\ (MostOfLife(Coming) /\ \A s \in Stretches(Real) : Cardinality(s) >= MinRunLen) => rejected

\* The road speed a vehicle is charged with is its own, and so is the direction.
SpeedTrusted == SpeedIsTrue /\ JudgedByItsOwnMotion

\* Checked by hand: the same of every run. The gate for collapsed boxes is off by default.
SpeedAlwaysTrue == \A s \in speed : s.v = TrueSpeed
=============================================================================
