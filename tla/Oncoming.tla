------------------------------- MODULE Oncoming -------------------------------
(***************************************************************************)
(* Which way a vehicle goes, from its box and the motion of the camera     *)
(* alone (tools/motion_filter.py), and what hangs on it: a vehicle coming  *)
(* towards us needs a longer run on the line, is not taken for one on the  *)
(* shoulder, counts less as a violation and may be a wrong-way driver; one *)
(* that stands is told from one that moves by the motion of its contact    *)
(* point over the road. One vehicle and its contact point's height in the  *)
(* image, which grows downwards; shares are in percent.                    *)
(***************************************************************************)
EXTENDS Integers, FiniteSets, SequencesExt

CONSTANTS
    Length,   \* frames of the clip (a bound)
    Starts,   \* where the contact point may be at first
    Shifts,   \* how far the road may slide down in a frame: we drive forward
    Approach, \* how much faster a vehicle coming towards us slides
    Depths,   \* how deep the line may reach into the box from its near side, 0 if it does not
    Window, Stale, SpeedWin,
    Full,     \* the slide over a window that makes P_vy one
    Horizon, Mid,
    K,        \* frames of an event
    None

VARIABLES
    kind,    \* what the vehicle does: "stands", "follows", "leaves" or "comes"
    ours,    \* it is in the corridor of our lane, with no divider between
    at,      \* where its contact point is
    track,   \* the filter's state of it, None before the first box and after a long gap
    prev,    \* ShoulderEvaluator.prev_contact
    resid,   \* its residual motions, the last ones
    clip     \* per frame None, or the P, the hit and what the rules made of the vehicle

vars == <<kind, ours, at, track, prev, resid, clip>>

P_THRESH == 50
ONCOMING_P == 25
ONCOMING_FACTOR == 30

Init ==
    /\ kind \in {"stands", "follows", "leaves", "comes"}
    /\ ours \in BOOLEAN
    /\ at \in Starts
    /\ track = None /\ prev = None /\ resid = <<>> /\ clip = <<>>

Lowest(a, b) == IF a < b THEN a ELSE b
Total(s) == FoldLeft(LAMBDA sum, x : sum + x, 0, s)
Recent(s, n) == SubSeq(s, IF Len(s) > n THEN Len(s) - n + 1 ELSE 1, Len(s))

-----------------------------------------------------------------------------
(* MotionDirectionFilter *)

\* update, for a frame with the vehicle: the window of its positions and of our shifts.
Updated(y, shift) ==
    IF track = None
    THEN [ys |-> <<y>>, shifts |-> <<shift>>, top |-> y, seen |-> Len(clip) + 1]
    ELSE [ys |-> Recent(Append(track.ys, y), Window),
          shifts |-> Recent(Append(track.shifts, shift), Window),
          top |-> Lowest(track.top, y), seen |-> Len(clip) + 1]

\* What is not seen for a while is forgotten.
Unseen == IF track # None /\ Len(clip) + 1 - track.seen > Stale THEN None ELSE track

\* _vy: over the window, how much further down than the road it slid.
Slide(t) == IF Len(t.ys) < 2 THEN 0 ELSE Last(t.ys) - Head(t.ys) - Total(t.shifts)
Anchor(t) == t.top < Horizon /\ Last(t.ys) > Mid

oncoming_score(t) ==
    LET down == IF Slide(t) < 0 THEN 0 ELSE Lowest(Slide(t), Full)
    IN (85 * ((down * 100) \div Full) + IF Anchor(t) THEN 1500 ELSE 0) \div 100

-----------------------------------------------------------------------------
(* The frames *)

\* The contact point in the next frame, while the road slides by a shift.
Moved(shift) == CASE kind = "stands" -> at + shift
                  [] kind = "follows" -> at
                  [] kind = "leaves" -> at - 1
                  [] kind = "comes" -> at + shift + Approach

\* ShoulderEvaluator._speed_kmh without the speed of the world: the residual motion of
\* neighbouring frames only, and of them the median.
EverSeen == TRUE                                                                \* mutant
Neighbours == prev.frame = Len(clip)
Distance(a, b) == IF a < b THEN b - a ELSE a - b
Residuals(y, shift) ==
    IF prev = None THEN resid
    ELSE IF Neighbours THEN Recent(Append(resid, Distance(y, prev.y + shift)), SpeedWin)
    ELSE resid
Moves(rs) == rs # <<>> /\ LET s == SortSeq(rs, <) IN s[(Len(s) + 2) \div 2] > 0

\* A frame with the vehicle, or one in which the tracker misses it.
Seen == \E shift \in Shifts, depth \in Depths :
    LET y == Moved(shift)
        t == Updated(y, shift)
    IN /\ Len(clip) < Length
       /\ at' = y /\ track' = t
       /\ prev' = [frame |-> Len(clip) + 1, y |-> y]
       /\ resid' = Residuals(y, shift)
       /\ clip' = Append(clip, [p |-> oncoming_score(t), depth |-> depth, y |-> y,
                                moves |-> Moves(resid'),
                                wrong |-> oncoming_score(t) > P_THRESH /\ ours /\ y > Mid])
       /\ UNCHANGED <<kind, ours>>

Missed == \E shift \in Shifts :
    /\ Len(clip) < Length
    /\ at' = Moved(shift)
    /\ track' = Unseen
    /\ clip' = Append(clip, None)
    /\ UNCHANGED <<kind, ours, prev, resid>>

Next == Seen \/ Missed

Spec == Init /\ [][Next]_vars

-----------------------------------------------------------------------------
(* The events of the clip, once it has been seen *)

Frames == {f \in DOMAIN clip : clip[f] # None}
Runs(S) == {r \in [start : S, end : S] :
    /\ r.start - 1 \notin S /\ r.end + 1 \notin S
    /\ r.start <= r.end /\ r.start..r.end \subseteq S}

\* events_from_timeline.
Static == {r \in Runs({f \in Frames : clip[f].depth > 0}) : r.end - r.start + 1 >= K}

\* _eff_hit: the more it comes towards us, the deeper the line must reach into the box.
EffHit(f, bias) ==
    LET e == Lowest(100, (bias * clip[f].p) \div 100)
    IN clip[f].depth > 0 /\ (e = 0 \/ 100 * clip[f].depth >= 1000 + 80 * e)
HorizonWeight(f) == IF clip[f].y >= Horizon THEN 0
                    ELSE Lowest(100, ((Horizon - clip[f].y) * 100) \div Horizon)

\* The largest, the mean, or the median of a run's values.
Aggregate(agg, r, F(_)) ==
    LET values == SortSeq([i \in 1..(r.end - r.start + 1) |-> F(r.start + i - 1)], <)
        n == Len(values)
    IN CASE agg = "max" -> Last(values)
         [] agg = "mean" -> Total(values) \div n
         [] agg = "median" -> (values[(n + 1) \div 2] + values[(n + 2) \div 2]) \div 2

\* events_configured and, without bias and gain, events_from_timeline_dynamic.
Damped(agg, bias, alpha, gain) == {r \in Runs({f \in Frames : EffHit(f, bias)}) :
    100 * (r.end - r.start + 1) >= K * (100 + alpha * Aggregate(agg, r, LAMBDA f : clip[f].p)
                                            + gain * Aggregate(agg, r, HorizonWeight))}

\* classify_track_direction, and with it find_violations: what the vehicle's violations weigh.
MeanP == LET seen == SetToSortSeq(Frames, <)
         IN Total([i \in DOMAIN seen |-> clip[seen[i]].p]) \div Len(seen)
Weight == IF MeanP >= ONCOMING_P THEN ONCOMING_FACTOR ELSE 100

\* wrong_way.py.
WrongWay == {r \in Runs({f \in Frames : clip[f].wrong}) : r.end - r.start + 1 >= K}

-----------------------------------------------------------------------------
OurWay == kind \in {"follows", "leaves"}
Aggs == {"max", "mean", "median"}

\* A vehicle that goes our way is never taken for an oncoming one: the shoulder rule does
\* not let it off, it is no wrong-way driver and its violations count in full, whatever
\* frames are missed. One that comes towards us is known after a window without a gap, and
\* one that stands never seems to move.
DirectionTold ==
    /\ OurWay /\ Frames # {} =>
          (\A f \in Frames : clip[f].p < P_THRESH) /\ WrongWay = {} /\ Weight = 100
    /\ (/\ kind = "comes" /\ Len(clip) >= Window
        /\ (Len(clip) - Window + 1)..Len(clip) \subseteq Frames) => Last(clip).p >= P_THRESH
    /\ kind = "stands" => \A f \in Frames : ~clip[f].moves

\* The damping only takes away: what it leaves lies within events of the plain rule, without
\* it they are the same, and a vehicle that goes our way keeps them all, near the horizon
\* too as long as that is not weighed.
DampingOnlyRemoves == Len(clip) = Length => \A agg \in Aggs :
    /\ Damped(agg, 0, 0, 0) = Static
    /\ \A bias \in {0, 100}, alpha \in {0, 3} :
          /\ OurWay => Damped(agg, bias, alpha, 0) = Static
          /\ \A gain \in {0, 1} : \A d \in Damped(agg, bias, alpha, gain) :
                \E s \in Static : s.start <= d.start /\ d.end <= s.end

\* Who goes our way is held to the plain rule, and nobody to a laxer one.
DirectionSound == DirectionTold /\ DampingOnlyRemoves

\* Checked by hand: in a clip of five frames it fails, if every other one is missed, as the
\* shifts of those are not in the sum.
StandingIsNotOncoming == kind = "stands" => \A f \in Frames : clip[f].p < P_THRESH
=============================================================================
