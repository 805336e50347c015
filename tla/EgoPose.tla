------------------------------ MODULE EgoPose ------------------------------
(***************************************************************************)
(* The motion of the ego car from the logs of the phone (ego_yaw.py), the     *)
(* clock that places a drive in UTC (session_clock.py) and the cut of a drive  *)
(* to a shorter one (tools/cut_clip.py). Time is in ticks, a fix comes with a   *)
(* frame, the gyro is sampled at every tick, the accelerometer, along the axis   *)
(* learned from the fixes, with every frame.                                     *)
(***************************************************************************)
EXTENDS Integers, FiniteSets, SequencesExt

CONSTANTS
    MaxFrames,   \* frames of a drive (a bound)
    Turns,       \* [gap, rate]: ticks to the next frame, an even number, and the yaw rate
                 \* meanwhile; its rate is None when the gyro logs nothing
    Motions,     \* [speed, accel]: the speed of a fix, None without one, and the acceleration
    Delays,      \* how late a fix may carry the satellite time
    Epoch,       \* the UTC at which the clock of the phone read zero
    Starts, Lengths, \* --start-sec, --dur-sec
    Guard,       \* --guard-sec
    MinFixes, MinSamples, GapLimit, TauLow, TauFast, FullSpeed, Stopped, \* of ego_speed_fused
    Sign,        \* Constants.HEADING_SIGN
    None

VARIABLES
    drive,  \* the capture folder: [frames, gyro, fixes, accel, epoch]
    clip,   \* the folder of the cut, or None
    first   \* the frame of the drive the video of the cut starts with

vars == <<drive, clip, first>>

Start == 100

Init ==
    /\ drive = [frames |-> <<Start>>, gyro |-> {}, fixes |-> <<>>, accel |-> <<>>, epoch |-> None]
    /\ clip = None /\ first = 0

-----------------------------------------------------------------------------
(* The phone *)

\* The median of the offsets between the two clocks, over every fix: gnss_anchor_from_fixes.
Anchor(fixes) == LET offsets == SortSeq([i \in DOMAIN fixes |-> fixes[i].utc - fixes[i].ts], <)
                 IN IF offsets = <<>> THEN None ELSE offsets[Len(offsets) \div 2 + 1]

\* The drive goes on by a frame and what was logged since the one before.
Record == \E turn \in Turns, motion \in Motions, delay \in Delays :
    LET last == Last(drive.frames)  now == last + turn.gap
        fixes == IF motion.speed = None THEN drive.fixes
                 ELSE Append(drive.fixes,
                             [ts |-> now, speed |-> motion.speed, utc |-> Epoch + now + delay])
    IN /\ Len(drive.frames) < MaxFrames /\ clip = None
       /\ motion.speed = None => delay = 0
       /\ drive' = [
            frames |-> Append(drive.frames, now),
            gyro |-> drive.gyro \cup (IF turn.rate = None THEN {}
                        ELSE {[ts |-> t, rate |-> turn.rate] : t \in last + 1..now}),
            fixes |-> fixes,
            accel |-> Append(drive.accel, [ts |-> now, accel |-> motion.accel]),
            epoch |-> Anchor(fixes)]
       /\ UNCHANGED <<clip, first>>

-----------------------------------------------------------------------------
(* cut_clip.py *)

Rebased(kept) == [i \in DOMAIN kept |-> kept[i] - kept[1]]                      \* mutant
\* write_reindexed_frames: the frames count from 0, their times stay as they were.
Reindexed(kept) == kept

Within(rows, lo, hi) == SelectSeq(rows, LAMBDA r : lo <= r.ts /\ r.ts <= hi)

Cut == \E from \in Starts, length \in Lengths :
    LET lo == Start + from
        kept == {i \in DOMAIN drive.frames : lo <= drive.frames[i] /\ drive.frames[i] < lo + length}
        left == lo - Guard  right == drive.frames[Max(kept)] + Guard
    IN /\ clip = None /\ kept # {}
       /\ clip' = [
            frames |-> Reindexed(SubSeq(drive.frames, Min(kept), Max(kept))),
            gyro |-> {g \in drive.gyro : left <= g.ts /\ g.ts <= right},
            fixes |-> Within(drive.fixes, left, right),
            accel |-> Within(drive.accel, left, right),
            epoch |-> drive.epoch]
       /\ first' = Min(kept)
       /\ UNCHANGED drive

Next == Record \/ Cut

Spec == Init /\ [][Next]_vars

-----------------------------------------------------------------------------
(* ego_yaw_rate_from_android, ego_heading_from_android *)

\* The window of a frame reaches to the middle of the way to the frames beside it, and as
\* far to the other side at either end.
Middle(frames, k) == (frames[k] + frames[k + 1]) \div 2
Window(frames, k) == LET n == Len(frames) IN <<
    IF k = 1 THEN 2 * frames[1] - Middle(frames, 1) ELSE Middle(frames, k - 1),
    IF k = n THEN 2 * frames[n] - Middle(frames, n - 1) ELSE Middle(frames, k)>>

\* The average of the samples in the window of a frame, the right end excluded.
YawRate(frames, gyro, k) ==
    LET w == Window(frames, k)
        samples == {g \in gyro : w[1] <= g.ts /\ g.ts < w[2]}
    IN IF samples = {} THEN 0
       ELSE FoldFunction(+, 0, [g \in samples |-> g.rate]) \div Cardinality(samples)

\* By how much the heading changes up to a frame from the one before, doubled.
Heading2(frames, gyro, k) ==
    Sign * (YawRate(frames, gyro, k) + YawRate(frames, gyro, k - 1)) * (frames[k] - frames[k - 1])

-----------------------------------------------------------------------------
(* ego_speed_from_android, ego_speed_fused, ego_position_from_android *)

\* np.interp: level before the first and after the last of the points.
Interpolated(points, t) ==
    LET after == {i \in DOMAIN points : points[i].ts >= t}
        i == Min(after)  p == points[i - 1]  q == points[i]
    IN IF after = {} THEN Last(points).speed
       ELSE IF i = 1 THEN points[1].speed
       ELSE p.speed + ((q.speed - p.speed) * (t - p.ts)) \div (q.ts - p.ts)

Tau(speed) == TauLow + ((TauFast - TauLow) * Min({FullSpeed, speed})) \div FullSpeed

\* What the acceleration makes of the speed v, pulled towards that of the fixes.
Fused(v, accel, dt, fix) ==
    IF fix <= Stopped THEN 0
    ELSE IF dt > GapLimit THEN fix
    ELSE LET w == v + accel * dt
         IN IF dt >= Tau(fix) THEN fix ELSE w + (dt * (fix - w)) \div Tau(fix)

\* The speed at each sample of the accelerometer; negative ones are set to zero at the end.
FusedAt(c) == LET f[k \in DOMAIN c.accel] ==
    LET fix == Interpolated(c.fixes, c.accel[k].ts)
    IN IF k = 1 THEN (IF fix <= Stopped THEN 0 ELSE fix)
       ELSE Fused(f[k - 1], c.accel[k].accel, c.accel[k].ts - c.accel[k - 1].ts, fix)
    IN [k \in DOMAIN c.accel |-> [ts |-> c.accel[k].ts, speed |-> Max({0, f[k]})]]

CanFuse(c) == Len(c.accel) >= MinSamples /\ Len(c.fixes) >= MinFixes

\* The speed of each frame, by the fixes alone when there is nothing to fuse.
Speed(c, k) == IF c.fixes = <<>> THEN 0
               ELSE Interpolated(IF CanFuse(c) THEN FusedAt(c) ELSE c.fixes, c.frames[k])

\* Twice the way between a frame and the one before.
Way2(c, k) == (Speed(c, k) + Speed(c, k - 1)) * (c.frames[k] - c.frames[k - 1])

\* load_session_clock: the anchor of the meta file, computed over the whole drive, comes first.
ClockOf(c) == IF c.epoch # None THEN c.epoch ELSE Anchor(c.fixes)

-----------------------------------------------------------------------------
\* No frame of the cut loses a sample of its window: the rates and the turns between frames
\* come out as from the whole gyro log, inside the cut as they did in the drive.
TurnsSurvive == clip # None /\ Len(clip.frames) >= 2 =>
    LET n == Len(clip.frames)  at(k) == first + k - 1
    IN /\ \A k \in 1..n : drive.frames[at(k)] = clip.frames[k]
       /\ \A k \in 1..n : YawRate(clip.frames, clip.gyro, k) = YawRate(clip.frames, drive.gyro, k)
       /\ \A k \in 2..n - 1 :
            YawRate(clip.frames, clip.gyro, k) = YawRate(drive.frames, drive.gyro, at(k))
       /\ \A k \in 3..n - 1 :
            Heading2(clip.frames, clip.gyro, k) = Heading2(drive.frames, drive.gyro, at(k))

\* A frame of the cut has the UTC it has in the drive, however few fixes the cut keeps.
ClockSurvives == clip # None /\ clip.fixes # <<>> => ClockOf(clip) = ClockOf(drive)

\* The accelerometer cannot carry the speed away from the fixes: at a stop it is zero, it is
\* never negative, and what the pull leaves is less than what one time constant adds.
SpeedFollowsFixes == CanFuse(drive) =>
    LET f == FusedAt(drive)
        fix(k) == Interpolated(drive.fixes, f[k].ts)
        fastest == Max({m.speed : m \in {x \in Motions : x.speed # None}})
        push == Max({m.accel : m \in Motions} \cup {-m.accel : m \in Motions})
    IN \A k \in DOMAIN f :
         /\ 0 <= f[k].speed /\ f[k].speed <= fastest + push * TauFast
         /\ fix(k) <= Stopped => f[k].speed = 0

\* A cut of a drive is a drive: what the phone measured of the car's motion comes out of it
\* as out of the whole, and the speed of the car stays with the fixes.
MotionSurvives == TurnsSurvive /\ ClockSurvives /\ SpeedFollowsFixes

\* Checked by hand: "+/- a guard, so the edge frames still have neighbours to interpolate"
\* (cut_clip.py): the speed of every frame of the cut is that of the drive.
SpeedSurvives == clip # None => \A k \in DOMAIN clip.frames :
    Speed(clip, k) = Speed(drive, first + k - 1)
=============================================================================
