----------------------------- MODULE ShoulderLine -----------------------------
(***************************************************************************)
(* Driving on the shoulder (tools/shoulder_violation.py): the yellow line at  *)
(* the right edge is remembered while a vehicle hides it (ghost_mask.py's     *)
(* LaneMemory), a vehicle is a candidate in a frame in which it is right of   *)
(* the remembered line, moving and near, and runs of candidates become one    *)
(* incident with the frame that shows it best. One line, one vehicle.         *)
(***************************************************************************)
EXTENDS Integers, Sequences, FiniteSetsExt

CONSTANTS
    Length,    \* frames of the clip (a bound)
    MinAge,    \* MIN_AGE_SEC in frames
    TTL,       \* frames LaneMemory keeps a line it does not see
    MaxMiss,   \* TRACK_MAX_MISS
    KFrames,   \* K_SEC in frames
    Cooldown,  \* COOLDOWN in frames
    Distances  \* how far right of the side test the vehicle may be

VARIABLES
    pc,        \* "frames" or "done"
    track,     \* LaneLineTracker: id, age and miss of the line; age 0 is no track
    mem,       \* LaneMemory.mem: the remembered lines, added in the order of their ids
    recs,      \* per frame, [dist, cand] of the vehicle; dist is Unknown without line or vehicle
    incidents, \* incidents of evaluate
    keys,      \* the key frame of each
    sightings, \* frames in which the line was seen, of any class and as a yellow one
    sinceSeen, \* frames since it was last seen as a yellow one
    gone       \* since then it has lain open to view in some frame

vars == <<pc, track, mem, recs, incidents, keys, sightings, sinceSeen, gone>>

Unknown == -99
Never == Length + 1

Init ==
    /\ pc = "frames"
    /\ track = [id |-> 0, age |-> 0, miss |-> 0]
    /\ mem = {} /\ recs = <<>>
    /\ incidents = {} /\ keys = {}
    /\ sightings = [any |-> 0, yellow |-> 0] /\ sinceSeen = Never /\ gone = FALSE

-----------------------------------------------------------------------------
(* LaneLineTracker.update: what the line is by vote in a frame is an input *)

Views == {"none", "yellow", "other"}

Tracked(view) ==
    IF view # "none" THEN [track EXCEPT !.age = @ + 1, !.miss = 0]
    ELSE IF track.age = 0 THEN track
    ELSE IF track.miss + 1 > MaxMiss THEN [id |-> track.id + 1, age |-> 0, miss |-> 0]
    ELSE [track EXCEPT !.miss = @ + 1]

-----------------------------------------------------------------------------
(* LaneMemory.step *)

Fresh(t) == [id |-> t.id, ttl |-> TTL, age |-> t.age]

Refreshed(view, t) ==
    IF view # "yellow" THEN mem ELSE {m \in mem : m.id # t.id} \union {Fresh(t)}

\* A line that was not refreshed ages. It is given up when it is too old, and at once when it
\* lies open to view and yet the model shows no yellow there.
KeepsUntilOld(m, open) == m.ttl - 1 > 0                                         \* mutant
Stays(m, open) == m.ttl - 1 > 0 /\ ~open

Remembered(view, t, hidden) ==
    LET isFresh(m) == view = "yellow" /\ m.id = t.id
        open == view # "yellow" /\ ~hidden
    IN  {IF isFresh(m) THEN m ELSE [m EXCEPT !.ttl = @ - 1] :
            m \in {l \in Refreshed(view, t) : isFresh(l) \/ Stays(l, open)}}

-----------------------------------------------------------------------------
(* ShoulderEvaluator.step *)

Nowhere == [dist |-> Unknown, cand |-> FALSE]

\* The first of the remembered lines, all in one place, must be old enough. "fit" is a
\* vehicle that moves, is near and does not come towards us.
Judged(m, dist, fit) ==
    IF \E l \in m : l.age >= MinAge /\ \A k \in m : l.id <= k.id
    THEN [dist |-> dist, cand |-> dist > 0 /\ fit] ELSE Nowhere

Frame == \E view \in Views, present, hidden, fit \in BOOLEAN, dist \in Distances :
    /\ pc = "frames" /\ Len(recs) < Length
    /\ ~present => ~hidden /\ ~fit /\ dist = Min(Distances)
    /\ track' = Tracked(view)
    /\ mem' = Remembered(view, track', hidden)
    /\ recs' = Append(recs, IF present THEN Judged(mem', dist, fit) ELSE Nowhere)
    /\ sightings' = [any |-> sightings.any + (IF view = "none" THEN 0 ELSE 1),
                     yellow |-> sightings.yellow + (IF view = "yellow" THEN 1 ELSE 0)]
    /\ sinceSeen' = IF view = "yellow" THEN 0
                    ELSE IF sinceSeen = Never THEN Never ELSE sinceSeen + 1
    /\ gone' = (view # "yellow" /\ (gone \/ ~hidden))
    /\ UNCHANGED <<pc, incidents, keys>>

-----------------------------------------------------------------------------
(* evaluate *)

Cands == {i \in DOMAIN recs : recs[i].cand}
Runs(S) == {r \in [start : S, end : S] :
    /\ r.start - 1 \notin S /\ r.end + 1 \notin S
    /\ r.start <= r.end /\ r.start..r.end \subseteq S}
LongRuns == {r \in Runs(Cands) : r.end - r.start + 1 >= KFrames}

\* merge_events: a run that starts within the cooldown of one before it is part of the same
\* incident.
Opening(S) == {r \in S : \A q \in S : q.start < r.start => r.start - q.end > Cooldown}
Group(S, o) == {r \in S :
    /\ o.start <= r.start
    /\ \A p \in Opening(S) : o.start < p.start => r.start < p.start}
Merged(S) ==
    {[start |-> o.start, end |-> Max({r.end : r \in Group(S, o)})] : o \in Opening(S)}

\* once_per_vehicle leaves the earliest.
Reported(once) == {i \in Merged(LongRuns) :
    once => \A j \in Merged(LongRuns) : i.start <= j.start}

\* The frame in which the vehicle is furthest past the line.
KeyOf(i) == CHOOSE k \in i.start..i.end : \A l \in i.start..i.end :
    \/ recs[k].dist > recs[l].dist
    \/ recs[k].dist = recs[l].dist /\ k <= l

Evaluate == \E once \in BOOLEAN :
    /\ pc = "frames"
    /\ incidents' = Reported(once)
    /\ keys' = {KeyOf(i) : i \in Reported(once)}
    /\ pc' = "done"
    /\ UNCHANGED <<track, mem, recs, sightings, sinceSeen, gone>>

Next == Frame \/ Evaluate

Spec == Init /\ [][Next]_vars

-----------------------------------------------------------------------------
\* A vehicle is right of a line that was on the road: seen long enough, last as a yellow line
\* within the life of the memory, and not given up since because it lay open and was gone.
LineWasThere == pc = "frames" /\ recs # <<>> /\ recs[Len(recs)].cand =>
    sightings.any >= MinAge /\ sinceSeen < TTL /\ ~gone

\* What a record shows: K frames in a row on the shoulder, and a key frame inside it in which
\* the vehicle is right of the line, also where two runs were merged over a gap without one.
ShoulderRecordsHold == pc = "done" =>
    /\ \A i \in incidents : \E r \in LongRuns : i.start <= r.start /\ r.end <= i.end
    /\ \A k \in keys : recs[k].dist > 0 /\ \E i \in incidents : i.start <= k /\ k <= i.end
    /\ \A i, j \in incidents : i.start > j.start => i.start - j.end > Cooldown

\* Driving on the shoulder is found against a line that was there and is shown where it is.
ShoulderProven == LineWasThere /\ ShoulderRecordsHold

\* "right-edge yellow line valid >= 3 s" (the module's rule): the line was seen as a yellow
\* one in that many frames.
YellowLongEnough ==
    pc = "frames" /\ recs # <<>> /\ recs[Len(recs)].cand => sightings.yellow >= MinAge
===============================================================================
