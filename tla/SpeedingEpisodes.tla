-------------------------- MODULE SpeedingEpisodes --------------------------
(***************************************************************************)
(* Speeding against one posted limit (flag_speeding_fixed_limit of             *)
(* overspeed.py) and the events the evidence stage gets (main.py). Vehicles    *)
(* are independent of one another, so a behaviour follows one.                 *)
(***************************************************************************)
EXTENDS Integers, Sequences, FiniteSetsExt

CONSTANTS
    Length,         \* frames of the drive (a bound)
    Speeds,         \* speeds a frame may have
    Unknown,        \* speed_per_frame has no value for the frame
    Threshold,      \* threshold_kmh
    Gap,            \* gap_close_sec, in frames
    Cooldown,       \* cooldown_sec, in frames
    MinFramesOver

VARIABLES
    speed,      \* vehicle.speed_per_frame
    todo,       \* over_frames still to be grouped
    episodes,   \* the episodes, each the set of its frames; the last one is cur
    judged,     \* how many episodes were looked at
    lastOnset,  \* last_onset, 0 for None
    events      \* the SpeedingEvents

vars == <<speed, todo, episodes, judged, lastOnset, events>>

IsOver(f) == speed[f] # Unknown /\ speed[f] >= Threshold

\* The vehicle is tracked, then its over-frames are collected.
Init ==
    /\ speed \in [1..Length -> Speeds \union {Unknown}]
    /\ todo = {f \in 1..Length : IsOver(f)}
    /\ episodes = <<>> /\ judged = 0 /\ lastOnset = 0 /\ events = <<>>

\* A frame close behind the episode extends it.
Extends(f) == episodes # <<>> /\ f - Max(episodes[Len(episodes)]) <= Gap + 1

\* The frames are grouped in time order.
Group == \E f \in todo :
    /\ \A g \in todo : f <= g
    /\ todo' = todo \ {f}
    /\ episodes' = IF Extends(f) THEN [episodes EXCEPT ![Len(episodes)] = @ \union {f}]
                   ELSE Append(episodes, {f})
    /\ UNCHANGED <<speed, judged, lastOnset, events>>

\* The fastest of the whole span, dips included.
Peak(ep) == Max({speed[f] : f \in {g \in Min(ep)..Max(ep) : speed[g] # Unknown}})

Event(ep) == [onset |-> Min(ep), end |-> Max(ep), est |-> speed[Min(ep)],
              max |-> Peak(ep), over |-> Cardinality(ep)]

CoolingSinceReport(start) ==                                                    \* mutant
    events # <<>> /\ start - events[Len(events)].onset < Cooldown
\* Too soon after an onset that counts, whether that one was reported or too short.
Cooling(start) == lastOnset # 0 /\ start - lastOnset <= Cooldown

Judge ==
    /\ todo = {} /\ judged < Len(episodes)
    /\ judged' = judged + 1
    /\ LET ep == episodes[judged + 1] IN
       \/ /\ Cooling(Min(ep))
          /\ UNCHANGED <<lastOnset, events>>
       \/ /\ ~Cooling(Min(ep))
          /\ lastOnset' = Min(ep)
          /\ events' = IF Cardinality(ep) < MinFramesOver THEN events
                       ELSE Append(events, Event(ep))
    /\ UNCHANGED <<speed, todo, episodes>>

Next == Group \/ Judge

Spec == Init /\ [][Next]_vars

-----------------------------------------------------------------------------

Done == todo = {} /\ judged = Len(episodes)

SpeedsSeen(lo, hi) == {speed[f] : f \in lo..hi} \ {Unknown}

\* Two reports of a vehicle are more than a cooldown apart, and each report covers a span
\* that starts and ends over the line, has no longer break than a bridged one, and gives the
\* fastest speed in it (the episodes and the cooldown of flag_speeding_fixed_limit).
ReportsApart ==
    /\ \A i, j \in DOMAIN events : i < j => events[j].onset - events[i].onset > Cooldown
    /\ \A i \in DOMAIN events : LET e == events[i] IN
        /\ IsOver(e.onset) /\ IsOver(e.end)
        /\ \A f \in e.onset..e.end - Gap - 1 : \E g \in f + 1..f + Gap + 1 : IsOver(g)
        /\ \A g \in (e.onset - Gap - 1..e.onset - 1) \union (e.end + 1..e.end + Gap + 1) :
            g \in DOMAIN speed => ~IsOver(g)
        /\ e.max \in SpeedsSeen(e.onset, e.end)
        /\ \A s \in SpeedsSeen(e.onset, e.end) : s <= e.max

\* A vehicle that is over the line in some frame is over it within an episode, and an episode
\* goes unreported only when it is too short or starts within the cooldown of an earlier one
\* (last_onset of flag_speeding_fixed_limit).
NoneForgotten ==
    Done => \A k \in DOMAIN episodes :
        LET ep == episodes[k] IN
        \/ Cardinality(ep) < MinFramesOver
        \/ \E i \in DOMAIN events : events[i].onset = Min(ep)
        \/ \E j \in 1..k - 1 : Min(ep) - Min(episodes[j]) <= Cooldown

\* Once a drive is judged, no offence is told twice and none is lost.
SpeedingToldOnce == ReportsApart /\ NoneForgotten
=============================================================================
