-------------------------- MODULE CrossingChannels --------------------------
(***************************************************************************)
(* The solid-line crossings of one vehicle, as main.py reports them. White    *)
(* lines: the verdict timeline, runs of hits, the cooldown that merges them   *)
(* into incidents (evaluate_crossing, motion_filter.merge_events) and the     *)
(* second pass with the tire model (_stage2_confirm). Yellow lines: contacts  *)
(* per frame (edge_contact.py), the same cooldown and the removal of what the *)
(* white rule already reported (yellow_crossing.py).                          *)
(***************************************************************************)
EXTENDS Integers, Sequences, FiniteSetsExt

CONSTANTS
    Length,    \* frames of the clip (a bound)
    Yellows,   \* the solid yellow line tracks, 1..n in the order they are tested
    KConsec,   \* hits in a row that make a run
    K, M,      \* CascadeParams.k and m
    Cooldown   \* cooldown_sec in frames

VARIABLES
    pc,        \* "frames", "stage1", "stage2", "yellow" or "done"
    timeline,  \* per frame: "clear", "hit" or "tire", a hit that Stage 2 confirms
    touching,  \* per frame, the yellow lines that touch the vehicle's box
    incidents, \* of Stage 1
    secondPass, \* "none", "skipped" or "ran"
    confirmed, \* of Stage 2
    contacts,  \* yellow incidents
    crossings  \* what main reports

vars == <<pc, timeline, touching, incidents, secondPass, confirmed, contacts, crossings>>

HitsAt(i) == timeline[i] \in {"hit", "tire"}
Frames == DOMAIN timeline

Init ==
    /\ pc = "frames"
    /\ timeline = <<>> /\ touching = <<>>
    /\ incidents = {} /\ secondPass = "none" /\ confirmed = {} /\ contacts = {} /\ crossings = {}

\* The main loop: what the lane model and the tracker say of the vehicle in a frame. A
\* frame without the vehicle is one in which nothing touches it.
Frame == \E white \in {"clear", "hit", "tire"}, yellow \in SUBSET Yellows :
    /\ pc = "frames" /\ Len(timeline) < Length
    /\ timeline' = Append(timeline, white)
    /\ touching' = Append(touching, yellow)
    /\ UNCHANGED <<pc, incidents, secondPass, confirmed, contacts, crossings>>

EndOfClip ==
    /\ pc = "frames"
    /\ pc' = "stage1"
    /\ UNCHANGED <<timeline, touching, incidents, secondPass, confirmed, contacts, crossings>>

-----------------------------------------------------------------------------
(* Stage 1 and the cooldown *)

\* The maximal runs of consecutive frames in a set.
Runs(S) == {r \in [start : S, end : S] :
    /\ r.start - 1 \notin S /\ r.end + 1 \notin S
    /\ r.start <= r.end /\ r.start..r.end \subseteq S}

HitRuns == {r \in Runs({i \in Frames : HitsAt(i)}) : r.end - r.start + 1 >= KConsec}

\* In the order of their starts, a run opens a group or joins the group before it. A group
\* goes from its first run to the next that opens one, and spans all of its runs.
Group(S, opening, o) == {r \in S :
    /\ o.start <= r.start
    /\ \A p \in opening : o.start < p.start => r.start < p.start}
Spans(S, opening) ==
    {[start |-> o.start, end |-> Max({r.end : r \in Group(S, opening, o)})] : o \in opening}

Before(S, r) == {q \in S : q.start < r.start}
LateAfter(r, Q) == \A q \in Q : r.start - q.end > Cooldown

\* merge_events: a group lasts until the largest end in it.
Merged(S) == Spans(S, {r \in S : LateAfter(r, Before(S, r))})

Stage1 ==
    /\ pc = "stage1"
    /\ incidents' = Merged(HitRuns)
    /\ pc' = "stage2"
    /\ UNCHANGED <<timeline, touching, secondPass, confirmed, contacts, crossings>>

-----------------------------------------------------------------------------
(* _stage2_confirm *)

\* KOfMFilter of the cascade of the vehicle: it is stepped on the frames Stage 1 hit and on
\* no other, so its window is the last M of those.
Window(read, i) == {j \in read : j <= i /\ Cardinality({l \in read : j < l /\ l <= i}) < M}
Fires(read) == \E i \in read : Cardinality({j \in Window(read, i) : timeline[j] = "tire"}) >= K

\* What Stage 2 confirms is the vehicle.
Confirmed(read) == IF Fires(read) THEN incidents ELSE {}

\* The second reading of the video: skipped when there is no tire model or the video does
\* not open, ended at the first frame that cannot be read.
Stage2 == \E pass \in {"skipped", "ran"}, readable \in 0..Len(timeline) :
    /\ pc = "stage2"
    /\ secondPass' = pass
    /\ confirmed' = IF pass = "ran" THEN Confirmed({i \in 1..readable : HitsAt(i)}) ELSE incidents
    /\ pc' = "yellow"
    /\ UNCHANGED <<timeline, touching, incidents, contacts, crossings>>

-----------------------------------------------------------------------------
(* The yellow channel *)

\* detect_edge_contacts: the lines that count as a contact in a frame; one is enough.
EveryLine(i) == touching[i]                                                     \* mutant
LinesHit(i) == {l \in touching[i] : l = Min(touching[i])}

\* _events_from_hits: per line, the runs of consecutive contacts.
ContactRuns == UNION {{[start |-> r.start, end |-> r.end, line |-> l] :
    r \in Runs({i \in Frames : l \in LinesHit(i)})} : l \in Yellows}

JustBefore(S, r) == {q \in Before(S, r) : \A p \in Before(S, r) : p.start <= q.start}

\* _collapse: a group lasts until the end of the run that joined it last.
Collapsed == Spans(ContactRuns,
    {r \in ContactRuns : LateAfter(r, JustBefore(ContactRuns, r))})

\* drop_duplicate_crossings
Duplicate(y, S) == \E w \in S : y.start - w.end <= Cooldown /\ w.start - y.end <= Cooldown

YellowCrossings == \E enabled \in BOOLEAN :
    /\ pc = "yellow"
    /\ contacts' = IF enabled THEN Collapsed ELSE {}
    /\ crossings' = confirmed \cup {y \in contacts' : ~Duplicate(y, confirmed)}
    /\ pc' = "done"
    /\ UNCHANGED <<timeline, touching, incidents, secondPass, confirmed>>

Next == Frame \/ EndOfClip \/ Stage1 \/ Stage2 \/ YellowCrossings

Spec == Init /\ [][Next]_vars

-----------------------------------------------------------------------------
Apart(a, b) == a.start - b.end > Cooldown \/ b.start - a.end > Cooldown

ReportsApart == \A a, b \in crossings : a # b => Apart(a, b)

\* Merging loses nothing: every run of hits lies in an incident, and every incident starts
\* and ends with one.
IncidentsCoverRuns == pc = "stage2" =>
    /\ \A r \in HitRuns : \E i \in incidents : i.start <= r.start /\ r.end <= i.end
    /\ \A i \in incidents : /\ \E r \in HitRuns : r.start = i.start
                            /\ \E r \in HitRuns : r.end = i.end

\* A manoeuvre is one record with one clip and one upload: two crossings of a vehicle that
\* reach the authority, from either rule, are further apart than the cooldown, and the
\* merging that keeps them apart loses no run of hits.
OneIncidentPerCooldown == ReportsApart /\ IncidentsCoverRuns

\* "drops incidents where no tire evidence is found" (evaluate_crossing): a white crossing
\* that was confirmed has tire evidence between its own start and end.
ConfirmedByOwnEvidence == secondPass = "ran" =>
    \A c \in confirmed : \E i \in c.start..c.end : timeline[i] = "tire"
=============================================================================
