----------------------------- MODULE ClassVotes -----------------------------
(***************************************************************************)
(* Stabilising the class of tracked lane lines: detections go to the tracks   *)
(* they overlap best, whatever their class, and the class a track is shown    *)
(* with is voted for by its last detections, the newer the more, and switches *)
(* only to a clear leader that stays one.  Lines lie on an axis across the    *)
(* road; confidences are integers, and a vote decays by a half per frame.     *)
(***************************************************************************)
EXTENDS Integers, Sequences, SequencesExt, FiniteSetsExt

CONSTANTS
    Scenes,     \* what a frame can show: sequences of [class, conf, at]
    Classes, None,
    Window,     \* detections a track votes with
    Reach,      \* how far apart boxes of one line are at most: iou_assoc
    Margin,     \* the lead a switch takes, in parts of 100 of all votes
    SwitchK,    \* how many frames a challenger has to lead
    ConfGate,   \* the confidence that one of its detections has to have
    Death,      \* misses a track survives
    MaxFrames   \* a bound

VARIABLES
    tracks,   \* the live tracks, oldest first
    closed,   \* how often the classes of those that are gone changed: [raw, stable]
    out,      \* what the last frame was shown as: tracks that were seen in it
    scene,    \* what it showed
    frames

vars == <<tracks, closed, out, scene, frames>>

Counts == [raw : 0..MaxFrames * MaxFrames, stable : 0..MaxFrames * MaxFrames]
Miss == [class |-> None, conf |-> 0]

\* Every variable of the stabiliser keeps to its values.
TypeOK ==
    /\ \A t \in Range(tracks) : /\ t.class \in Classes /\ Len(t.win) \in 1..Window
                                /\ t.challenger \in Classes \cup {None} /\ t.streak < SwitchK
    /\ closed \in Counts /\ frames \in 0..MaxFrames

Init ==
    /\ tracks = <<>> /\ out = <<>> /\ scene = <<>> /\ frames = 0
    /\ closed = [raw |-> 0, stable |-> 0]

-----------------------------------------------------------------------------
(* Association *)

Apart(a, b) == Max({a - b, b - a})

\* The detection nearest to a track, of those no earlier track has; the last of equals.
Nearest(t, dets, used) ==
    LET near == {j \in DOMAIN dets \ used : Apart(t.at, dets[j].at) <= Reach}
        best == {j \in near : \A k \in near : Apart(t.at, dets[j].at) <= Apart(t.at, dets[k].at)}
    IN IF best = {} THEN 0 ELSE Max(best)

\* Which detection each track takes, tracks first come, first served; 0 is none.
Taken(dets) ==
    FoldLeft(LAMBDA took, t : Append(took, Nearest(t, dets, Range(took))), <<>>, tracks)

Seen(t, d) ==
    [t EXCEPT !.at = d.at, !.misses = 0, !.matched = @ + 1, !.last = d.class,
              !.win = SubSeq(<<[class |-> d.class, conf |-> d.conf]>> \o t.win, 1,
                             Min({Window, Len(t.win) + 1})),
              !.raw = @ + IF d.class # t.last THEN 1 ELSE 0]
Missed(t) ==
    [t EXCEPT !.misses = @ + 1,
              !.win = SubSeq(<<Miss>> \o t.win, 1, Min({Window, Len(t.win) + 1}))]
Fresh(d) ==
    [at |-> d.at, class |-> d.class, win |-> <<[class |-> d.class, conf |-> d.conf]>>,
     last |-> d.class, misses |-> 0, matched |-> 1, challenger |-> None, streak |-> 0,
     raw |-> 0, stable |-> 0]

-----------------------------------------------------------------------------
(* The vote *)

Voters(t, c) == {i \in DOMAIN t.win : t.win[i].class = c}
Vote(t, c) ==
    MapThenSumSet(LAMBDA i : t.win[i].conf * 2^(Window - i), Voters(t, c))
Voted(t) == {c \in Classes : Voters(t, c) # {}}
Total(t) == MapThenSumSet(LAMBDA c : Vote(t, c), Voted(t))

\* The class with the most votes; of equals, the one seen last.
Leader(t) ==
    CHOOSE c \in Voted(t) : \A d \in Voted(t) \ {c} :
        \/ Vote(t, c) > Vote(t, d)
        \/ Vote(t, c) = Vote(t, d) /\ Min(Voters(t, c)) < Min(Voters(t, d))

Leads(t, c) ==
    /\ (Vote(t, c) - Vote(t, t.class)) * 100 >= Margin * Total(t)
    /\ \E i \in Voters(t, c) : t.win[i].conf >= ConfGate

Unchallenged(t) == [t EXCEPT !.challenger = None, !.streak = 0]

Judge(t) ==
    IF Voted(t) = {} THEN t
    ELSE LET c == Leader(t)
             n == IF t.challenger = c THEN t.streak + 1 ELSE 1
         IN IF c = t.class \/ ~Leads(t, c) THEN Unchallenged(t)
            ELSE IF n < SwitchK THEN [t EXCEPT !.challenger = c, !.streak = n]
            ELSE Unchallenged([t EXCEPT !.class = c, !.stable = @ + 1])

Dead(t) == t.misses > Death \/ Voted(t) = {}

Summed(f(_), ts) == FoldLeft(LAMBDA n, t : n + IF t.matched >= 2 THEN f(t) ELSE 0, 0, ts)
Raw(t) == t.raw
Stable(t) == t.stable

\* update(): one frame.
Update ==
    /\ frames < MaxFrames /\ frames' = frames + 1
    /\ \E dets \in Scenes :
        LET took  == Taken(dets)
            old   == [i \in DOMAIN tracks |-> IF took[i] = 0 THEN Missed(tracks[i])
                                              ELSE Seen(tracks[i], dets[took[i]])]
            free  == SelectSeq([j \in DOMAIN dets |-> j], LAMBDA j : j \notin Range(took))
            new   == [i \in DOMAIN free |-> Fresh(dets[free[i]])]
            all   == old \o new
            voted == [i \in DOMAIN all |-> Judge(all[i])]
            dead  == SelectSeq(voted, Dead)
        IN /\ scene' = dets
           /\ out' = SelectSeq(voted, LAMBDA t : t.misses = 0)
           /\ tracks' = SelectSeq(voted, LAMBDA t : ~Dead(t))
           /\ closed' = [raw    |-> closed.raw + Summed(Raw, dead),
                         stable |-> closed.stable + Summed(Stable, dead)]

Next == Update

Spec == Init /\ [][Next]_vars

-----------------------------------------------------------------------------
\* A frame is shown with one line for each of its detections, where that is.
EachShown ==
    /\ Len(out) = Len(scene)
    /\ \A d \in Range(scene) : \E t \in Range(out) : t.at = d.at /\ t.last = d.class

\* What the votes are for: a line changes its class no more often than it is detected as
\* another, be it seen, missed, lost or forgotten; and so do all lines together.
Steadier ==
    /\ \A t \in Range(tracks) : t.stable <= t.raw
    /\ closed.stable + Summed(Stable, tracks) <= closed.raw + Summed(Raw, tracks)

ClassesSteady == EachShown /\ Steadier
=============================================================================
