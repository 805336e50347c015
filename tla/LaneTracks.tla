----------------------------- MODULE LaneTracks -----------------------------
(***************************************************************************)
(* Stage 0 of the yellow-line rule (crossing2/lane_tracks.py): the markings   *)
(* the lane model sees in each frame become lines with an identity. The       *)
(* pieces of one marking are fused, matched to the lines predicted from the   *)
(* frames before, stitched across gaps when the clip has ended, typed by vote *)
(* and freed of doubles. Of a marking's geometry one row is kept.             *)
(***************************************************************************)
EXTENDS Integers, FiniteSets, SequencesExt

CONSTANTS
    Length,    \* frames of the clip (a bound)
    Width,     \* frame width
    Base,      \* where each painted marking is in the first frame, left to right
    Boundary,  \* for each marking, the boundary it belongs to: a double line is one
    Sweeps,    \* how far the view may move sideways in a frame
    Pieces,    \* markings the model may also return in two pieces, read as solid
    Coast,     \* track_coast_sec in frames
    StitchGap  \* stitch_gap_sec in frames

VARIABLES
    pc,        \* "frames", "stitch", "double" or "done"
    sweep,     \* how the view moves
    frame,     \* frames processed
    seen,      \* per frame, the markings that were seen
    active, closed, \* fragments being tracked, and given up
    lines,     \* LineTrack objects, from "double" on
    suppressed \* lines dropped as the weaker one of a double

vars == <<pc, sweep, frame, seen, active, closed, lines, suppressed>>

Markings == DOMAIN Base
Abs(n) == IF n < 0 THEN -n ELSE n

\* The order of tuples.
Before(s, t) == \E k \in 1..Len(s) : s[k] < t[k] /\ \A j \in 1..k - 1 : s[j] = t[j]

\* The numbers up to n that satisfy P, in order.
Those(n, P(_)) == SelectSeq([k \in 1..n |-> k], P)

\* Twice the median of a non-empty sequence of numbers.
Median2(s) == LET t == SortSeq(s, <) IN t[(Len(t) + 1) \div 2] + t[Len(t) \div 2 + 1]

Init ==
    /\ pc = "frames" /\ frame = 0 /\ seen = <<>>
    /\ sweep \in Sweeps
    /\ active = <<>> /\ closed = <<>> /\ lines = <<>> /\ suppressed = {}

-----------------------------------------------------------------------------
(* One frame: what the model returns, and _merge_frame_fragments *)

At(m, i) == Base[m] + sweep * i
Type(m) == IF m \in Pieces THEN "dashed" ELSE "solid"

Detection(m, i, dx, type) == [x |-> At(m, i) + dx, type |-> type, marks |-> {m}]
Returned(here, split, i) == {Detection(m, i, 0, Type(m)) : m \in here \ split}
                       \cup {Detection(m, i, dx, "solid") : m \in split, dx \in 0..1}

\* Detections within the tolerance of each other are one marking in their middle.
Same(d, e) == 50 * Abs(d.x - e.x) <= Width
Fused(D) == {[x |-> (d.x + e.x) \div 2, type |-> d.type, marks |-> d.marks \cup e.marks] :
    <<d, e>> \in {p \in D \X D : Same(p[1], p[2]) /\ p[1].x <= p[2].x /\
        (p[1] = p[2] => \A o \in D : Same(o, p[1]) => o = p[1])}}

\* Left to right.
Detections(here, split, i) == SetToSortSeq(Fused(Returned(here, split, i)), LAMBDA d, e : d.x < e.x)

\* Twice the lane spacing of a frame: a quarter of the frame when it shows none.
Spacing2(D) ==
    LET gaps == SelectSeq([k \in 1..Len(D) - 1 |-> D[k + 1].x - D[k].x], LAMBDA g : 50 * g > Width)
    IN  IF Len(D) < 2 \/ gaps = <<>> THEN Width \div 2 ELSE Median2(gaps)

-----------------------------------------------------------------------------
(* Fragments *)

Frag(i, d) == [at |-> [j \in {i} |-> d], state |-> d.x, vel |-> 0, last |-> i]
First(f) == Min(DOMAIN f.at)

\* The velocity is a running average, rounded here to the pixel.
Add(f, i, d) == [
    at |-> [j \in DOMAIN f.at \cup {i} |-> IF j = i THEN d ELSE f.at[j]],
    state |-> d.x,
    vel |-> (f.vel + (d.x - f.state) \div (i - f.last)) \div 2,
    last |-> i]

Predict(f, i) == f.state + f.vel * (i - f.last)

\* Pairs (fragment, detection) within two fifths of the lane spacing, the cheapest first:
\* <<cost, fragment, detection>>.
Pairs(i, D) == LET gate == Spacing2(D) IN
    SortSeq(SelectSeq([k \in 1..Len(active) * Len(D) |->
                           LET t == 1 + (k - 1) \div Len(D)  d == 1 + ((k - 1) % Len(D))
                           IN  <<Abs(Predict(active[t], i) - D[d].x), t, d>>],
                      LAMBDA p : 5 * p[1] <= gate), Before)

\* Greedy: each fragment and each detection is used once.
Matched(i, D) == FoldLeft(
    LAMBDA M, p : IF \E q \in M : q[2] = p[2] \/ q[3] = p[3] THEN M ELSE M \cup {p},
    {}, Pairs(i, D))

\* _associate, one frame of it.
Associate ==
    /\ pc = "frames"
    /\ frame' = frame + 1
    /\ pc' = IF frame' = Length THEN "stitch" ELSE pc
    /\ \E here \in SUBSET Markings : \E split \in SUBSET (here \cap Pieces) :
       \E D \in {Detections(here, split, frame)} : \E M \in {Matched(frame, D)} :
       LET Joined(t) == {p \in M : p[2] = t}
           Survives(t) == Joined(t) # {} \/ frame - active[t].last <= Coast
           After(t) == IF Joined(t) = {} THEN active[t]
                       ELSE Add(active[t], frame, D[(CHOOSE p \in Joined(t) : TRUE)[3]])
           Kept == Those(Len(active), Survives)
           Lost == Those(Len(active), LAMBDA t : ~Survives(t))
           New == Those(Len(D), LAMBDA d : \A p \in M : p[3] # d)
       IN  /\ active' = [k \in 1..Len(Kept) |-> After(Kept[k])]
                        \o [k \in 1..Len(New) |-> Frag(frame, D[New[k]])]
           /\ closed' = closed \o [k \in 1..Len(Lost) |-> active[Lost[k]]]
           /\ seen' = Append(seen, here)
    /\ UNCHANGED <<sweep, lines, suppressed>>

-----------------------------------------------------------------------------
(* _stitch and _vote_type, when the clip has ended *)

ShorterGap(f, c) == 0 < First(f) - c.last /\ First(f) - c.last < StitchGap      \* mutant
InReach(f, c) == 0 < First(f) - c.last /\ First(f) - c.last <= StitchGap

StitchCost(f, c) == Abs(Predict(c, First(f)) - f.at[First(f)].x)
Continues(f, c) == InReach(f, c) /\ 10 * StitchCost(f, c) <= Width

\* A fragment continues the nearest of the chains it may continue, the earliest of equals.
Stitched(chains, f) ==
    LET fits == {k \in 1..Len(chains) : Continues(f, chains[k])}
        best == CHOOSE k \in fits : \A l \in fits :
                    \/ StitchCost(f, chains[k]) < StitchCost(f, chains[l])
                    \/ StitchCost(f, chains[k]) = StitchCost(f, chains[l]) /\ k <= l
    IN  IF fits = {} THEN Append(chains, f)
        ELSE [chains EXCEPT ![best] =
                 FoldLeft(LAMBDA c, k : Add(c, k - 1, f.at[k - 1]), @,
                          Those(Length, LAMBDA k : k - 1 \in DOMAIN f.at))]

Votes(f, t) == Cardinality({i \in DOMAIN f.at : f.at[i].type = t})
IsSolid(f) == Votes(f, "solid") > Votes(f, "dashed")

Stitch ==
    /\ pc = "stitch"
    /\ lines' = SelectSeq(
           FoldLeft(Stitched, <<>>, SortSeq(closed \o active, LAMBDA f, g : First(f) < First(g))),
           LAMBDA c : Cardinality(DOMAIN c.at) >= 2)
    /\ pc' = "double"
    /\ UNCHANGED <<sweep, frame, seen, active, closed, suppressed>>

-----------------------------------------------------------------------------
(* interp_gaps and _suppress_doubles *)

\* The geometry of a line in a frame: seen, or between two sightings near enough.
Between(f, i) == <<Max({j \in DOMAIN f.at : j <= i}), Min({j \in DOMAIN f.at : j >= i})>>
HasX(f, i) == First(f) <= i /\ i <= f.last /\ Between(f, i)[2] - Between(f, i)[1] - 1 <= StitchGap
XOf(f, i) == LET a == Between(f, i)[1]  b == Between(f, i)[2] IN
    IF a = b THEN f.at[a].x
    ELSE f.at[a].x + ((f.at[b].x - f.at[a].x) * (i - a)) \div (b - a)

Shared(f, g) == Those(Length, LAMBDA k : HasX(f, k - 1) /\ HasX(g, k - 1))
Separation2(f, g) == LET both == Shared(f, g) IN
    Median2([k \in DOMAIN both |-> Abs(XOf(f, both[k] - 1) - XOf(g, both[k] - 1))])

\* Pairs of lines side by side in three frames at least, the closest first:
\* <<twice the separation, line, line>>.
SideBySide == LET n == Len(lines) IN
    SelectSeq([k \in 1..n * n |-> <<1 + (k - 1) \div n, 1 + ((k - 1) % n)>>],
              LAMBDA p : p[1] < p[2] /\ Len(Shared(lines[p[1]], lines[p[2]])) >= 3)
Closest == LET pairs == SideBySide IN
    SortSeq([k \in DOMAIN pairs |->
                <<Separation2(lines[pairs[k][1]], lines[pairs[k][2]])>> \o pairs[k]], Before)

\* Twice the lane width: of the pairs that are not next to each other.
LaneWidth2 == LET wide == SelectSeq(Closest, LAMBDA p : 50 * p[1] > 6 * Width)
              IN  IF wide = <<>> THEN Width \div 2
                  ELSE Median2([k \in 1..Len(wide) |-> wide[k][1]]) \div 2

IsDouble(p, lane) == 4 * p[1] < lane /\ IsSolid(lines[p[2]]) /\ IsSolid(lines[p[3]])
Observations(k) == Cardinality(DOMAIN lines[k].at)
Weaker(p) == IF Observations(p[2]) >= Observations(p[3]) THEN p[3] ELSE p[2]

SuppressDoubles ==
    /\ pc = "double"
    /\ suppressed' = LET lane == LaneWidth2 IN FoldLeft(
           LAMBDA S, p : IF {p[2], p[3]} \cap S = {} /\ IsDouble(p, lane)
                         THEN S \cup {Weaker(p)} ELSE S,
           {}, Closest)
    /\ pc' = "done"
    /\ UNCHANGED <<sweep, frame, seen, active, closed, lines>>

Next == Associate \/ Stitch \/ SuppressDoubles

Spec == Init /\ [][Next]_vars

-----------------------------------------------------------------------------
MarksOf(f) == UNION {f.at[i].marks : i \in DOMAIN f.at}

\* A line is one boundary of the road: a marking out of sight is not continued by the one
\* next to it, however the view swept in the meantime.
LineIsOneBoundary == \A k \in 1..Len(lines) :
    Cardinality({Boundary[m] : m \in MarksOf(lines[k])}) = 1

\* A marking that was out of sight for no longer than the stitching bridges is still the
\* same line: a crossing that began before a truck hid the paint is not cut in two.
MarkingIsOneLine == pc \in {"double", "done"} => \A m \in Markings : \A i, j \in 1..Length :
    /\ i < j /\ j - i <= StitchGap
    /\ m \in seen[i] \cap seen[j]
    /\ \A o \in Markings \ {m} : Boundary[o] # Boundary[m]
    => \E k \in 1..Len(lines) : /\ {i - 1, j - 1} \subseteq DOMAIN lines[k].at
                                /\ m \in lines[k].at[i - 1].marks \cap lines[k].at[j - 1].marks

\* The two halves of a double line, tracked side by side, do not both fire, and one is left.
DoubleFiresOnce == pc = "done" =>
    /\ LET lane == LaneWidth2 IN \A p \in ToSet(Closest) : IsDouble(p, lane) => {p[2], p[3]} \cap suppressed # {}
    /\ \A k \in suppressed : \E l \in (1..Len(lines)) \ suppressed :
           MarksOf(lines[l]) \cap UNION {{m \in Markings : Boundary[m] = Boundary[n]} :
                                         n \in MarksOf(lines[k])} # {}

\* What is tracked are the markings on the road.
LinesAreMarkings == LineIsOneBoundary /\ MarkingIsOneLine /\ DoubleFiresOnce
=============================================================================
