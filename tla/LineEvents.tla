----------------------------- MODULE LineEvents -----------------------------
(***************************************************************************)
(* crossing2/offsets.py and events.py: the signed offset of one vehicle from  *)
(* one solid line, sample by sample, and the crossings and strafes that are    *)
(* read from it.  Offsets and widths are whole units, of a hundredth of a lane    *)
(* say.  A sample stands for a frame the vehicle was tracked in, as the filters    *)
(* leave it; frames the tracker lost it in leave no sample.                         *)
(***************************************************************************)
EXTENDS Integers, Sequences, FiniteSets, SequencesExt

CONSTANTS
    Offsets,     \* offsets from the line, a set of numbers: positive is right of it
    NoOffset,    \* NaN: no line geometry or no ground contact in this frame
    Lost,        \* how many frames the tracker may lose the vehicle for
    MaxLen,      \* samples of the track (a bound)
    MaxGap,      \* gap_interp_sec in frames
    Margin,      \* traverse_margin
    Hold,        \* traverse_hold_sec in frames
    StraddleHold, \* straddle_hold_sec in frames
    MinTransit, MaxTransit,
    Tenths,      \* a tenth of the width of the vehicle's box, as a frame may show it
    Sights,      \* where the line of sight of the car may lie, as an offset from the line
    Aspects,     \* how wide a box may be for its height
    MaxAspect    \* max_event_aspect: what is wider is seen from its side

VARIABLES
    frames,  \* OffsetSeries.frame_ids
    raw,     \* the offsets of each sample as measured: of the middle and of the two sides
    aspect   \* OffsetSeries.aspect
vars == <<frames, raw, aspect>>

Init == frames = <<>> /\ raw = <<>> /\ aspect = <<>>

\* The vehicle on the ground: the box without a fifth of its width on the side that is turned
\* away from us, the left one of a vehicle left of where we look and the right one otherwise.
Footprint(c, tenth, near_right) ==
    [c |-> c,
     l |-> c - (IF near_right THEN 3 * tenth ELSE 5 * tenth),
     r |-> c + (IF near_right THEN 5 * tenth ELSE 3 * tenth)]

\* The next frame the vehicle is tracked in; a gap is only lost once per track.
Track == \E u \in Offsets \cup {NoOffset}, tenth \in Tenths, sight \in Sights, a \in Aspects,
            gap \in Lost :
    /\ Len(raw) < MaxLen
    /\ gap = 0 \/ (raw # <<>> /\ Last(frames) = Len(frames))
    /\ raw' = Append(raw, IF u = NoOffset THEN NoOffset ELSE Footprint(u, tenth, u < sight))
    /\ aspect' = Append(aspect, a)
    /\ frames' = Append(frames, (IF frames = <<>> THEN 0 ELSE Last(frames)) + gap + 1)

Next == Track

Spec == Init /\ [][Next]_vars

-----------------------------------------------------------------------------
(* The series *)

Abs(n) == IF n < 0 THEN -n ELSE n
Finite(s, a, b) == \A k \in a..b : s[k] # NoOffset

\* Short runs of missing samples between two measured ones are interpolated, each of the
\* three offsets by itself.
Ends(k) == {e \in (DOMAIN raw) \X (DOMAIN raw) :
               /\ e[1] < k /\ k < e[2] /\ raw[e[1]] # NoOffset /\ raw[e[2]] # NoOffset
               /\ \A c \in (e[1] + 1)..(e[2] - 1) : raw[c] = NoOffset
               /\ e[2] - e[1] - 1 <= MaxGap}
Series == [k \in DOMAIN raw |->
    IF raw[k] # NoOffset \/ Ends(k) = {} THEN raw[k]
    ELSE LET e == CHOOSE e \in Ends(k) : TRUE
             at(p, q) == (p * (e[2] - k) + q * (k - e[1])) \div (e[2] - e[1])
         IN [c |-> at(raw[e[1]].c, raw[e[2]].c),
             l |-> at(raw[e[1]].l, raw[e[2]].l),
             r |-> at(raw[e[1]].r, raw[e[2]].r)]]

\* Maximal runs of samples of a set of indices, at least so long.
Runs(S, hold) == {r \in S \X S :
    /\ r[1]..r[2] \subseteq S /\ r[1] - 1 \notin S /\ r[2] + 1 \notin S
    /\ r[2] - r[1] + 1 >= hold}

\* _flank: the median of the aspects of some samples is that of a vehicle seen from its side,
\* as of the cross traffic at a junction.
SideOn(a, b) ==
    LET seen == SortSeq([i \in 1..(b - a + 1) |-> aspect[a + i - 1]], <)
        n == Len(seen)
    IN seen[(n + 1) \div 2] + seen[(n + 2) \div 2] > 2 * MaxAspect

-----------------------------------------------------------------------------
(* The crossing channel *)

\* Runs the vehicle was committed to one side in.
Committed(s) == UNION {{[first |-> r[1], last |-> r[2], side |-> d] :
    r \in Runs({k \in DOMAIN s : s[k] # NoOffset /\ s[k].c * d > Margin}, Hold)} : d \in {1, -1}}
Distance(s, a, b) == FoldLeft(+, 0, [k \in 1..(b - a) |-> Abs(s[a + k].c - s[a + k - 1].c)])
Monotonic(s, a, b) == 5 * Abs(s[b].c - s[a].c) >= 3 * Distance(s, a, b)

Transit(s, a, b) ==
    /\ b - a >= MinTransit /\ b - a <= MaxTransit
    /\ Finite(s, a, b)
    /\ Monotonic(s, a, b)
    /\ ~SideOn(a, b)

\* Pairs of runs that follow each other along the track.
Neighbours(s) == {p \in Committed(s) \X Committed(s) :
    /\ p[1].first < p[2].first
    /\ \A r \in Committed(s) : r.first <= p[1].first \/ p[2].first <= r.first}

Crossings(s) ==
    {[first |-> p[1].last, last |-> p[2].first, from |-> p[1].side] :
        p \in {q \in Neighbours(s) :
                  /\ q[1].side # q[2].side
                  /\ Transit(s, q[1].last, q[2].first)}}

-----------------------------------------------------------------------------
(* The strafe channel *)

\* A quarter of the footprint, straddle_min_frac, is on the far side of the line.
Straddles(p) == p.l < 0 /\ 0 < p.r /\ -4 * p.l >= p.r - p.l /\ 4 * p.r >= p.r - p.l

Folded(run, covered) ==
    ~\E c \in covered : frames[c.first] <= frames[run[1]] /\ frames[run[2]] <= frames[c.last]

\* The vehicle was off the line, on either side, before or after.
Approached(s, run) ==
    \E r \in Runs({k \in DOMAIN s : s[k] # NoOffset /\ Abs(s[k].c) > Margin}, Hold) :
        r[2] < run[1] \/ r[1] > run[2]

Strafes(s) ==
    {run \in Runs({k \in DOMAIN s : s[k] # NoOffset /\ Straddles(s[k])}, StraddleHold) :
        Approached(s, run) /\ ~SideOn(run[1], run[2]) /\ Folded(run, Crossings(s))}

-----------------------------------------------------------------------------
Shared(c, run) == run[1] <= c.last /\ c.first <= run[2]

\* A strafe that belongs to a crossing is folded into it. One that is told beside a crossing it
\* shares a sample with runs over an end of the crossing, where the vehicle keeps to its side
\* and has the line under it at once: its box is seen more than ten thirds of the margin wide.
ToldTwiceOnlyIfWide == \A c \in Crossings(Series), run \in Strafes(Series) : Shared(c, run) =>
    /\ \E tenth \in Tenths : 3 * tenth > Margin
    /\ \E k \in {c.first, c.last} :
           /\ run[1] <= k /\ k <= run[2]
           /\ Straddles(Series[k]) /\ Abs(Series[k].c) > Margin

\* Crossings of one line follow each other and alternate in direction: between two
\* crossings the same way the vehicle was seen to come back.
CrossingsAlternate == \A c, d \in Crossings(Series) :
    c.first < d.first =>
        /\ c.last <= d.first
        /\ c.from = d.from => \E r \in Committed(Series) :
               r.side = c.from /\ c.last <= r.first /\ r.last <= d.first

\* A manoeuvre across a line is one event: of a vehicle that is not wide it is not told twice,
\* as a strafe and as a crossing, and a crossing the same way needs a return in between.
OneManoeuvre == ToldTwiceOnlyIfWide /\ CrossingsAlternate

-----------------------------------------------------------------------------
(* What the code's comments say and the code does not keep *)

\* events.py: "a straddle inside a traverse is folded into it rather than double-reported".
\* A wide vehicle straddles before it has left its side: what is one traverse is told twice.
NeverToldTwice == \A c \in Crossings(Series), run \in Strafes(Series) : ~Shared(c, run)

\* config.py: a transit slower than traverse_max_transit_sec is not a crossing.
NoSlowTransit == \A c \in Crossings(Series) : frames[c.last] - frames[c.first] <= MaxTransit

\* events.py: a constant bias of the anchor shifts when the crossing is declared, it
\* cannot invent or erase it.
Shifted(s) == [k \in DOMAIN s |-> IF s[k] = NoOffset THEN s[k]
                                 ELSE [c |-> s[k].c + 1, l |-> s[k].l + 1, r |-> s[k].r + 1]]
BiasOnlyShifts == Cardinality(Crossings(Series)) = Cardinality(Crossings(Shifted(Series)))
=============================================================================
