----------------------------- MODULE LiveLanes -----------------------------
(***************************************************************************)
(* The classical lane detector (line_crossing/line_detector.py) and its        *)
(* adapter (classical_adapter.py): which side a segment belongs to, the history *)
(* of fits, the health that decides whether a line is shown, the label solid or *)
(* dashed, and the top of the region of interest. A line is its x at the bottom *)
(* of the frame, from the middle; its slope grows with x.                       *)
(***************************************************************************)
EXTENDS Integers, SequencesExt

CONSTANTS
    Paint,       \* the painted lines: [x, looks], x even, looks what a frame may take it for
    Starts,      \* where the stream may begin, between two lanes or in one
    Shifts,      \* by how much the car may move sideways in a frame
    View,        \* a line further out is too flat: SLOPE_MIN_ABS
    Reach,       \* INTERCEPT_MAX_DIST_PX
    SlopeDelta,  \* MAX_SLOPE_DELTA, as a distance at the bottom
    HistoryLen, MaxMissed,                   \* FIT_HISTORY_LEN, MAX_MISSED_FRAMES
    Hit, Miss, Cap, High, Low,               \* HEALTH_*
    VotesLen,                                \* TYPE_HYSTERESIS_LEN
    ScoreHit, ScoreMiss, ScoreCap, ScoreHigh, ScoreLow, \* SOLID_SCORE_*
    Modes,       \* classifier_mode: subset of {"BASELINE", "STRIP", "GRADIENT"}
    Horizons, VpMin, VpMax, VpLen, VpOffset, DefaultTop, TopMax, \* vanishing point and ROI
    MaxFrames,   \* frames of a stream (a bound)
    None

VARIABLES
    car,      \* how far the car has moved
    mode,     \* classifier_mode
    side,     \* per side the history of fits, the counters and the label
    vps,      \* vp_history
    roi,      \* _current_roi_top_y
    frames,   \* frames read
    phase     \* history: hits and misses of a side since it was shown or hidden, and before that

vars == <<car, mode, side, vps, roi, frames, phase>>

Sides == {"left", "right"}
Lost == [fits |-> <<>>, missed |-> 0, health |-> 0, visible |-> FALSE, intercept |-> None,
         votes |-> <<>>, type |-> None, score |-> 0]

Init ==
    /\ car \in Starts /\ mode \in Modes /\ vps = <<>> /\ roi = DefaultTop /\ frames = 0
    /\ side = [s \in Sides |-> Lost]
    /\ phase = [s \in Sides |-> [hits |-> 0, misses |-> 0, before |-> None]]

Abs(x) == IF x < 0 THEN -x ELSE x
\* int() cuts towards zero.
Mean(xs) ==
    LET t == FoldLeft(+, 0, xs) IN IF t < 0 THEN -((-t) \div Len(xs)) ELSE t \div Len(xs)
Latest(seq, n) == IF Len(seq) > n THEN SubSeq(seq, Len(seq) - n + 1, Len(seq)) ELSE seq
Bounded(lo, x, hi) == Max({lo, Min({x, hi})})

-----------------------------------------------------------------------------
(* _partition *)

XOf(i, at) == Paint[i].x - at

Tracked(s) == side[s].intercept # None
Far(s, x) == Abs(x - side[s].intercept)

\* Without a track a line belongs to the half of the frame it is in.
InHalf(s, x) == IF s = "left" THEN x < 0 ELSE x > 0

\* With both sides tracked the nearer one has it, with one that side as far as it reaches,
\* and past that the other side only where a cold start would put it.
BelongsTo(s, x) ==
    LET other == CHOOSE t \in Sides : t # s IN
    IF ~Tracked(s) THEN InHalf(s, x) /\ (Tracked(other) => Far(other, x) >= Reach)
    ELSE /\ Far(s, x) < Reach
         /\ Tracked(other) => IF s = "left" THEN Far(s, x) <= Far(other, x)
                              ELSE Far(s, x) < Far(other, x) \/ Far(other, x) >= Reach

\* The lines whose segments a side gets; one straight ahead is vertical and skipped.
Given(s, found, at) == {i \in found : XOf(i, at) # 0 /\ BelongsTo(s, XOf(i, at))}

-----------------------------------------------------------------------------
(* _step_side and what follows it in detect_lanes *)

\* One line through the segments of all the lines a side got.
Fit(lines, at) == [x |-> Mean(SetToSeq({XOf(i, at) : i \in lines})), of |-> lines]

\* The slope is close to that of the mean of the history, if there is one.
Sane(fits, fit) ==
    fits = <<>> \/ Abs(fit.x * Len(fits) - FoldLeft(LAMBDA a, f : a + f.x, 0, fits))
                       <= SlopeDelta * Len(fits)

Fresh(s, lines, at) == lines # {} /\ Sane(side[s].fits, Fit(lines, at))

Seen(health, visible) == (health >= High \/ visible) /\ health > Low

\* A hit is added to the history, a miss costs health, and too many in a row end the track.
ForgetsTrackOnly(st) ==                                                         \* mutant
    IF st.missed <= MaxMissed THEN st
    ELSE [st EXCEPT !.intercept = None, !.votes = <<>>, !.type = None, !.health = 0,
                    !.visible = FALSE, !.score = 0]
Forgotten(st) == IF st.missed <= MaxMissed THEN st ELSE [Lost EXCEPT !.missed = st.missed]

Stepped(s, lines, fresh, at) ==
    LET st == side[s]
        health == IF fresh THEN Min({Cap, st.health + Hit}) ELSE Max({0, st.health - Miss})
    IN Forgotten([st EXCEPT
        !.fits = IF fresh THEN Latest(Append(@, Fit(lines, at)), HistoryLen) ELSE @,
        !.missed = IF fresh THEN 0 ELSE @ + 1,
        !.health = health, !.visible = Seen(health, @)])

Intercepted(st) ==
    IF st.fits = <<>> THEN st
    ELSE [st EXCEPT !.intercept = Mean([k \in DOMAIN st.fits |-> st.fits[k].x])]

-----------------------------------------------------------------------------
(* solid or dashed *)

\* The verdicts a frame may give on a side: from the gaps between its segments, from the
\* gradients along its history, or from the density of its edges, "none" with too few.
Verdicts(lines, fits) ==
    CASE mode = "BASELINE" -> IF lines = {} THEN {None} ELSE UNION {Paint[i].looks : i \in lines}
      [] mode = "GRADIENT" -> IF fits = <<>> THEN {None} ELSE {"solid", "dashed", None}
      [] mode = "STRIP" -> IF fits = <<>> THEN {None} ELSE {"solid", "dashed", "none"}

\* Counter.most_common: the most frequent, the earliest on a tie.
Count(votes, v) == Len(SelectSeq(votes, LAMBDA w : w = v))
Majority(votes) ==
    LET most == Max({Count(votes, v) : v \in ToSet(votes)})
    IN votes[Min({i \in DOMAIN votes : Count(votes, votes[i]) = most})]

VotedType(st, raw) ==
    LET votes == IF raw = None THEN st.votes ELSE Latest(Append(st.votes, raw), VotesLen)
    IN [st EXCEPT !.votes = votes, !.type = IF votes = <<>> THEN @ ELSE Majority(votes)]

Scored(st, raw) ==
    LET score == IF raw = "solid" THEN Min({ScoreCap, st.score + ScoreHit})
                 ELSE Max({0, st.score - ScoreMiss})
    IN IF raw = None THEN st
       ELSE IF raw = "none" THEN [st EXCEPT !.type = None]
       ELSE [st EXCEPT !.score = score,
                !.type = IF score >= ScoreHigh THEN "solid"
                         ELSE IF score <= ScoreLow \/ @ = None THEN "dashed" ELSE @]

Labelled(st, raw) == IF mode = "STRIP" THEN Scored(st, raw) ELSE VotedType(st, raw)

-----------------------------------------------------------------------------
(* detect_lanes *)

\* The vanishing point of two fresh fits, if it is a plausible one.
VpsWith(fresh, vp) ==
    IF fresh = Sides /\ VpMin < vp /\ vp < VpMax THEN Latest(Append(vps, vp), VpLen) ELSE vps

Phase(s, fresh, shown) ==
    LET p == phase[s]
        hits == Min({p.hits + (IF fresh THEN 1 ELSE 0), High - Low})
        misses == Min({p.misses + (IF fresh THEN 0 ELSE 1), High - Low})
    IN IF shown = side[s].visible THEN [p EXCEPT !.hits = hits, !.misses = misses]
       ELSE [hits |-> 0, misses |-> 0, before |-> [hits |-> hits, misses |-> misses]]

DetectLanes ==
    \E d \in Shifts : \E at \in {car + d} :
    \E found \in SUBSET {i \in DOMAIN Paint : Abs(XOf(i, at)) <= View} :
    \E lines \in {[s \in Sides |-> Given(s, found, at)]} :
    \E fresh \in {{s \in Sides : Fresh(s, lines[s], at)}} :
    \E st \in {[s \in Sides |-> Intercepted(Stepped(s, lines[s], s \in fresh, at))]} :
    \E l \in Verdicts(lines["left"], st["left"].fits),
       r \in Verdicts(lines["right"], st["right"].fits), vp \in Horizons :
        /\ frames < MaxFrames /\ frames' = frames + 1
        /\ car' = at
        /\ side' = [left |-> Labelled(st["left"], l), right |-> Labelled(st["right"], r)]
        /\ phase' = [s \in Sides |-> Phase(s, s \in fresh, st[s].visible)]
        /\ vps' = VpsWith(fresh, vp)
        /\ roi' = IF vps' = <<>> THEN roi
                  ELSE Bounded(VpMin + VpOffset, Mean(vps') + VpOffset, TopMax)
        /\ UNCHANGED mode

Next == DetectLanes

Spec == Init /\ [][Next]_vars

\* What the adapter hands on: the lanes shown, by their place beside the car.
Lanes == {[position |-> IF s = "left" THEN -1 ELSE 1, x |-> side[s].intercept,
           type |-> IF side[s].type = None THEN "unknown" ELSE side[s].type]
          : s \in {t \in Sides : side[t].visible /\ side[t].fits # <<>>}}

-----------------------------------------------------------------------------

\* A history is made of fits of one painted line, and no line is in both, though lines drift
\* across the frame and drop out of it (_partition and _step_side: a line that crosses the
\* middle keeps its side, and the slope check keeps the neighbour out).
HistoryPure ==
    /\ \A s \in Sides : \A i, j \in DOMAIN side[s].fits :
        Cardinality(side[s].fits[i].of) = 1 /\ side[s].fits[i].of = side[s].fits[j].of
    /\ \A i \in DOMAIN side["left"].fits, j \in DOMAIN side["right"].fits :
        side["left"].fits[i].of # side["right"].fits[j].of

\* A line appears and goes away only on the weight of that many hits or misses since it last
\* changed, and one that is shown was fitted lately (the health of _step_side).
NoFlicker == \A s \in Sides :
    LET p == phase[s].before IN
    /\ p # None => IF side[s].visible THEN p.hits * Hit >= High - Low
                   ELSE p.misses * Miss >= High - Low
    /\ side[s].visible => side[s].fits # <<>> /\ side[s].missed <= MaxMissed

\* The label of the density classifier agrees with its score (_classify_strip).
LabelByScore == mode = "STRIP" => \A s \in Sides :
    /\ side[s].type = "solid" => side[s].score > ScoreLow
    /\ side[s].type = "dashed" => side[s].score < ScoreHigh

LinesKept == HistoryPure /\ NoFlicker /\ LabelByScore

\* By hand: between its thresholds the score holds the label it had (the docstring of
\* _classify_strip: "maintain in between"). After a frame without paint it turns to dashed.
LabelHeld == [][\A s \in Sides :
    side[s].type = None /\ side[s].score > ScoreLow => side'[s].type # "dashed"]_vars

\* By hand: a line is shown on the side of the car it is on. After a lane change the line
\* that was crossed keeps its side, and the next one out is ignored.
ShownOnItsSide == \A l \in Lanes : l.position * l.x >= 0
=============================================================================
