---------------------------- MODULE LiveCrossing ----------------------------
(***************************************************************************)
(* The live crossing check of the test tools (tools/test_corun_video.py,       *)
(* test_crossing_ab.py): the lanes and lane-type masks of DLLaneDetector, the   *)
(* SolidMaskStabilizer that keeps a mask through dropouts and the               *)
(* CrossingMonitor that latches a vehicle on it. The road is one row of pixels. *)
(***************************************************************************)
EXTENDS Integers, Sequences, FiniteSetsExt

CONSTANTS
    Width,       \* pixels 1..Width of the row
    Vehicles,
    Hidden,      \* a vehicle without a box, or whose box is on the ego hood
    Scenes,      \* what the seg head may find: sequences of [type, at, conf]
    LaneSets,    \* what CLRerNet may find: sets of bottom pixels
    Cadences,    \* type_every_n
    THigh, TLow, MaxAge, Close, Dilate, \* of SolidMaskStabilizer, the kernels as radii
    MaxFrames    \* frames of a clip (a bound)

VARIABLES
    head,       \* [loaded, everyN]: whether the weights of the seg head are there, its cadence
    masks,      \* _type_masks: the result of the last inference, <<>> with none
    lanes,      \* the lanes of the frame: [x, type, position]
    age,        \* _on and _age of the stabiliser: frames since a pixel was kept, Off when not on
    anchor,     \* the bottom centre of every vehicle in the frame
    violators,  \* _violators of the monitor
    told,       \* how often a vehicle was announced as a new violation
    seen        \* history: solid_lane_masks of every frame, a set of masks

vars == <<head, masks, lanes, age, anchor, violators, told, seen>>

Off == -1
Pixels == 1..Width
Center2 == Width + 1

Init ==
    /\ head \in [loaded : BOOLEAN, everyN : Cadences]
    /\ masks = <<>> /\ lanes = {} /\ seen = <<>>
    /\ age = [p \in Pixels |-> Off]
    /\ anchor = [v \in Vehicles |-> Hidden]
    /\ violators = {} /\ told = [v \in Vehicles |-> 0]

-----------------------------------------------------------------------------
(* dl_lane_detector.py *)

\* The seg head runs with every everyN-th frame, and its masks serve the frames between.
Inferred(found) ==
    IF ~head.loaded THEN <<>>
    ELSE IF Len(seen) % head.everyN = 0 THEN found ELSE masks

SolidTypes == {"solid_white", "solid_yellow"}
SolidMasks(ms) == {m \in {ms[i] : i \in DOMAIN ms} : m.type \in SolidTypes}

\* The type most masks on the lane have, the first mask's on a tie.
Votes(ms, x, type) == Cardinality({i \in DOMAIN ms : x \in ms[i].at /\ ms[i].type = type})
Voted(ms, x) ==
    LET over == {i \in DOMAIN ms : x \in ms[i].at}
        ahead == {i \in over : \A j \in over : Votes(ms, x, ms[j].type) <= Votes(ms, x, ms[i].type)}
    IN IF over = {} THEN "unknown" ELSE ms[Min(ahead)].type

\* -1 and 1 are the lines beside the car, counted outwards on either side.
Position(xs, x) ==
    IF 2 * x < Center2 THEN -Cardinality({y \in xs : x <= y /\ 2 * y < Center2})
    ELSE Cardinality({y \in xs : y <= x /\ 2 * y >= Center2})

Detected(xs, ms) == {[x |-> x, type |-> Voted(ms, x), position |-> Position(xs, x)] : x \in xs}

-----------------------------------------------------------------------------
(* mask_stabilizer.py *)

\* The pixels of the masks a pixel can be turned on, or held, by.
Raster(ms, conf) == UNION {m.at : m \in {n \in ms : n.conf >= conf}}

EitherBand(ms, p) == p \in Raster(ms, TLow)                                     \* mutant
\* refreshed: admitted, or already on and still confident enough.
Refreshed(ms, p) == p \in Raster(ms, THigh) \/ (age[p] # Off /\ p \in Raster(ms, TLow))

DropsAtAge(a) == IF a + 1 >= MaxAge THEN Off ELSE a + 1                         \* mutant
\* A stale pixel coasts and is turned off past max_age.
Coasted(a) == IF a + 1 > MaxAge THEN Off ELSE a + 1

Stabilised(ms) == [p \in Pixels |->
    IF Refreshed(ms, p) THEN 0 ELSE IF age[p] = Off THEN Off ELSE Coasted(age[p])]

Grown(ps, r) == {p \in Pixels : \E q \in ps : q - r <= p /\ p <= q + r}
Shrunk(ps, r) == {p \in Pixels : \A q \in Pixels : (p - r <= q /\ q <= p + r) => q \in ps}
\* The output: holes closed and the line made fatter, on a copy.
Output(on) == Grown(Shrunk(Grown(on, Close), Close), Dilate)

-----------------------------------------------------------------------------
(* crossing_detector.py, and the loop of the tools *)

\* update_from_mask_image: the vehicles whose bottom centre is on a solid pixel.
OnMask(at, paint) == {v \in Vehicles : at[v] \in paint}

Frame ==
    \E found \in Scenes : \E ms \in {Inferred(found)} : \E on \in {Stabilised(SolidMasks(ms))} :
    \E paint \in {Output({p \in Pixels : on[p] # Off})}, xs \in LaneSets,
       at \in [Vehicles -> Pixels \union {Hidden}] :
        LET hit == OnMask(at, paint)
        IN /\ Len(seen) < MaxFrames
           /\ masks' = ms /\ lanes' = Detected(xs, ms)
           /\ seen' = Append(seen, SolidMasks(ms))
           /\ age' = on /\ anchor' = at
           /\ violators' = violators \union hit
           /\ told' = [v \in Vehicles |-> told[v] + (IF v \in hit \ violators THEN 1 ELSE 0)]
           /\ UNCHANGED head

Next == Frame

Spec == Init /\ [][Next]_vars

-----------------------------------------------------------------------------

Sure(p, k) == p \in Raster(seen[k], THigh)
Likely(p, k) == p \in Raster(seen[k], TLow)

\* What the stabiliser promises of a pixel after frame n: a frame was sure of it, and since
\* then no more than MaxAge frames in a row had nothing likely there.
Held(p, n) == \E a \in 1..n :
    /\ Sure(p, a)
    /\ \A k \in a + 1..n - MaxAge : \E j \in k..k + MaxAge : Likely(p, j)

HeldPixels == {p \in Pixels : Held(p, Len(seen))}

\* A pixel is on exactly as long as the frames vouch for it: no dip or dropout within the
\* bounds turns it off, and no paint outlives them (SolidMaskStabilizer.update).
NoFlicker == {p \in Pixels : age[p] # Off} = HeldPixels

\* A vehicle is flagged when it stands on paint the frames vouch for, fattened and closed,
\* stays flagged, and is announced once (CrossingMonitor.update_from_mask_image).
FlaggedOnPaint ==
    /\ \A v \in Vehicles : anchor[v] \in Output(HeldPixels) => v \in violators
    /\ \A v \in Vehicles : told[v] = IF v \in violators THEN 1 ELSE 0
    /\ \A v \in violators : \E n \in DOMAIN seen, p \in Pixels : Held(p, n)
    /\ ~head.loaded => violators = {}

\* A lane is called solid only when a mask the seg head gave within its cadence says so
\* (DLLaneDetector._classify_types).
SolidLanesVouched ==
    \A l \in lanes : l.type \in SolidTypes => l.x \in Raster(seen[Len(seen)], 0)

CrossingsOnPaint == NoFlicker /\ FlaggedOnPaint /\ SolidLanesVouched

\* By hand: a frame or two without a mask do not break the crossing test (the docstring of
\* mask_stabilizer.py: it "fixes ... a 1-2 frame mask dropout"). With everyN above MaxAge, as
\* with the defaults of the two classes, one inference that misses the line turns it off.
OneMissBridged ==
    \A p \in Pixels, n \in DOMAIN seen :
        Sure(p, n) /\ (n - 1) % head.everyN = 0 /\ Len(seen) < n + 2 * head.everyN => age[p] # Off
=============================================================================
