------------------------------- MODULE Cascade -------------------------------
(***************************************************************************)
(* Stage 2 of the crossing rule: Stage2Cascade.step with the tire model of the *)
(* pipeline (violations/cascade/stage2.py) and the memories it keeps per         *)
(* vehicle (temporal.py): the k-of-m window, the ghost lines, the sides. Paint   *)
(* is a rectangle of the image; vehicles move across it, come and go.             *)
(* The plane geometry (geometry.py) is in integers: a point is <<x, y>> with y     *)
(* growing downwards, a box <<x1, y1, x2, y2>>, a contour a sequence of points.  *)
(* Distances are compared by their squares, as fractions <<num, den>>.           *)
(***************************************************************************)
EXTENDS Integers, FiniteSets, SequencesExt

CONSTANTS
    Vehicles,
    Paint,         \* the solid markings: [1..n -> [from, to]], columns of the image
    Places,        \* left edges a vehicle's box may have
    Width,         \* of a vehicle's box, an even number
    K, M, GhostLen,
    Margin, NoTireMargin, ArmMargin, Penetration,
    Headings,      \* {FALSE}: the pipeline passes no heading rate; TRUE is oncoming
    Deadband,      \* of SideSwitchTracker
    SameAxle, RequireBand, SepPercent, Band,  \* the toggles of the axle test, their limits
    OnFrames, OffFrames  \* the dwell of CurveGate

VARIABLES
    window,    \* KOfMFilter._win: the last M verdicts, 1 or 0
    ghost,     \* GhostLineBuffer._mem: sets of markings, the last GhostLen
    sides,     \* SideSwitchTracker: the sides of the markings a vehicle has been on
    gate,      \* CurveGate: curved, and the frames in a row that speak for a change
    fired,     \* what the last step of the vehicle returned
    contacts,  \* of the vehicle's last M steps, those in which it stood on paint (history)
    met        \* the markings in view whenever the vehicle's box touched one (history)

vars == <<window, ghost, sides, gate, fired, contacts, met>>

-----------------------------------------------------------------------------
(* The geometry *)

Square(n) == n * n
Dist2(p, q) == Square(p[1] - q[1]) + Square(p[2] - q[2])
AbsOf(n) == IF n < 0 THEN -n ELSE n
Less(f, g) == f[1] * g[2] < g[1] * f[2]

\* _orient: positive when c is left of a->b
Orient(a, b, c) == (b[1] - a[1]) * (c[2] - a[2]) - (b[2] - a[2]) * (c[1] - a[1])

Between(n, i, j) == Min({i, j}) <= n /\ n <= Max({i, j})
OnSegment(a, b, p) == Between(p[1], a[1], b[1]) /\ Between(p[2], a[2], b[2])

SegmentsIntersect(p1, p2, p3, p4) ==
    LET d1 == Orient(p3, p4, p1)  d2 == Orient(p3, p4, p2)
        d3 == Orient(p1, p2, p3)  d4 == Orient(p1, p2, p4)
    IN \/ (d1 > 0) # (d2 > 0) /\ (d3 > 0) # (d4 > 0)
       \/ d1 = 0 /\ OnSegment(p3, p4, p1)
       \/ d2 = 0 /\ OnSegment(p3, p4, p2)
       \/ d3 = 0 /\ OnSegment(p1, p2, p3)
       \/ d4 = 0 /\ OnSegment(p1, p2, p4)

\* point_to_segment_dist, squared: to the nearer end when the foot of the perpendicular
\* falls outside the segment.
SegmentDist2(p, a, b) ==
    LET len2 == Dist2(a, b)
        along == (p[1] - a[1]) * (b[1] - a[1]) + (p[2] - a[2]) * (b[2] - a[2])
    IN IF along <= 0 THEN <<Dist2(p, a), 1>>
       ELSE IF along >= len2 THEN <<Dist2(p, b), 1>>
       ELSE <<Square(Orient(a, b, p)), len2>>

Within(p, a, b, margin) == ~Less(<<Square(margin), 1>>, SegmentDist2(p, a, b))

\* contour_edges, in order: the last one closes the contour
Edges(c) == [i \in DOMAIN c |-> <<c[i], c[(i % Len(c)) + 1]>>]

SegmentHitsContour(p1, p2, c, margin) == Len(c) >= 2 /\ \E e \in ToSet(Edges(c)) :
    \/ SegmentsIntersect(p1, p2, e[1], e[2])
    \/ /\ margin > 0
       /\ \/ Within(e[1], p1, p2, margin) \/ Within(e[2], p1, p2, margin)
          \/ Within(p1, e[1], e[2], margin) \/ Within(p2, e[1], e[2], margin)

PointNearContour(p, c, margin) == \E e \in ToSet(Edges(c)) : Within(p, e[1], e[2], margin)

\* A box of even width has a centre: its bottom centre is where a tire meets the road.
BottomCentre(box) == <<(box[1] + box[3]) \div 2, box[4]>>
BottomEdge(box) == <<<<box[1], box[4]>>, <<box[3], box[4]>>>>

\* rear_axle_pair: the two tires that stand lowest in the image (the first ones of the
\* detector's list on a tie), from left to right.
RearAxle(tires) ==
    LET foot == [i \in DOMAIN tires |-> BottomCentre(tires[i])]
        Before(i, j) == foot[i][2] > foot[j][2] \/ (foot[i][2] = foot[j][2] /\ i < j)
        first == CHOOSE i \in DOMAIN tires : \A j \in DOMAIN tires \ {i} : Before(i, j)
        next == CHOOSE i \in DOMAIN tires \ {first} :
                    \A j \in DOMAIN tires \ {first, i} : Before(i, j)
        a == foot[first]  b == foot[next]
    IN IF a[1] <= b[1] THEN <<a, b>> ELSE <<b, a>>

AxleStraddles(tires, contours, margin) == Len(tires) >= 2 /\
    LET axle == RearAxle(tires)
    IN \E c \in contours : SegmentHitsContour(axle[1], axle[2], c, margin)

\* same_vehicle_axle_pair's test: the two wheels are no further apart than the vehicle is
\* wide, give or take a per cent rate.
SameVehicle(tires, box, percent) ==
    LET axle == RearAxle(tires)
    IN ~(box[3] > box[1] /\ 100 * AbsOf(axle[2][1] - axle[1][1]) > percent * (box[3] - box[1]))

\* axle_midpoint_in_band, for an axle whose ends have coordinates of one parity
MidpointInBand(axle, contours, band) ==
    LET mid == <<(axle[1][1] + axle[2][1]) \div 2, (axle[1][2] + axle[2][2]) \div 2>>
    IN \E c \in contours : PointNearContour(mid, c, band)

\* tire_crosses_line: an edge cuts the bottom edge of the tire's box at a point (a share
\* num / den of its length) at least "penetration" from both of its corners.
CutShare(base, e) ==
    LET den == (base[2][1] - base[1][1]) * (e[2][2] - e[1][2])
        num == (e[1][1] - base[1][1]) * (e[2][2] - e[1][2])
                 - (e[1][2] - base[1][2]) * (e[2][1] - e[1][1])
    IN IF den < 0 THEN <<-num, -den>> ELSE <<num, den>>

CutsInside(base, e, penetration) ==
    LET share == CutShare(base, e)  len == base[2][1] - base[1][1]
    IN /\ share[2] # 0
       /\ Between(base[1][2], e[1][2], e[2][2])
       /\ 0 <= share[1] /\ share[1] <= share[2]
       /\ share[1] * len >= penetration * share[2]
       /\ (share[2] - share[1]) * len >= penetration * share[2]

TireCrosses(tire, contours, penetration) ==
    \E c \in contours : \E e \in ToSet(Edges(c)) : CutsInside(BottomEdge(tire), e, penetration)

BottomHits(box, contours, margin) == \E c \in contours :
    SegmentHitsContour(BottomEdge(box)[1], BottomEdge(box)[2], c, margin)

\* signed_side_of_contour: the side of the nearest edge (the first one on a tie), read from
\* its upper end to its lower one.
SignedSide(p, c) ==
    LET edges == Edges(c)
        dist == [i \in DOMAIN edges |-> SegmentDist2(p, edges[i][1], edges[i][2])]
        near == CHOOSE i \in DOMAIN edges : \A j \in DOMAIN edges :
                    ~Less(dist[j], dist[i]) /\ (j < i => Less(dist[i], dist[j]))
        e == edges[near]
    IN IF Len(c) < 2 THEN 0
       ELSE IF e[1][2] > e[2][2] THEN Orient(e[2], e[1], p) ELSE Orient(e[1], e[2], p)

\* contour_curvature >= num / den: the largest distance of a vertex from the chord between
\* the two vertices farthest apart, against the length of that chord.
Bends(c, num, den) == Len(c) >= 3 /\ \E i, j \in DOMAIN c :
    LET chord2 == Dist2(c[i], c[j])
    IN /\ i < j /\ chord2 > 0
       /\ \A k, l \in DOMAIN c : Dist2(c[k], c[l]) <= chord2
       /\ \A k, l \in DOMAIN c : k < l /\ (k < i \/ (k = i /\ l < j)) => Dist2(c[k], c[l]) < chord2
       /\ \E k \in DOMAIN c :
            ~Less(SegmentDist2(c[k], c[i], c[j]), <<Square(num) * chord2, Square(den)>>)

-----------------------------------------------------------------------------
(* The scene *)

Markings == DOMAIN Paint
Top == 0    \* the rows between which the paint lies, and the row where vehicles stand
Bottom == 4
Row == 2

Contour(m) == <<<<Paint[m].from, Top>>, <<Paint[m].to, Top>>,
                <<Paint[m].to, Bottom>>, <<Paint[m].from, Bottom>>>>

Box(x) == <<x, Top, x + Width, Row>>
Tire(x) == <<x, Top, x + 2, Row>>
\* What the tire model finds on the crop of a vehicle: nothing, a wheel, or the axle.
Finds == {"none", "left", "right", "axle"}
Wheels(x, find) == CASE find = "none" -> <<>>
                     [] find = "left" -> <<Tire(x)>>
                     [] find = "right" -> <<Tire(x + Width - 2)>>
                     [] find = "axle" -> <<Tire(x), Tire(x + Width - 2)>>

\* The markings that a box, or what is found of its wheels, meets at a place.
BaseOn(margin) == [x \in Places |-> {m \in Markings : BottomHits(Box(x), {Contour(m)}, margin)}]
ArmedBy == BaseOn(ArmMargin)
BaseNear == BaseOn(NoTireMargin)
Crossed == [x \in Places |-> [find \in Finds |-> {m \in Markings :
    LET wheels == Wheels(x, find)
    IN \/ /\ AxleStraddles(wheels, {Contour(m)}, Margin)
          /\ SameAxle => SameVehicle(wheels, Box(x), SepPercent)
          /\ RequireBand => MidpointInBand(RearAxle(wheels), {Contour(m)}, Band)
       \/ \E i \in DOMAIN wheels : TireCrosses(wheels[i], {Contour(m)}, Penetration)}]]

Init ==
    /\ window = [v \in Vehicles |-> <<>>] /\ ghost = [v \in Vehicles |-> <<>>]
    /\ sides = [v \in Vehicles |-> {}] /\ fired = [v \in Vehicles |-> FALSE]
    /\ gate = [curved |-> FALSE, run |-> 0]
    /\ contacts = [v \in Vehicles |-> <<>>] /\ met = [v \in Vehicles |-> {}]

Latest(s, e, n) == LET t == Append(s, e) IN IF Len(t) > n THEN Tail(t) ELSE t

\* CurveGate.update: a run of bent frames (of straight ones, once curved) as long as the
\* dwell flips the gate. The bends in view: none, one between the thresholds, a curve.
Curve == \E bend \in {0, 3, 4} :
    LET line == <<<<0, 0>>, <<bend, 10>>, <<0, 20>>>>
        speaks == IF gate.curved THEN ~Bends(line, 12, 100) ELSE Bends(line, 18, 100)
        run == IF speaks THEN gate.run + 1 ELSE 0
        dwell == IF gate.curved THEN OffFrames ELSE OnFrames
    IN /\ gate' = IF run >= dwell THEN [curved |-> ~gate.curved, run |-> 0]
                                  ELSE [gate EXCEPT !.run = run]
       /\ UNCHANGED <<window, ghost, sides, fired, contacts, met>>

-----------------------------------------------------------------------------
\* The ghost is armed only when the bottom edge of the box reaches a marking in view.
AnyView(v, x, view) == IF view # {} THEN Latest(ghost[v], view, GhostLen) ELSE ghost[v]  \* mutant
Armed(v, x, view) == IF ArmedBy[x] \cap view # {} THEN Latest(ghost[v], view, GhostLen)
                                                 ELSE ghost[v]

\* SideSwitchTracker.update: beyond the deadband, left (positive) or right of a marking.
SideOf == [x \in Places, m \in Markings |->
    LET side == SignedSide(BottomCentre(Box(x)), Contour(m))
    IN (IF side > Deadband THEN {"left"} ELSE {}) \cup (IF side < -Deadband THEN {"right"} ELSE {})]

\* _geometric_confirm: two wheels, else one, else the box itself, else the change of sides.
\* Wheels that do not cross the paint settle that the vehicle does not.
Confirms(v, x, find, lines) ==
    Crossed[x][find] \cap lines # {} \/ (find = "none" /\ BaseNear[x] \cap lines # {})

Step(v, x, far, find, view, oncoming) ==
    \E memory \in {IF far THEN ghost[v] ELSE Armed(v, x, view)} :
    \E lines \in {IF view # {} THEN view ELSE UNION ToSet(memory)} :
    \E on \in {~far /\ Confirms(v, x, find, lines)} :
    \E last \in {~far /\ ~on /\ find = "none" /\ oncoming} :
        /\ ghost' = [ghost EXCEPT ![v] = memory]
        /\ sides' = [sides EXCEPT ![v] = IF last THEN @ \cup UNION {SideOf[x, m] : m \in view} ELSE @]
        /\ window' = [window EXCEPT ![v] =
                Latest(@, on \/ (last /\ view # {} /\ sides'[v] = {"left", "right"}), M)]
        /\ fired' = [fired EXCEPT ![v] = Cardinality({i \in DOMAIN window'[v] : window'[v][i]}) >= K]

\* Whether the base of a box is on a marking, or within the widest margin of one of its edges.
Reaches(x, m) == \E edge \in {Paint[m].from, Paint[m].to} :
    x - NoTireMargin <= edge /\ edge <= x + Width + NoTireMargin
Touches(x, m) == \E edge \in {Paint[m].from, Paint[m].to} :
    x - ArmMargin <= edge /\ edge <= x + Width + ArmMargin

\* A candidate frame of a vehicle. The distance gate shuts out vehicles that are far, and
\* on a curve those at a middle distance (horizon_for).
Observe == \E v \in Vehicles, x \in Places, away \in 0..2, view \in SUBSET Markings,
              find \in Finds, oncoming \in Headings :
    LET far == away >= (IF gate.curved THEN 1 ELSE 2)
        near == IF ~far /\ \E m \in view : Touches(x, m) THEN met[v] \cup view ELSE met[v]
        known == IF view # {} THEN view ELSE near
    IN /\ Step(v, x, far, find, view, oncoming)
       /\ met' = [met EXCEPT ![v] = near]
       /\ contacts' = [contacts EXCEPT ![v] = Latest(@, ~far /\ \E m \in known : Reaches(x, m), M)]
       /\ UNCHANGED gate

Next == Curve \/ Observe

Spec == Init /\ [][Next]_vars

-----------------------------------------------------------------------------
\* A confirmed crossing is proven on the road: in K of the last M frames in which the
\* vehicle was examined it was near, and its base stood at a marking that was in view, or
\* had been in view when the vehicle's own base touched paint. Neither a vehicle that only
\* drives beside a line nor what another vehicle met confirms one.
CrossingProven == \A v \in Vehicles :
    fired[v] => Cardinality({i \in DOMAIN contacts[v] : contacts[v][i]}) >= K
=============================================================================
