---------------------------- MODULE SpeedLimits ----------------------------
(***************************************************************************)
(* The road limit of every frame of a drive (speed_limit_lookup.py) from the *)
(* GPS fixes of the phone, and the vehicles flagged with it (overspeed.py).   *)
(* The drive and the roads lie along one axis; a road has a nearest and a far *)
(* end on it, a heading in quarter turns, and its tags. A query is answered by *)
(* a mirror of Overpass after some requests have failed, or by none.          *)
(***************************************************************************)
EXTENDS Integers, FiniteSets, SequencesExt

CONSTANTS
    Roads,      \* the ways of the map, in the order Overpass lists them
    Spots,      \* where a fix may be
    Bearings,   \* and its heading, in quarter turns
    MaxFixes,
    FrameTimes, \* the timestamps of the frames; fix i is logged at 2 * i
    Radius, Weight, Spacing, MaxPoints, Cell, \* radius_m, DIRECTION_WEIGHT_M, ROUTE_*
    BoxMargin,  \* bbox_margin_deg
    Requests,   \* the endpoints times the attempts at each
    FailureLimit,
    Speeds, Margin, MinFramesOver,  \* of the vehicles that are compared with the limit
    MaxLookups, \* a bound
    None

VARIABLES
    fixes,     \* gps.csv: where and in which direction, None without one
    limits,    \* what get_track_speed_limits returned, per frame
    answered,  \* whether a mirror answered its query (history)
    failures,  \* _consecutive_failures
    down,      \* _overpass_down
    sent,      \* requests of the last lookup (history)
    cache,     \* _CACHE: the limit of a cell, by get_speed_limit
    flagged,   \* the vehicles over the limit: [frame, over, n]
    lookups    \* counts the lookups, up to the bound

network == <<failures, down, sent, lookups>>
vars == <<fixes, limits, answered, network, cache, flagged>>

Frames == DOMAIN FrameTimes

Init ==
    /\ fixes = <<>> /\ limits = <<>> /\ answered = FALSE
    /\ failures = 0 /\ down = FALSE /\ sent = 0 /\ cache = <<>> /\ flagged = {} /\ lookups = 0

\* A bearing is dropped below MIN_BEARING_SPEED_MPS, and when the phone has none.
LogFix == \E at \in Spots, bearing \in Bearings \cup {None} :
    /\ Len(fixes) < MaxFixes /\ lookups = 0
    /\ fixes' = Append(fixes, [at |-> at, bearing |-> bearing])
    /\ UNCHANGED <<limits, answered, network, cache, flagged>>

-----------------------------------------------------------------------------
(* build_ego_track *)

AbsOf(n) == IF n < 0 THEN -n ELSE n

\* The fix nearest in time to a frame, the earlier one on a tie.
Ego(frame) ==
    LET t == FrameTimes[frame]
        i == Cardinality({j \in DOMAIN fixes : 2 * j < t}) + 1      \* bisect_left
    IN IF i = 1 THEN fixes[1]
       ELSE IF i > Len(fixes) THEN Last(fixes)
       ELSE IF 2 * i - t < t - 2 * (i - 1) THEN fixes[i] ELSE fixes[i - 1]

-----------------------------------------------------------------------------
(* _resolve *)

Turn(a, b) == LET d == (a - b) % 4 IN Min({d, 4 - d})
Reverse2(h) == (h + 2) % 4

\* The directions in which a road may be driven.
Allowed(r) == IF r.oneway = "-1" THEN {Reverse2(r.heading)}
              ELSE IF r.oneway = "yes" \/ r.class = "motorway" THEN {r.heading}
              ELSE {r.heading, Reverse2(r.heading)}

Distance(at, r) == IF at < r.from THEN r.from - at ELSE IF at > r.to THEN at - r.to ELSE 0

\* Twice the score: the distance, and the share of DIRECTION_WEIGHT_M for the angle.
Score(fix, r) == 2 * Distance(fix.at, r) +
    (IF fix.bearing = None THEN 0 ELSE Weight * Min({Turn(fix.bearing, h) : h \in Allowed(r)}))

Drivable == {"motorway", "primary", "residential", "service"}
ClassLimit(class) == CASE class = "motorway" -> 110 [] class = "primary" -> 80
                       [] OTHER -> 50

\* _parse_maxspeed on tags of each kind it tells apart: a number, miles, a zone, another
\* country's number; "none" and an absent tag say nothing.
Explicit(tag) == CASE tag = "80" -> 80 [] tag = "30 mph" -> 48 [] tag = "IL:urban" -> 50
                   [] tag = "IL:30" -> 30 [] OTHER -> None

LimitOf(r) == IF Explicit(r.maxspeed) # None THEN Explicit(r.maxspeed) ELSE ClassLimit(r.class)

Best(fix, ways) == CHOOSE i \in ways : \A j \in ways :
    \/ Score(fix, Roads[i]) < Score(fix, Roads[j])
    \/ Score(fix, Roads[i]) = Score(fix, Roads[j]) /\ i <= j

Resolve(fix, found, reach) ==
    LET ways == {i \in found : Roads[i].class \in Drivable}
    IN IF ways = {} \/ Distance(fix.at, Roads[Best(fix, ways)]) > reach THEN None
       ELSE LimitOf(Roads[Best(fix, ways)])

-----------------------------------------------------------------------------
(* The queries *)

\* _run_overpass: the requests in turn until one is answered; three total failures in a row
\* and the network is left alone.
Ask(answer) ==
    /\ lookups < MaxLookups /\ lookups' = lookups + 1
    /\ IF down THEN ~answer /\ sent' = 0 /\ UNCHANGED <<failures, down>>
       ELSE IF answer THEN failures' = 0 /\ sent' \in 1..Requests /\ UNCHANGED down
       ELSE /\ failures' = failures + 1 /\ sent' = Requests
            /\ down' = (failures + 1 >= FailureLimit)

\* _thin_route: the first fix, those at least the spacing from the last one kept, the last.
Thinned(track, spacing) ==
    LET kept == FoldLeft(LAMBDA k, at : IF AbsOf(at - Last(k)) >= spacing THEN Append(k, at) ELSE k,
                         <<track[1]>>, Tail(track))
    IN IF Last(kept) = Last(track) THEN kept ELSE Append(kept, Last(track))

\* _route_for_track doubles the spacing until the route is short enough.
SpacingFor(track) ==
    LET fits == {k \in 0..10 : Len(Thinned(track, Spacing * 2^k)) <= MaxPoints}
    IN Spacing * 2^Min(fits)

\* The roads within a distance of the line through the points of a route.
Along(route, reach) == {i \in DOMAIN Roads :
    /\ Roads[i].from <= Max(ToSet(route)) + reach
    /\ Roads[i].to >= Min(ToSet(route)) - reach}

NarrowCorridor(track) ==                                                        \* mutant
    Along(Thinned(track, SpacingFor(track)), Radius + SpacingFor(track))
Corridor(track) ==
    Along(Thinned(track, SpacingFor(track)), Radius + Weight + SpacingFor(track))

InBox(track) == {i \in DOMAIN Roads :
    /\ Roads[i].from <= Max(ToSet(track)) + BoxMargin
    /\ Roads[i].to >= Min(ToSet(track)) - BoxMargin}

\* Fixes of one cell and heading are looked up once, by the first frame that has them.
CellOf(fix) == <<(2 * fix.at + Cell) \div (2 * Cell), fix.bearing>>
LimitsFrom(ways) == [f \in Frames |->
    LET first == Min({g \in Frames : CellOf(Ego(g)) = CellOf(Ego(f))})
    IN IF ways = {} THEN None ELSE Resolve(Ego(first), ways, Radius)]

Track == [f \in Frames |-> Ego(f).at]

\* get_track_speed_limits
TrackLimits == \E answer \in BOOLEAN :
    /\ fixes # <<>>
    /\ Ask(answer)
    /\ answered' = answer
    /\ limits' = LimitsFrom(IF answer THEN Corridor(Track) ELSE {})
    /\ flagged' = {}
    /\ UNCHANGED <<fixes, cache>>

\* get_speed_limit of one fix: the roads within the radius; what a failed query yields is
\* kept as well.
PointLimit == \E i \in DOMAIN fixes, answer \in BOOLEAN :
    /\ CellOf(fixes[i]) \notin DOMAIN cache
    /\ Ask(answer)
    /\ cache' = [c \in DOMAIN cache \cup {CellOf(fixes[i])} |->
          IF c \in DOMAIN cache THEN cache[c]
          ELSE Resolve(fixes[i], IF answer THEN {r \in DOMAIN Roads : Distance(fixes[i].at, Roads[r]) <= Radius}
                                           ELSE {}, Radius)]
    /\ UNCHANGED <<fixes, limits, answered, flagged>>

ClearCache ==
    /\ lookups > 0
    /\ cache' = <<>> /\ failures' = 0 /\ down' = FALSE
    /\ UNCHANGED <<fixes, limits, answered, sent, lookups, flagged>>

\* flag_overspeed_vehicles: a vehicle is reported at the frame of its largest excess.
FlagVehicle == \E speed \in [Frames -> Speeds] :
    LET over == {f \in DOMAIN limits : limits[f] # None /\ speed[f] > 0
                                       /\ speed[f] - limits[f] > Margin}
        peak == CHOOSE f \in over : \A g \in over :
                    \/ speed[f] - limits[f] > speed[g] - limits[g]
                    \/ speed[f] - limits[f] = speed[g] - limits[g] /\ f <= g
    IN /\ flagged = {} /\ over # {} /\ Cardinality(over) >= MinFramesOver
       /\ flagged' = {[frame |-> peak, speed |-> speed[peak], n |-> Cardinality(over)]}
       /\ UNCHANGED <<fixes, limits, answered, network, cache>>

Next == LogFix \/ TrackLimits \/ PointLimit \/ ClearCache \/ FlagVehicle

Spec == Init /\ [][Next]_vars

-----------------------------------------------------------------------------
\* The corridor answers for every frame what all the roads of the drive's bounding box
\* would, although it leaves most of them out; without an answer no frame has a limit.
CorridorIsEnough == limits # <<>> =>
    IF answered THEN limits = LimitsFrom(InBox(Track))
                ELSE \A f \in Frames : limits[f] = None

\* A lookup that no mirror answers costs a bounded number of requests, and after three in a
\* row none.
GivesUp == /\ sent <= Requests
           /\ down => failures >= FailureLimit
           /\ failures <= FailureLimit

\* A vehicle is flagged only on a road the map answered for, within the radius of the ego
\* car in that very frame's cell, and above every reading of that road's limit.
FlaggedOnARoad == \A e \in flagged : answered /\ \E r \in DOMAIN Roads, f \in Frames :
    /\ CellOf(Ego(f)) = CellOf(Ego(e.frame))
    /\ Distance(Ego(f).at, Roads[r]) <= Radius
    /\ LimitOf(Roads[r]) + Margin < e.speed

\* The limit a vehicle is measured against is the one the drive asked for, or none.
TrackAsAsked == CorridorIsEnough /\ GivesUp /\ FlaggedOnARoad

\* Checked by hand: a frame is without a limit only when no road is within the radius.
NoneWithoutRoad == answered => \A f \in DOMAIN limits : limits[f] = None =>
    \A r \in DOMAIN Roads : Roads[r].class \in Drivable => Distance(Ego(f).at, Roads[r]) > Radius
=============================================================================
