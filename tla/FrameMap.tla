------------------------------ MODULE FrameMap ------------------------------
(***************************************************************************)
(* Two phones that film one drive, each on a clock of its own, and the tool   *)
(* that puts their recordings on one timeline: the satellite fixes of each     *)
(* anchor its clock, and each frame of the first is paired with the frame of   *)
(* the second that is nearest in absolute time.  A fix carries the time it was  *)
(* measured at and is stamped when it is delivered, later.                      *)
(***************************************************************************)
EXTENDS Integers, Sequences, SequencesExt, FiniteSetsExt

CONSTANTS
    Zero,      \* the UTC at which each phone's clock read zero: [{"a", "b"} -> Int]
    Fixes,     \* how late the fixes of a drive can be: sequences of numbers
    MaxGap,    \* instants between two frames of a phone, at most
    Instants   \* a bound

VARIABLES
    now,
    frames,   \* of each phone: when it was taken, by its own clock
    late,     \* of each phone: how late each of its fixes was delivered
    outcome,  \* of the tool: "none" yet, "no anchor", "no overlap" or "mapped"
    pairs     \* the frame map it wrote

vars == <<now, frames, late, outcome, pairs>>

Phones == {"a", "b"}

\* Every variable of the recordings keeps to its values.
TypeOK ==
    /\ now \in 0..Instants
    /\ \A p \in Phones : late[p] \in Fixes /\ Range(frames[p]) \subseteq Int
    /\ outcome \in {"none", "no anchor", "no overlap", "mapped"}
    /\ \A x \in pairs : x[1] \in DOMAIN frames["a"] /\ x[2] \in DOMAIN frames["b"]

Init ==
    /\ now = 0 /\ frames = [p \in Phones |-> <<>>]
    /\ late \in [Phones -> Fixes]
    /\ outcome = "none" /\ pairs = {}

-----------------------------------------------------------------------------
(* Recording *)

Clock(p) == now + 1 - Zero[p]

\* A phone films without a break, from when it is started to when it is stopped.
CanFilm(p) == frames[p] = <<>> \/ Clock(p) - Last(frames[p]) <= MaxGap

Instant ==
    /\ now < Instants /\ now' = now + 1
    /\ \E film \in SUBSET {p \in Phones : CanFilm(p)} :
           frames' = [p \in Phones |->
               IF p \in film THEN Append(frames[p], Clock(p)) ELSE frames[p]]
    /\ UNCHANGED <<late, outcome, pairs>>

-----------------------------------------------------------------------------
(* The tool *)

\* What each timed fix says of the clock's zero, in order, and the one in the middle.
Offsets(p) == SortSeq([i \in DOMAIN late[p] |-> Zero[p] - late[p][i]], LAMBDA x, y : x < y)
Anchor(p) == LET s == Offsets(p) IN s[Len(s) \div 2 + 1]

Utc(p, i) == Anchor(p) + frames[p][i]
Starts(p) == Utc(p, 1)
Stops(p) == Utc(p, Len(frames[p]))
Overlap == Min({Stops("a"), Stops("b")}) - Max({Starts("a"), Starts("b")})

Distance(i, j) == Max({Utc("b", j) - Utc("a", i), Utc("a", i) - Utc("b", j)})

\* bisect_left: how many frames of the second phone are earlier.  Of the two frames
\* around that place the nearer one is taken, the earlier if they are as near.
Earlier(i) == Cardinality({j \in DOMAIN frames["b"] : Utc("b", j) < Utc("a", i)})
Nearest(i) ==
    LET around == {Earlier(i), Earlier(i) + 1} \cap DOMAIN frames["b"]
    IN Min({j \in around : \A k \in around : Distance(i, j) <= Distance(i, k)})

Covered(i) == Starts("b") <= Utc("a", i) /\ Utc("a", i) <= Stops("b")
Pairs == {<<i, Nearest(i)>> : i \in {f \in DOMAIN frames["a"] : Covered(f)}}

Sync ==
    /\ now = Instants /\ outcome = "none"
    /\ outcome' = CASE \E p \in Phones : late[p] = <<>> \/ frames[p] = <<>> -> "no anchor"
                    [] OTHER -> IF Overlap <= 0 THEN "no overlap" ELSE "mapped"
    /\ pairs' = IF outcome' = "mapped" THEN Pairs ELSE {}
    /\ UNCHANGED <<now, frames, late>>

Next == Instant \/ Sync

Spec == Init /\ [][Next]_vars

-----------------------------------------------------------------------------
\* "A few bad fixes cannot move it": late ones do not, up to half of them.
AnchorSteady == outcome = "mapped" => \A p \in Phones :
    2 * Cardinality({i \in DOMAIN late[p] : late[p][i] = 0}) >= Len(late[p]) =>
        Anchor(p) = Zero[p]

\* A frame is paired with the frame of all of them that is nearest, in the order of the
\* drive, and if the clocks are right, both were taken at most half a gap apart.
PairsNearest == \A x \in pairs :
    /\ \A j \in DOMAIN frames["b"] : Distance(x[1], x[2]) <= Distance(x[1], j)
    /\ \A y \in pairs : x[1] < y[1] => x[2] <= y[2]
    /\ (\A p \in Phones : Anchor(p) = Zero[p]) =>
         LET apart == (frames["a"][x[1]] + Zero["a"]) - (frames["b"][x[2]] + Zero["b"])
         IN -MaxGap <= 2 * apart /\ 2 * apart <= MaxGap

\* Two recordings of one drive are put side by side frame by frame.
FramesPaired == AnchorSteady /\ PairsNearest
=============================================================================
