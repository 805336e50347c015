----------------------------- MODULE PlateVotes -----------------------------
(* Which plate the frames of a track vote for, and which vehicle a plate     *)
(* belongs to. The cached boxes of a track come in one by one; at any time   *)
(* the track may be read in three ways: run_lpr reads every usable frame and *)
(* run_lpr_for_tracks the largest ones, and both vote for whole plates;      *)
(* RoadGuard.read_track_plate reads the most readable ones and votes digit   *)
(* by digit. A plate is a sequence of digits of one of two valid lengths.    *)
(* The score of a vote, which only labels it, is left out.                   *)
EXTENDS Integers, SequencesExt

CONSTANTS
    Boxes,          \* the frames of a track: [area, sharp, plate, conf, away, inside]
    Length,         \* how many of them are looked at
    MinArea, MinSharp, MaxFrames,   \* gates of the readers, frames read at most
    Valid,          \* the valid lengths of a plate
    MinInside,      \* a plate lies in a vehicle from this containment on
    None            \* no plate; also the sharpness of a frame that cannot be read back

VARIABLE boxes      \* what the track has shown so far

Init == boxes = <<>>

Seen ==
    /\ Len(boxes) < Length
    /\ \E b \in Boxes : boxes' = Append(boxes, b)

Next == Seen

Spec == Init /\ [][Next]_boxes

----------------------------------------------------------------------------
(* The reads of a track                                                     *)

Sharp(b) == b.sharp # None /\ b.sharp >= MinSharp
SumOf(f, S) == FoldFunctionOnSet(+, 0, f, S)

\* collect_track_reads.
EveryRead(bs) == SelectSeq(bs, LAMBDA b : b.area > MinArea /\ Sharp(b) /\ b.plate # None)

\* The first MaxFrames of the frames is, those with the largest key first.
Top(is, key) ==
    LET order == SetToSortSeq(is, LAMBDA i, j : key[i] > key[j] \/ (key[i] = key[j] /\ i < j))
    IN  SubSeq(order, 1, IF Len(order) < MaxFrames THEN Len(order) ELSE MaxFrames)
Big(bs) == {i \in DOMAIN bs : bs[i].area > MinArea}

\* run_lpr_for_tracks: a frame that is blurred or gone still takes its place.
LargestRead(bs) ==
    LET top == Top(Big(bs), [i \in DOMAIN bs |-> bs[i].area])
    IN  SelectSeq([k \in DOMAIN top |-> bs[top[k]]], LAMBDA b : Sharp(b) /\ b.plate # None)

\* read_track_plate: by size times sharpness, however blurred.
ClearestRead(bs) ==
    LET top == Top({i \in Big(bs) : bs[i].sharp # None},
                   [i \in DOMAIN bs |-> IF bs[i].sharp = None THEN 0
                                        ELSE bs[i].area * bs[i].sharp])
    IN  SelectSeq([k \in DOMAIN top |-> bs[top[k]]], LAMBDA b : b.plate # None)

----------------------------------------------------------------------------
(* The votes                                                                *)

Votes(rs, p) == {i \in DOMAIN rs : rs[i].plate = p}
Closest(rs, p) ==
    CHOOSE i \in Votes(rs, p) : \A j \in Votes(rs, p) :
        \/ rs[i].area > rs[j].area
        \/ rs[i].area = rs[j].area /\ rs[i].away <= rs[j].away
Ranked(a, b) ==
    \/ a[1] > b[1]
    \/ a[1] = b[1] /\ a[2] > b[2]
    \/ a[1] = b[1] /\ a[2] = b[2] /\ a[3] >= b[3]
RankByBox(rs, p) ==                                                     \* mutant
    LET c == rs[Closest(rs, p)] IN <<c.area, Cardinality(Votes(rs, p)), -c.away>>
\* Votes, then the largest box, then the one nearest to the centre.
Rank(rs, p) ==
    LET c == rs[Closest(rs, p)] IN <<Cardinality(Votes(rs, p)), c.area, -c.away>>

\* vote_plate: the first read among equals.
VotePlate(rs) ==
    IF rs = <<>> THEN None
    ELSE rs[CHOOSE i \in DOMAIN rs : \A j \in DOMAIN rs :
               /\ Ranked(Rank(rs, rs[i].plate), Rank(rs, rs[j].plate))
               /\ Ranked(Rank(rs, rs[j].plate), Rank(rs, rs[i].plate)) => i <= j].plate

\* The key of the largest weight, the largest key among equals.
Heaviest(w) ==
    CHOOSE k \in DOMAIN w : \A j \in DOMAIN w : w[j] < w[k] \/ (w[j] = w[k] /\ j <= k)
Count(rs, is) == Cardinality(is)                                        \* mutant
Weight(rs, is) == SumOf([i \in DOMAIN rs |-> rs[i].conf], is)

Formed(rs) == {i \in DOMAIN rs : Len(rs[i].plate) \in Valid}
OfLength(rs, n) == {i \in Formed(rs) : Len(rs[i].plate) = n}
BestLength(rs) ==
    Heaviest([n \in {Len(rs[i].plate) : i \in Formed(rs)} |-> Weight(rs, OfLength(rs, n))])

\* vote_characters: the length first, then each digit among the reads of that length.
VoteCharacters(rs) ==
    IF Formed(rs) = {} THEN None
    ELSE LET same == OfLength(rs, BestLength(rs))
         IN  [k \in 1..BestLength(rs) |->
                 Heaviest([c \in {rs[i].plate[k] : i \in same} |->
                              Weight(rs, {i \in same : rs[i].plate[k] = c})])]

\* link_frame: the vehicle that contains the plate best, the first among equals.
Holder(b) ==
    CHOOSE v \in DOMAIN b.inside : \A u \in DOMAIN b.inside :
        b.inside[u] < b.inside[v] \/ (b.inside[u] = b.inside[v] /\ v <= u)
Held(bs, v) ==
    {i \in DOMAIN bs : Holder(bs[i]) = v /\ bs[i].inside[v] >= MinInside /\ bs[i].inside[v] > 0}
Share(bs, v) == SumOf([i \in DOMAIN bs |-> bs[i].inside[v]], Held(bs, v))

\* build_plate_vehicle_registry.
Vehicle(bs) ==
    LET linked == {v \in UNION {DOMAIN bs[i].inside : i \in DOMAIN bs} : Held(bs, v) # {}}
    IN  IF linked = {} THEN None ELSE Heaviest([v \in linked |-> Share(bs, v)])

----------------------------------------------------------------------------
\* A plate that more than half of the usable frames show, or more than half of their
\* confidence, is the one voted, and a plate seen mostly in one vehicle is that vehicle's:
\* no tie-break, length vote or digit vote can take it away.
MajorityWins ==
    /\ \A rs \in {EveryRead(boxes), LargestRead(boxes)} : \A i \in DOMAIN rs :
          2 * Cardinality(Votes(rs, rs[i].plate)) > Len(rs) => VotePlate(rs) = rs[i].plate
    /\ LET rs == ClearestRead(boxes) IN \A i \in Formed(rs) :
          2 * SumOf([j \in DOMAIN rs |-> rs[j].conf], Votes(rs, rs[i].plate))
                  > SumOf([j \in DOMAIN rs |-> rs[j].conf], Formed(rs))
              => VoteCharacters(rs) = rs[i].plate
    /\ LET linked == {i \in DOMAIN boxes : i \in Held(boxes, Holder(boxes[i]))} IN
       \A v \in {Holder(boxes[i]) : i \in linked} :
          2 * Share(boxes, v) > SumOf([i \in linked |-> boxes[i].inside[Holder(boxes[i])]], linked)
              => Vehicle(boxes) = v

\* One more sight of the plate that leads never makes another one win.
LeaderStays ==
    boxes # <<>> =>
        LET old == EveryRead(Front(boxes))
            now == EveryRead(boxes)
        IN  Len(now) > Len(old) =>
                /\ Last(now).plate = VotePlate(old) => VotePlate(now) = VotePlate(old)
                /\ Last(now).plate = VoteCharacters(old)
                       => VoteCharacters(now) = VoteCharacters(old)

\* Each digit of a voted plate was read at its place in a plate of that length.
DigitsRead ==
    LET rs == ClearestRead(boxes)
        p  == VoteCharacters(rs)
    IN  p # None => \A k \in DOMAIN p : \E i \in OfLength(rs, Len(p)) : rs[i].plate[k] = p[k]

\* The votes over a track's frames elect what the frames show.
VotesSound == MajorityWins /\ LeaderStays /\ DigitsRead
=============================================================================
