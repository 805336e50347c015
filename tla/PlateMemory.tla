---------------------------- MODULE PlateMemory ----------------------------
(* Whose plate a violation gets when the tracker gave one car several ids.   *)
(* Three programs of tools/pipeline answer it over the cached tracks of one  *)
(* clip: run_pipeline ("all") reads the plate of every track and joins each  *)
(* violation with its own plate or, by the ego-compensated handshake, with   *)
(* that of a track that died a few frames before; plate_report ("violators") *)
(* does the same with the plates of the violating tracks only; roadguard     *)
(* ("memory") reads the violating tracks, then the predecessors of those it  *)
(* could not read, groups tracks by appearance and hands plates around.      *)
(* What the reader makes of a track and what an embedder makes of its crops  *)
(* are chosen when they are asked; a plate is named by the track it is on.   *)
EXTENDS Integers, FiniteSets, SequencesExt, Relation

CONSTANTS
    Clips,          \* the clips: sequences of [first, last], ids in order of birth
    Pans,           \* what the image may move by in each frame
    Scores, Looks,  \* scores of a read plate; appearances, as points on a line
    Places,         \* where, in the world, a box may be when its track dies
    GapMin, GapMax, Near,       \* the handshake: gap in frames, largest distance
    MaxGap, Alike,              \* the memory: gap in frames, largest unlikeness
    None

VARIABLES
    flow, clip, violating,      \* the program, its clip, the tracks with a violation
    reads,      \* plate_map: [plate, score] of each track asked
    crops,      \* evidence_crops: the tracks whose crops are kept
    seen,       \* what the handshake compares: [died, pan]
    looks,      \* embeddings: appearance of each track asked, None without a crop
    group,      \* canonical: the smallest id of each track's group
    result,     \* of each violating track: [plate, score, source]
    stage       \* "read", "done"

vars == <<flow, clip, violating, reads, crops, seen, looks, group, result, stage>>

Tracks == DOMAIN clip
HasPlate(pm, t) == t \in DOMAIN pm /\ pm[t].plate # None
Readings(t) ==
    {[plate |-> None, score |-> 0]} \cup {[plate |-> t, score |-> s] : s \in Scores}

Init ==
    /\ flow \in {"all", "violators", "memory"} /\ clip \in Clips
    /\ violating \in SUBSET DOMAIN clip \ {{}}
    /\ reads = <<>> /\ crops = {} /\ seen = None /\ looks = <<>>
    /\ group = <<>> /\ result = <<>> /\ stage = "read"

----------------------------------------------------------------------------
(* Reading                                                                  *)

Overlap(a, b) == clip[a].first <= clip[b].last /\ clip[b].first <= clip[a].last
Reborn(old, new) ==
    /\ old # new /\ ~Overlap(old, new)
    /\ clip[new].first - clip[old].last \in 1..MaxGap

Unknown == {t \in violating : ~HasPlate(reads, t)}
\* candidate_predecessors: of the unknown violators, no violator among them.
Candidates == {o \in Tracks \ violating : \E t \in Unknown : Reborn(o, t)}

\* The violators come first: roadguard goes on with the candidates once they are read.
Asked ==
    IF flow = "all" THEN Tracks
    ELSE IF flow = "memory" /\ violating \subseteq DOMAIN reads THEN violating \cup Candidates
    ELSE violating

\* One track is read, whatever comes out; roadguard keeps its sharpest crops.
ReadNext ==
    /\ stage = "read"
    /\ \E t \in Asked \ DOMAIN reads :
          /\ \A o \in Asked \ DOMAIN reads : t <= o
          /\ \E r \in Readings(t) :
                reads' = [x \in DOMAIN reads \cup {t} |-> IF x = t THEN r ELSE reads[x]]
          /\ crops' = IF flow = "memory" THEN crops \cup {t} ELSE crops
    /\ UNCHANGED <<flow, clip, violating, seen, looks, group, result, stage>>

\* What a program reports of a track, from its plate_map alone.
Own(pm, t) ==
    IF HasPlate(pm, t) THEN [plate |-> pm[t].plate, score |-> pm[t].score, source |-> t]
    ELSE [plate |-> None, score |-> 0, source |-> None]

----------------------------------------------------------------------------
(* The handshake                                                            *)

\* The summed motion of the image over the frames from first to last.
ShiftFromDeath(pan, first, last) ==                                     \* mutant
    FoldFunctionOnSet(+, 0, pan, (first - 1..last) \cap DOMAIN pan)
SumShift(pan, first, last) == FoldFunctionOnSet(+, 0, pan, (first..last) \cap DOMAIN pan)

\* Where a box at a world place is in the image of a frame.
InImage(s, place, f) == place + SumShift(s.pan, 1, f)

\* The compensated distance of the last box of old and the first one of new.
Apart(s, old, new) ==
    LET from == InImage(s, s.died[old], clip[old].last)
        to   == InImage(s, 0, clip[new].first)
        d    == from + SumShift(s.pan, clip[old].last + 1, clip[new].first) - to
    IN  IF d < 0 THEN -d ELSE d

DiedInWindow(new) ==
    {o \in Tracks \ {new} : clip[new].first - clip[o].last \in GapMin..GapMax}
Predecessors(s, new) ==
    {o \in DiedInWindow(new) : HasPlate(reads, o) /\ Apart(s, o, new) <= Near}

LatestPredecessor(s, new) ==                                            \* mutant
    CHOOSE o \in Predecessors(s, new) : \A p \in Predecessors(s, new) : p <= o
\* The nearest one, the first met among equals.
FindPredecessor(s, new) ==
    CHOOSE o \in Predecessors(s, new) : \A p \in Predecessors(s, new) :
        \/ Apart(s, o, new) < Apart(s, p, new)
        \/ Apart(s, o, new) = Apart(s, p, new) /\ o <= p

\* join_events.
Join ==
    /\ stage = "read" /\ flow # "memory" /\ DOMAIN reads = Asked
    /\ \E died \in [Tracks -> Places], pan \in Pans :
          LET s == [died |-> died, pan |-> pan] IN
          /\ seen' = s
          /\ result' = [t \in violating |->
                IF HasPlate(reads, t) \/ Predecessors(s, t) = {} THEN Own(reads, t)
                ELSE LET o == FindPredecessor(s, t)
                     IN  [plate |-> reads[o].plate, score |-> reads[o].score, source |-> o]]
    /\ stage' = "done"
    /\ UNCHANGED <<flow, clip, violating, reads, crops, looks, group>>

----------------------------------------------------------------------------
(* The memory                                                               *)

\* No candidate: there is nothing to do.
NoCandidate ==
    /\ stage = "read" /\ flow = "memory" /\ DOMAIN reads = Asked /\ Candidates = {}
    /\ result' = [t \in violating |-> Own(reads, t)] /\ stage' = "done"
    /\ UNCHANGED <<flow, clip, violating, reads, crops, seen, looks, group>>

Subset == Unknown \cup Candidates
Unlike(l, a, b) == IF l[a] < l[b] THEN l[b] - l[a] ELSE l[a] - l[b]

\* candidate_links: the most alike first.
CandidateLinks(l) ==
    SetToSortSeq({p \in Subset \X Subset :
                     /\ l[p[1]] # None /\ l[p[2]] # None
                     /\ Reborn(p[1], p[2]) /\ Unlike(l, p[1], p[2]) <= Alike},
                 LAMBDA p, q : Unlike(l, p[1], p[2]) <= Unlike(l, q[1], q[2]))

\* _UnionFind: the root of a track, and two groups made one under the smaller root.
Find(parent, x) ==
    LET root[t \in DOMAIN parent] == IF parent[t] = t THEN t ELSE root[parent[t]]
    IN  root[x]
Smaller(a, b) == IF a < b THEN a ELSE b
UnionOfEnds(parent, p) ==                                               \* mutant
    [parent EXCEPT ![p[1] + p[2] - Smaller(p[1], p[2])] = Smaller(p[1], p[2])]
Union(parent, p) ==
    LET a == Find(parent, p[1])
        b == Find(parent, p[2])
    IN  IF a = b THEN parent ELSE [parent EXCEPT ![a + b - Smaller(a, b)] = Smaller(a, b)]

LinkTracks(l) ==
    LET parent == FoldLeft(Union, [t \in Subset |-> t], CandidateLinks(l))
    IN  [t \in Subset |-> Find(parent, t)]

\* propagate_plates: the source of a track of the groups g without a plate of its own.
Donors(g, t) == {o \in DOMAIN g : g[o] = g[t] /\ HasPlate(reads, o)}
FirstDonor(g, t) == CHOOSE o \in Donors(g, t) : \A p \in Donors(g, t) : o <= p  \* mutant
Donor(g, t) ==
    CHOOSE o \in Donors(g, t) : \A p \in Donors(g, t) :
        reads[o].score > reads[p].score \/ (reads[o].score = reads[p].score /\ o <= p)

\* build_track_embeddings and reid_enrich; the enriched entries go back into plate_map.
Link ==
    /\ stage = "read" /\ flow = "memory" /\ DOMAIN reads = Asked /\ Candidates # {}
    /\ \E l \in [Subset -> Looks \cup {None}] :
          LET g  == LinkTracks(l)
              pm == [t \in DOMAIN reads |->
                        IF t \in Subset /\ ~HasPlate(reads, t) /\ Donors(g, t) # {}
                        THEN reads[Donor(g, t)] ELSE reads[t]]
          IN  /\ looks' = l /\ group' = g
              /\ result' = [t \in violating |->
                    [plate |-> pm[t].plate, score |-> pm[t].score, source |-> pm[t].plate]]
    /\ stage' = "done"
    /\ UNCHANGED <<flow, clip, violating, reads, crops, seen>>

Done == stage = "done" /\ UNCHANGED vars

Next == ReadNext \/ Join \/ NoCandidate \/ Link \/ Done

Spec == Init /\ [][Next]_vars

----------------------------------------------------------------------------
TypeOK ==
    /\ stage \in {"read", "done"}
    /\ DOMAIN reads \subseteq Tracks /\ crops \subseteq Tracks /\ DOMAIN group \subseteq Tracks

\* A track keeps the plate that was read on it, whoever else looks like it.
OwnPlateKept ==
    \A t \in DOMAIN result : HasPlate(reads, t) =>
        result[t] = [plate |-> t, score |-> reads[t].score, source |-> t]

\* The handshake takes the plate of a car that stood where the new track begins, a few
\* frames before, and of none that stood nearer: however the camera turned meanwhile. It
\* gives up only when there is no such car.
Beside(o, t) == IF seen.died[o] < 0 THEN -seen.died[o] ELSE seen.died[o]
Standing(t) == {o \in DiedInWindow(t) : HasPlate(reads, o) /\ Beside(o, t) <= Near}
HandshakeOnTheSpot ==
    seen # None => \A t \in DOMAIN result : ~HasPlate(reads, t) =>
        IF Standing(t) = {} THEN result[t].plate = None
        ELSE /\ result[t].source \in Standing(t) /\ result[t].plate = result[t].source
             /\ \A o \in Standing(t) : Beside(result[t].source, t) <= Beside(o, t)

\* Re-identification groups exactly the tracks a chain of likenesses joins, under the oldest
\* id, and a violation without a plate gets the best one read in its group: the chain is
\* found whatever order its links come in, and the crops of the plate shown are kept.
Alikes == {p \in (DOMAIN group) \X (DOMAIN group) :
              /\ looks[p[1]] # None /\ looks[p[2]] # None
              /\ Reborn(p[1], p[2]) \/ Reborn(p[2], p[1])
              /\ Unlike(looks, p[1], p[2]) <= Alike}
Chained == ReflexiveTransitiveClosure([p \in (DOMAIN group) \X (DOMAIN group) |-> p \in Alikes],
                                      DOMAIN group)
Kin(t) == {o \in DOMAIN group : Chained[o, t]}
MemoryComplete ==
    DOMAIN group # {} =>
        /\ \A t \in DOMAIN group : group[t] \in Kin(t) /\ \A o \in Kin(t) : group[t] <= o
        /\ \A t \in violating \cap DOMAIN group :
              LET read == {o \in Kin(t) : HasPlate(reads, o)}
              IN  IF read = {} THEN result[t].plate = None
                  ELSE /\ result[t].source \in read \cap crops
                       /\ \A o \in read : reads[o].score <= result[t].score

\* The plate a violation is filed with is its own, or the best that the clip supports.
PlatesWellFounded == OwnPlateKept /\ HandshakeOnTheSpot /\ MemoryComplete

----------------------------------------------------------------------------
\* By hand, violated. "tracks that OVERLAP IN TIME are different physical objects ... and
\* are never linked" (reid_linker.py): two unread violators side by side that resemble the
\* same later track end in one group and are filed with one plate.
NeverLinkedAlive == \A a, b \in DOMAIN group : a # b /\ Overlap(a, b) => group[a] # group[b]

\* By hand, violated. "the car was close & readable under id 7, then re-acquired as id 8
\* right when it crossed the line" (joiner.py): plate_report never reads id 7.
HandshakeAsked ==
    stage = "done" /\ flow = "violators" =>
        \A t \in violating : HasPlate(reads, t) \/ DiedInWindow(t) \subseteq DOMAIN reads
=============================================================================
