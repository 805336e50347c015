---------------------------- MODULE EvidenceProofs ----------------------------
(***************************************************************************)
(* Theorems about the components of MCJourney that make the evidence of a     *)
(* violation: the exchange of a job with the backend, the crops and the plate *)
(* of a vehicle, and the records with the files they lead to, for any values  *)
(* of their constants within the bounds each theorem names.                   *)
(***************************************************************************)
EXTENDS MCJourney, TLAPS, FiniteSetTheorems, WellFoundedInduction

-----------------------------------------------------------------------------
(* Numbers and sets *)

\* A set of natural numbers has a least one: where the models CHOOSE the least of some
\* numbers, there is one to choose.
LEMMA LeastNatural ==
  ASSUME NEW S, S \subseteq Nat, S # {} PROVE \E m \in S : \A n \in S : m <= n
<1>. DEFINE Below == OpToRel(<, Nat)
<1>1. IsWellFoundedOn(Below, Nat)
  BY NatLessThanWellFounded
<1>2. \A a, b \in Nat : <<a, b>> \in Below <=> a < b
  BY DEF OpToRel
<1>. HIDE DEF Below
<1>3. PICK m \in S : \A n \in S : ~(<<n, m>> \in Below)
  BY <1>1, WFMin
<1>4. \A n \in S : ~(n < m)
  BY <1>2, <1>3, Zenon
<1> QED
  BY <1>4

-----------------------------------------------------------------------------
(* JobExchange *)

JobBounds == MaxFound \in Nat /\ Confs \subseteq Int /\ KeyFrames \subseteq Int

\* A copy that is worked on passed its checks; nothing is announced before it is stored,
\* and what is announced is what is stored.
JobInv ==
    /\ jobPc \in {"pull", "verify", "process", "put", "notify", "done", "dead"}
    /\ reference \in J!Metas
    /\ jobPc \in {"verify", "process", "put", "notify"} => copy \in J!Copies
    /\ jobPc \in {"process", "put", "notify"} => J!Problems(copy) = {}
    /\ jobPc \in {"pull", "verify", "process", "put", "notify"} => notified = J!NoBundle
    /\ jobPc = "notify" => stored = manifest
    /\ J!NotifiedOfStored
    /\ J!QueueOrder

\* Whatever is found is queued in the order of the review.
LEMMA SortedInOrder ==
  ASSUME JobBounds, NEW es \in J!BoundedSeq(J!Events, MaxFound), NEW queue \in J!Sorted(es),
         NEW i \in DOMAIN queue, NEW j \in DOMAIN queue, i < j
  PROVE  /\ J!Tier(queue[i]) <= J!Tier(queue[j])
         /\ J!Tier(queue[i]) = J!Tier(queue[j]) =>
              IF J!Tier(queue[i]) = 3 THEN queue[i].key <= queue[j].key
              ELSE queue[i].conf >= queue[j].conf
<1>1. PICK n \in 0..MaxFound : es \in [1..n -> J!Events]
  BY DEF J!BoundedSeq, J!SeqOf, JobBounds
<1>2. PICK p \in J!Orders(es) : queue = [k \in DOMAIN es |-> es[p[k]]]
  BY DEF J!Sorted
<1>3. p \in [DOMAIN es -> DOMAIN es]
  BY <1>2 DEF J!Orders, J!Bijection, J!Injection
<1>4. /\ queue[i] = es[p[i]] /\ queue[j] = es[p[j]]
      /\ i \in DOMAIN es /\ j \in DOMAIN es
  BY <1>2
<1>5. ~J!Before(queue[j], queue[i])
  BY <1>2, <1>4 DEF J!Orders
<1>6. queue[i] \in J!Events /\ queue[j] \in J!Events
  BY <1>1, <1>3, <1>4
<1>7. \A e \in J!Events : J!Tier(e) \in Nat /\ e.conf \in Int /\ e.key \in Int
  BY DEF J!Events, J!Tier, JobBounds
<1>. HIDE DEF J!Tier
<1> QED
  BY <1>5, <1>6, <1>7 DEF J!Before

\* A copy without problems is the original when the job carries its hash.
LEMMA NoProblems ==
  ASSUME reference.sha, copy \in J!Copies, J!Problems(copy) = {} PROVE copy = "same"
<1>1. SUFFICES ASSUME copy # "same" PROVE FALSE
  OBVIOUS
<1>2. copy \in {k \in J!Copies \ {"same"} : copy = k /\ reference.sha}
  BY <1>1
<1> QED
  BY <1>2 DEF J!Problems

\* The first state.
LEMMA JobInit == J!Init => JobInv
BY DEF J!Init, JobInv, J!NotifiedOfStored, J!QueueOrder

\* A step keeps the invariant.
LEMMA JobStep == JobBounds /\ JobInv /\ [J!Next]_J!vars => JobInv'
<1>. SUFFICES ASSUME JobBounds, JobInv, [J!Next]_J!vars PROVE JobInv'
  OBVIOUS
<1>. USE DEF JobInv, J!NotifiedOfStored, J!QueueOrder
<1>1. CASE J!Download
  BY <1>1 DEF J!Download, J!NoBundle
<1>2. CASE J!DownloadFails
  BY <1>2 DEF J!DownloadFails
<1>3. CASE J!Verify
  BY <1>3 DEF J!Verify, J!Problems
<1>4. CASE J!Process
  <2>. PICK es \in J!BoundedSeq(J!Events, MaxFound) : \E queue \in J!Sorted(es) :
              /\ jobPc = "process" /\ manifest' = queue /\ jobPc' \in {"done", "put"}
              /\ UNCHANGED <<reference, copy, stored, notified>>
    BY <1>4 DEF J!Process
  <2>1. J!QueueOrder'
    BY SortedInOrder
  <2>2. /\ jobPc = "process" /\ jobPc' \in {"done", "put"}
        /\ UNCHANGED <<reference, copy, stored, notified>>
    OBVIOUS
  <2> QED
    BY <2>1, <2>2 DEF J!Problems
<1>5. CASE J!Put
  BY <1>5 DEF J!Put, J!Problems
<1>6. CASE J!PutFails
  BY <1>6 DEF J!PutFails, J!SkipsNotify
<1>7. CASE J!Notify
  BY <1>7 DEF J!Notify
<1>8. CASE UNCHANGED J!vars
  BY <1>8 DEF J!vars, J!Problems
<1> QED
  BY <1>1, <1>2, <1>3, <1>4, <1>5, <1>6, <1>7, <1>8 DEF J!Next

\* MCJourney takes the steps of JobExchange in its part, and no others.
LEMMA JobPart ==
    /\ Init /\ part = "job" => J!Init
    /\ [Next]_vars => part' = part /\ (part = "job" => [J!Next]_J!vars)
BY DEF Init, Next, vars, jobVars, J!vars

\* The invariant of the exchange, whatever the detectors find.
THEOREM JobCorrect == JobBounds /\ Spec => [](part = "job" => JobInv)
<1>. SUFFICES ASSUME JobBounds PROVE Spec => [](part = "job" => JobInv)
  OBVIOUS
<1>1. Init => (part = "job" => JobInv)
  BY JobPart, JobInit
<1>2. (part = "job" => JobInv) /\ [Next]_vars => (part = "job" => JobInv)'
  BY JobPart, JobStep
<1> QED
  BY <1>1, <1>2, PTL DEF Spec

\* What the backend is told of is stored, comes from the clip the job named, and is
\* ordered the way the review queue shows it.
THEOREM JobsAreFaithful == JobBounds /\ Spec => []JobFaithful
<1>. SUFFICES ASSUME JobBounds PROVE Spec => []JobFaithful
  OBVIOUS
<1>1. (part = "job" => JobInv) => JobFaithful
  BY NoProblems DEF JobInv, JobFaithful, J!JobFaithful, J!AnalysesTheReference
<1> QED
  BY <1>1, JobCorrect, PTL

-----------------------------------------------------------------------------
(* PlateEvidence *)

PlateBounds ==
    /\ BufferSize \in Nat \ {0} /\ NEvidence \in Nat \ {0} /\ MaxOcrFrames \in Nat
    /\ FinalFrame \in Nat /\ MaxFound \in Nat /\ Scores \subseteq Nat

PlateRow == [event : P!Events, plate : Plates \cup {None}, pictures : SUBSET P!Crops]

PlateTypes ==
    /\ plateFrame \in 0..FinalFrame + 1
    /\ offered \in [Tracked -> SUBSET P!Crops] /\ kept \in [Tracked -> SUBSET P!Crops]
    /\ plates \in [Tracked -> Plates \cup {None}] /\ license \in [Tracked -> Plates \cup {None}]
    /\ events \in Seq(P!Events) /\ next \in 0..Len(events) + 1
    /\ plateRows \in Seq(PlateRow)

\* A vehicle is offered one crop a frame, and its buffer holds the best of them.
BufferInv == \A v \in Tracked :
    /\ IsFiniteSet(offered[v])
    /\ \A c \in offered[v] : c.frame < plateFrame
    /\ \A c, d \in offered[v] : c.frame = d.frame => c = d
    /\ P!IsTop(BufferSize, kept[v], offered[v])

\* The rows written are those of the first events; they come after the last frame, each with
\* the best of its vehicle, and with its plate once it has one.
RowsInv ==
    /\ next = 0 => events = <<>> /\ plateRows = <<>>
    /\ next > 0 => plateFrame = FinalFrame + 1 /\ Len(plateRows) = next - 1
    /\ \A i \in DOMAIN plateRows :
        /\ plateRows[i].event = events[i]
        /\ plateRows[i].plate # None =>
             license[plateRows[i].event.vehicle] = plateRows[i].plate
        /\ \A c \in offered[plateRows[i].event.vehicle] :
             \E d \in plateRows[i].pictures : c.score <= d.score
    /\ P!OnePlatePerVehicle

PlateInv == PlateTypes /\ BufferInv /\ RowsInv

\* The operators of the library that PlateEvidence uses.
LEMMA PlateCounts == \A S : P!Cardinality(S) = Cardinality(S)
BY DEF P!Cardinality, Cardinality

\* The lesser of two numbers.
LEMMA LesserOf ==
  ASSUME NEW a \in Nat, NEW b \in Nat PROVE P!Min({a, b}) = IF a <= b THEN a ELSE b
<1>1. \E x \in {a, b} : \A y \in {a, b} : x <= y
  OBVIOUS
<1>2. P!Min({a, b}) \in {a, b} /\ \A y \in {a, b} : P!Min({a, b}) <= y
  BY <1>1 DEF P!Min
<1> QED
  BY <1>2

\* A buffer with lot in it has a weakest one.
LEMMA WeakestIs ==
  ASSUME PlateBounds, NEW lot \in SUBSET P!Crops, lot # {}
  PROVE  /\ P!Weakest(lot) \in lot
         /\ \A d \in lot : P!Weakest(lot).score <= d.score
<1>1. \A c \in lot : c.score \in Nat /\ c.frame \in Nat
  <2>. TAKE c \in lot
  <2>1. c \in P!Crops /\ Scores \subseteq Nat /\ 0..FinalFrame \subseteq Nat
    BY DEF PlateBounds
  <2> QED
    BY <2>1 DEF P!Crops
<1>. DEFINE S == {c.score : c \in lot}
<1>2. PICK s \in S : \A n \in S : s <= n
  <2>1. S \subseteq Nat /\ S # {}
    BY <1>1
  <2>. HIDE DEF S
  <2> QED
    BY <2>1, LeastNatural
<1>. DEFINE frs == {c.frame : c \in {d \in lot : d.score = s}}
<1>3. frs \subseteq Nat /\ frs # {}
  BY <1>1
<1>4. PICK f \in frs : \A n \in frs : f <= n
  BY <1>3, LeastNatural
<1>5. PICK c \in lot : c.score = s /\ c.frame = f
  OBVIOUS
<1>6. \A d \in lot : c.score < d.score \/ (c.score = d.score /\ c.frame <= d.frame)
  <2>. TAKE d \in lot
  <2>1. c.score <= d.score
    BY <1>2, <1>5
  <2>2. d.score = c.score => c.frame <= d.frame
    BY <1>4, <1>5
  <2> QED
    BY <1>1, <2>1, <2>2
<1>7. /\ P!Weakest(lot) \in lot
      /\ \A d \in lot : \/ P!Weakest(lot).score < d.score
                          \/ /\ P!Weakest(lot).score = d.score
                             /\ P!Weakest(lot).frame <= d.frame
  BY <1>6 DEF P!Weakest
<1> QED
  BY <1>1, <1>7

\* The best n of some lot and one more are what Keep makes of the best n and that one.
LEMMA KeepIsTop ==
  ASSUME PlateBounds, NEW lot \in SUBSET P!Crops, IsFiniteSet(lot), NEW some,
         P!IsTop(BufferSize, some, lot), NEW c \in P!Crops, c \notin lot
  PROVE  P!IsTop(BufferSize, P!Keep(some, c), lot \cup {c})
<1>. DEFINE n == Cardinality(lot)
            all == lot \cup {c}
            new == P!Keep(some, c)
<1>1. /\ some \subseteq lot /\ IsFiniteSet(some) /\ Cardinality(some) \in Nat
      /\ n \in Nat /\ Cardinality(some) = IF BufferSize <= n THEN BufferSize ELSE n
      /\ \A x \in some, y \in lot \ some : y.score <= x.score
  BY FS_Subset, FS_CardinalityType, LesserOf, PlateCounts DEF P!IsTop, PlateBounds
<1>2. \A x \in all : x.score \in Nat
  BY DEF P!Crops, PlateBounds
<1>3. Cardinality(all) = n + 1 /\ BufferSize \in Nat \ {0}
  BY FS_AddElement DEF PlateBounds
<1>4. CASE Cardinality(some) < BufferSize
  <2>1. some = lot
    <3>1. Cardinality(some) = n
      BY <1>1, <1>3, <1>4
    <3> QED
      BY <1>1, <3>1, FS_Subset
  <2>2. new = all
    BY <1>4, <2>1, PlateCounts DEF P!Keep
  <2>3. P!Min({BufferSize, n + 1}) = n + 1
    BY <1>1, <1>3, <1>4, LesserOf
  <2> QED
    BY <1>3, <2>2, <2>3, PlateCounts DEF P!IsTop
<1>5. CASE ~(Cardinality(some) < BufferSize)
  <2>1. Cardinality(some) = BufferSize /\ P!Min({BufferSize, n + 1}) = BufferSize /\ some # {}
    BY <1>1, <1>3, <1>5, LesserOf, FS_EmptySet
  <2>. DEFINE w == P!Weakest(some)
  <2>2. w \in some /\ \A d \in some : w.score <= d.score
    BY <1>1, <2>1, WeakestIs
  <2>. HIDE DEF w
  <2>3. CASE c.score <= w.score
    <3>1. new = some
      BY <1>5, <2>3, PlateCounts DEF P!Keep, w
    <3>2. \A x \in some, y \in all \ some : y.score <= x.score
      BY <1>1, <1>2, <2>2, <2>3
    <3> QED
      BY <1>1, <1>3, <2>1, <3>1, <3>2, PlateCounts DEF P!IsTop
  <2>4. CASE ~(c.score <= w.score)
    <3>1. new = (some \ {w}) \cup {c}
      BY <1>5, <2>4, PlateCounts DEF P!Keep, P!Replaced, w
    <3>2. Cardinality(new) = BufferSize
      <4>1. IsFiniteSet(some \ {w}) /\ Cardinality(some \ {w}) = BufferSize - 1
        BY <1>1, <2>1, <2>2, FS_RemoveElement
      <4>2. c \notin some \ {w}
        BY <1>1
      <4>3. Cardinality((some \ {w}) \cup {c}) = Cardinality(some \ {w}) + 1
        BY <4>1, <4>2, FS_AddElement
      <4> QED
        BY <1>3, <3>1, <4>1, <4>3
    <3>3. new \subseteq all
      BY <1>1, <3>1
    <3>4. ASSUME NEW x \in new, NEW y \in all \ new PROVE y.score <= x.score
      <4>1. w \in all /\ x \in all /\ y \in all
        BY <1>1, <2>2, <3>3
      <4>2. y.score <= w.score
        BY <1>1, <1>2, <2>2, <3>1, <4>1
      <4>3. w.score <= x.score
        BY <1>2, <2>2, <2>4, <3>1, <4>1
      <4> QED
        BY <1>2, <4>1, <4>2, <4>3
    <3> QED
      BY <1>3, <2>1, <3>2, <3>3, <3>4, PlateCounts DEF P!IsTop
  <2> QED
    BY <2>3, <2>4
<1> QED
  BY <1>4, <1>5

\* The best of some lot have one that is as sharp as any of them.
LEMMA TopHasBest ==
  ASSUME NEW n \in Nat \ {0}, NEW lot, IsFiniteSet(lot), NEW some,
         P!IsTop(n, some, lot), NEW c \in lot, \A x \in lot : x.score \in Nat
  PROVE  \E d \in some : c.score <= d.score
<1>1. /\ some \subseteq lot /\ IsFiniteSet(some)
      /\ Cardinality(some) = IF n <= Cardinality(lot) THEN n ELSE Cardinality(lot)
      /\ \A x \in some, y \in lot \ some : y.score <= x.score
  BY FS_Subset, FS_CardinalityType, LesserOf, PlateCounts DEF P!IsTop
<1>2. Cardinality(lot) # 0 /\ Cardinality(lot) \in Nat
  BY FS_EmptySet, FS_CardinalityType
<1>3. some # {}
  BY <1>1, <1>2, FS_EmptySet
<1> QED
  BY <1>1, <1>3

\* The first state.
LEMMA PlateInit == PlateBounds /\ P!Init => PlateInv
<1>. SUFFICES ASSUME PlateBounds, P!Init PROVE PlateInv
  OBVIOUS
<1>. USE DEF P!Init
<1>1. PlateTypes
  BY DEF PlateTypes, PlateBounds
<1>2. P!IsTop(BufferSize, {}, {})
  <2>1. P!Min({BufferSize, 0}) = 0
    BY LesserOf DEF PlateBounds
  <2> QED
    BY <2>1, FS_EmptySet, PlateCounts DEF P!IsTop
<1>3. BufferInv
  BY <1>2, FS_EmptySet DEF BufferInv
<1>4. RowsInv
  BY DEF RowsInv, P!OnePlatePerVehicle
<1> QED
  BY <1>1, <1>3, <1>4 DEF PlateInv

\* A frame offers a crop of each vehicle that is near.
LEMMA PlateFrameStep == PlateBounds /\ PlateInv /\ P!ProcessFrame => PlateInv'
<1>. SUFFICES ASSUME PlateBounds, PlateInv, P!ProcessFrame PROVE PlateInv'
  OBVIOUS
<1>. USE DEF PlateInv
<1>. PICK near \in SUBSET Tracked : \E crop \in [near -> P!Crops] :
        /\ plateFrame <= FinalFrame
        /\ \A v \in near : crop[v].frame = plateFrame
        /\ offered' = [v \in Tracked |->
                          IF v \in near THEN offered[v] \cup {crop[v]} ELSE offered[v]]
        /\ kept' = [v \in Tracked |->
                          IF v \in near THEN P!Keep(kept[v], crop[v]) ELSE kept[v]]
        /\ plateFrame' = plateFrame + 1
        /\ UNCHANGED <<plates, license, events, next, plateRows>>
  BY DEF P!ProcessFrame
<1>1. PICK crop \in [near -> P!Crops] :
        /\ plateFrame <= FinalFrame
        /\ \A v \in near : crop[v].frame = plateFrame
        /\ offered' = [v \in Tracked |->
                          IF v \in near THEN offered[v] \cup {crop[v]} ELSE offered[v]]
        /\ kept' = [v \in Tracked |->
                          IF v \in near THEN P!Keep(kept[v], crop[v]) ELSE kept[v]]
        /\ plateFrame' = plateFrame + 1
        /\ UNCHANGED <<plates, license, events, next, plateRows>>
  OBVIOUS
<1>2. plateFrame \in Nat /\ FinalFrame \in Nat
  BY DEF PlateBounds, PlateTypes
<1>3. next = 0 /\ plateRows = <<>>
  BY <1>1, <1>2 DEF RowsInv, PlateTypes
<1>4. BufferInv'
  <2>1. SUFFICES ASSUME NEW v \in Tracked
                 PROVE  /\ IsFiniteSet(offered'[v])
                        /\ \A c \in offered'[v] : c.frame < plateFrame'
                        /\ \A c, d \in offered'[v] : c.frame = d.frame => c = d
                        /\ P!IsTop(BufferSize, kept'[v], offered'[v])
    BY DEF BufferInv, P!IsTop, P!Min, P!Cardinality
  <2>2. /\ IsFiniteSet(offered[v])
        /\ \A c \in offered[v] : c.frame < plateFrame
        /\ \A c, d \in offered[v] : c.frame = d.frame => c = d
        /\ P!IsTop(BufferSize, kept[v], offered[v])
        /\ offered[v] \in SUBSET P!Crops
    BY DEF BufferInv, PlateTypes
  <2>3. \A c \in P!Crops : c.frame \in Nat
    <3>1. 0..FinalFrame \subseteq Nat
      OBVIOUS
    <3> QED
      BY <3>1 DEF P!Crops
  <2>4. CASE v \notin near
    <3>1. offered'[v] = offered[v] /\ kept'[v] = kept[v]
      BY <1>1, <2>4
    <3>2. \A c \in offered[v] : c.frame < plateFrame + 1
      BY <1>2, <2>2, <2>3
    <3> QED
      BY <1>1, <2>2, <3>1, <3>2
  <2>5. CASE v \in near
    <3>1. PICK c : c = crop[v]
      OBVIOUS
    <3>2. c \in P!Crops /\ c.frame = plateFrame
      BY <1>1, <2>5, <3>1
    <3>3. c \notin offered[v]
      BY <1>2, <2>2, <3>2
    <3>4. offered'[v] = offered[v] \cup {c} /\ kept'[v] = P!Keep(kept[v], c)
      BY <1>1, <2>5, <3>1
    <3>5. P!IsTop(BufferSize, kept'[v], offered'[v])
      <4>1. P!IsTop(BufferSize, P!Keep(kept[v], c), offered[v] \cup {c})
        BY <2>2, <3>2, <3>3, KeepIsTop
      <4> QED
        BY <3>4, <4>1
    <3>6. IsFiniteSet(offered'[v])
      BY <2>2, <3>4, FS_AddElement
    <3>7. \A d \in offered[v] : d.frame < plateFrame + 1 /\ d.frame # c.frame
      BY <1>2, <2>2, <2>3, <3>2
    <3>8. c.frame < plateFrame + 1
      BY <1>2, <3>2
    <3> QED
      BY <1>1, <2>2, <3>4, <3>5, <3>6, <3>7, <3>8
  <2> QED
    BY <2>4, <2>5
<1>5. PlateTypes'
  <2>1. \A v \in Tracked : offered'[v] \in SUBSET P!Crops /\ kept'[v] \in SUBSET P!Crops
    <3>1. \A v \in Tracked : offered'[v] \in SUBSET P!Crops
      BY <1>1 DEF PlateTypes
    <3>2. \A v \in Tracked : kept'[v] \subseteq offered'[v]
      BY <1>4 DEF BufferInv, P!IsTop
    <3> QED
      BY <3>1, <3>2
  <2>2. /\ offered' = [v \in Tracked |-> offered'[v]] /\ kept' = [v \in Tracked |-> kept'[v]]
    BY <1>1
  <2>3. offered' \in [Tracked -> SUBSET P!Crops] /\ kept' \in [Tracked -> SUBSET P!Crops]
    BY <2>1, <2>2
  <2>4. plateFrame' \in 0..FinalFrame + 1
    BY <1>1, <1>2
  <2> QED
    BY <1>1, <2>3, <2>4 DEF PlateTypes
<1>6. RowsInv'
  BY <1>1, <1>3 DEF RowsInv, P!OnePlatePerVehicle
<1> QED
  BY <1>4, <1>5, <1>6

\* The detectors find their events.
LEMMA PlateDetect == PlateBounds /\ PlateInv /\ P!Detect => PlateInv'
<1>. SUFFICES ASSUME PlateBounds, PlateInv, P!Detect PROVE PlateInv'
  OBVIOUS
<1>. USE DEF PlateInv
<1>1. PICK es \in P!SeqOf(P!Events, MaxFound) :
        /\ plateFrame = FinalFrame + 1 /\ next = 0
        /\ events' = es /\ next' = 1
        /\ UNCHANGED <<plateFrame, offered, kept, plates, license, plateRows>>
  BY DEF P!Detect
<1>2. es \in Seq(P!Events)
  BY DEF P!SeqOf, PlateBounds
<1>3. PlateTypes'
  BY <1>1, <1>2 DEF PlateTypes
<1>4. BufferInv'
  BY <1>1 DEF BufferInv, P!IsTop
<1>5. RowsInv'
  BY <1>1 DEF RowsInv, P!OnePlatePerVehicle
<1> QED
  BY <1>3, <1>4, <1>5

\* The sharpest crop of a vehicle outlives its buffer and the choice of the pictures.
LEMMA PicturesHaveBest ==
  ASSUME PlateBounds, PlateInv, NEW v \in Tracked, NEW shown,
         P!IsTop(NEvidence, shown, kept[v]), NEW c \in offered[v]
  PROVE  \E d \in shown : c.score <= d.score
<1>1. /\ offered[v] \subseteq P!Crops /\ IsFiniteSet(offered[v])
      /\ P!IsTop(BufferSize, kept[v], offered[v])
  BY DEF PlateInv, PlateTypes, BufferInv
<1>2. kept[v] \subseteq offered[v] /\ IsFiniteSet(kept[v])
  BY <1>1, FS_Subset DEF P!IsTop
<1>3. \A x \in offered[v] : x.score \in Nat
  BY <1>1 DEF P!Crops, PlateBounds
<1>4. PICK d \in kept[v] : c.score <= d.score
  BY <1>1, <1>3, TopHasBest DEF PlateBounds
<1>5. PICK e \in shown : d.score <= e.score
  BY <1>2, <1>3, TopHasBest DEF PlateBounds
<1>6. e \in offered[v]
  BY <1>2 DEF P!IsTop
<1> QED
  BY <1>2, <1>3, <1>4, <1>5, <1>6

\* A row is written.
LEMMA PlateCollect == PlateBounds /\ PlateInv /\ P!CollectEvidence => PlateInv'
<1>. SUFFICES ASSUME PlateBounds, PlateInv, P!CollectEvidence PROVE PlateInv'
  OBVIOUS
<1>. USE DEF PlateInv
<1>1. PICK k, v : k = next /\ v = events[next].vehicle
  OBVIOUS
<1>2. PICK read \in SUBSET kept[v], shown \in SUBSET kept[v] : \E plate \in P!ReadOnce(v, read) :
        /\ P!IsTop(NEvidence, shown, kept[v])
        /\ plates' = [plates EXCEPT ![v] = plate]
        /\ license' = [license EXCEPT ![v] = IF plate # None THEN plate ELSE @]
        /\ plateRows' = Append(plateRows, [event |-> events[next], plate |-> plate,
                                           pictures |-> shown])
        /\ next' = next + 1
        /\ UNCHANGED <<plateFrame, offered, kept, events>>
  BY <1>1 DEF P!CollectEvidence, P!Reported
<1>3. PICK plate \in P!ReadOnce(v, read) :
        /\ P!IsTop(NEvidence, shown, kept[v])
        /\ plates' = [plates EXCEPT ![v] = plate]
        /\ license' = [license EXCEPT ![v] = IF plate # None THEN plate ELSE @]
        /\ plateRows' = Append(plateRows, [event |-> events[next], plate |-> plate,
                                           pictures |-> shown])
        /\ next' = next + 1
        /\ UNCHANGED <<plateFrame, offered, kept, events>>
  BY <1>2
<1>4. PICK r : r = [event |-> events[next], plate |-> plate, pictures |-> shown]
  OBVIOUS
<1>5. /\ k \in DOMAIN events /\ k \in 1..Len(events) /\ k \in Nat \ {0}
      /\ events \in Seq(P!Events) /\ events[k] \in P!Events /\ v \in Tracked
  <2>1. next \in DOMAIN events /\ events \in Seq(P!Events)
    BY DEF P!CollectEvidence, PlateTypes
  <2>2. next \in 1..Len(events) /\ events[next] \in P!Events
    BY <2>1
  <2> QED
    BY <1>1, <2>1, <2>2 DEF P!Events
<1>6. license[v] # None => plate = license[v]
  BY <1>3 DEF P!ReadOnce
<1>7. plate \in Plates \cup {None}
  BY <1>3, <1>5 DEF P!ReadOnce, P!Votes, PlateTypes
<1>8. shown \in SUBSET P!Crops
  BY <1>5 DEF PlateTypes
<1>9. /\ Len(plateRows) = k - 1 /\ plateFrame = FinalFrame + 1
      /\ plateRows \in Seq(PlateRow)
  BY <1>1, <1>5 DEF RowsInv, PlateTypes
<1>10. r \in PlateRow
  BY <1>1, <1>4, <1>5, <1>7, <1>8 DEF PlateRow
<1>11. /\ plateRows' = Append(plateRows, r) /\ Len(plateRows') = k
       /\ DOMAIN plateRows = 1..k-1 /\ DOMAIN plateRows' = 1..k
       /\ plateRows'[k] = r
       /\ \A i \in 1..k-1 : plateRows'[i] = plateRows[i] /\ i \in DOMAIN plateRows
  BY <1>3, <1>4, <1>5, <1>9, <1>10
<1>12. PlateTypes'
  <2>1. plateRows' \in Seq(PlateRow)
    BY <1>9, <1>10, <1>11
  <2>2. next' \in 0..Len(events) + 1
    BY <1>1, <1>3, <1>5
  <2>3. license' \in [Tracked -> Plates \cup {None}] /\ plates' \in [Tracked -> Plates \cup {None}]
    BY <1>3, <1>5, <1>7 DEF PlateTypes
  <2> QED
    BY <1>3, <2>1, <2>2, <2>3 DEF PlateTypes
<1>13. BufferInv'
  BY <1>3 DEF BufferInv, P!IsTop
<1>14. ASSUME NEW i \in 1..k-1
       PROVE  /\ plateRows[i].event = events[i]
              /\ plateRows[i].event.vehicle \in Tracked
              /\ plateRows[i].plate # None =>
                   license[plateRows[i].event.vehicle] = plateRows[i].plate
              /\ \A c \in offered[plateRows[i].event.vehicle] :
                   \E d \in plateRows[i].pictures : c.score <= d.score
  <2>1. plateRows[i].event \in P!Events
    <3>1. i \in 1..Len(plateRows)
      BY <1>5, <1>9
    <3>2. plateRows[i] \in PlateRow
      BY <1>9, <3>1
    <3> QED
      BY <3>2 DEF PlateRow
  <2> QED
    BY <1>11, <2>1 DEF RowsInv, P!Events
<1>15. /\ r.event = events[k] /\ r.event.vehicle = v /\ r.plate = plate /\ r.pictures = shown
       /\ r.plate # None => license'[v] = r.plate
       /\ \A c \in offered[v] : \E d \in r.pictures : c.score <= d.score
  <2>1. r.event = events[k] /\ r.event.vehicle = v /\ r.plate = plate /\ r.pictures = shown
    BY <1>1, <1>4
  <2>2. license'[v] = IF plate # None THEN plate ELSE license[v]
    BY <1>3, <1>5 DEF PlateTypes
  <2>3. \A c \in offered[v] : \E d \in shown : c.score <= d.score
    BY <1>3, <1>5, PicturesHaveBest
  <2> QED
    BY <2>1, <2>2, <2>3
<1>16. \A w \in Tracked : license[w] # None => license'[w] = license[w]
  BY <1>3, <1>5, <1>6 DEF PlateTypes
<1>17. RowsInv'
  <2>1. next' > 0 /\ next' = k + 1
    BY <1>1, <1>3, <1>5
  <2>2. ASSUME NEW i \in DOMAIN plateRows'
        PROVE  /\ plateRows'[i].event = events'[i]
               /\ plateRows'[i].plate # None =>
                    license'[plateRows'[i].event.vehicle] = plateRows'[i].plate
               /\ \A c \in offered'[plateRows'[i].event.vehicle] :
                    \E d \in plateRows'[i].pictures : c.score <= d.score
    <3>1. CASE i = k
      BY <1>3, <1>11, <1>15, <3>1
    <3>2. CASE i \in 1..k-1
      <4>1. plateRows'[i] = plateRows[i] /\ events' = events /\ offered' = offered
        BY <1>3, <1>11, <3>2
      <4>2. plateRows[i].plate # None =>
              license'[plateRows[i].event.vehicle] = plateRows[i].plate
        BY <1>14, <1>16, <3>2
      <4> QED
        BY <1>14, <3>2, <4>1, <4>2
    <3> QED
      BY <1>5, <1>11, <3>1, <3>2
  <2>3. ASSUME NEW i \in DOMAIN plateRows', NEW j \in DOMAIN plateRows', i < j,
               plateRows'[i].event.vehicle = plateRows'[j].event.vehicle,
               plateRows'[i].plate # None
        PROVE  plateRows'[j].plate = plateRows'[i].plate
    <3>1. i \in 1..k-1 /\ (j = k \/ j \in 1..k-1)
      BY <1>5, <1>11, <2>3
    <3>2. CASE j = k
      BY <1>6, <1>11, <1>14, <1>15, <2>3, <3>1, <3>2
    <3>3. CASE j \in 1..k-1
      BY <1>11, <2>3, <3>1, <3>3 DEF RowsInv, P!OnePlatePerVehicle
    <3> QED
      BY <3>1, <3>2, <3>3
  <2>4. plateFrame' = FinalFrame + 1 /\ Len(plateRows') = next' - 1 /\ next' # 0
    BY <1>3, <1>5, <1>9, <1>11, <2>1
  <2> QED
    BY <2>2, <2>3, <2>4 DEF RowsInv, P!OnePlatePerVehicle
<1> QED
  BY <1>12, <1>13, <1>17

\* MCJourney takes the steps of PlateEvidence in its part, and no others.
LEMMA PlatePart ==
    /\ Init /\ part = "plate" => P!Init
    /\ [Next]_vars => part' = part /\ (part = "plate" => [P!Next]_P!vars)
BY DEF Init, Next, vars, plateVars, P!vars

\* The invariant of the buffers, the plates and the rows, for any drive and any buffer.
THEOREM PlateCorrect == PlateBounds /\ Spec => [](part = "plate" => PlateInv)
<1>. SUFFICES ASSUME PlateBounds PROVE Spec => [](part = "plate" => PlateInv)
  OBVIOUS
<1>1. Init => (part = "plate" => PlateInv)
  BY PlatePart, PlateInit
<1>2. PlateInv /\ UNCHANGED P!vars => PlateInv'
  <2>. SUFFICES ASSUME PlateInv, UNCHANGED P!vars PROVE PlateInv'
    OBVIOUS
  <2>1. UNCHANGED <<plateFrame, offered, kept, plates, license, events, next, plateRows>>
    BY DEF P!vars
  <2>2. PlateTypes'
    BY <2>1 DEF PlateInv, PlateTypes
  <2>3. BufferInv'
    BY <2>1 DEF PlateInv, BufferInv, P!IsTop
  <2>4. RowsInv'
    BY <2>1 DEF PlateInv, RowsInv, P!OnePlatePerVehicle
  <2> QED
    BY <2>2, <2>3, <2>4 DEF PlateInv
<1>3. (part = "plate" => PlateInv) /\ [Next]_vars => (part = "plate" => PlateInv)'
  BY <1>2, PlatePart, PlateFrameStep, PlateDetect, PlateCollect DEF P!Next
<1> QED
  BY <1>1, <1>3, PTL DEF Spec

\* The evidence of every violation is the best there was: the sharpest crops survive the
\* eviction, one plate per vehicle, and no event loses its row for want of one.
THEOREM EvidenceIsKept == PlateBounds /\ Spec => [](part = "plate" => P!EvidenceKept)
<1>. SUFFICES ASSUME PlateBounds PROVE Spec => [](part = "plate" => P!EvidenceKept)
  OBVIOUS
<1>1. PlateInv => P!EvidenceKept
  <2>. SUFFICES ASSUME PlateInv PROVE P!EvidenceKept
    OBVIOUS
  <2>1. P!KeepsBest /\ P!OnePlatePerVehicle
    BY DEF PlateInv, BufferInv, RowsInv, P!KeepsBest
  <2>2. ASSUME next > Len(events)
        PROVE  /\ [i \in DOMAIN plateRows |-> plateRows[i].event] = events
               /\ \A i \in DOMAIN plateRows : \A c \in offered[plateRows[i].event.vehicle] :
                      \E d \in plateRows[i].pictures : c.score <= d.score
    <3>1. events \in Seq(P!Events) /\ next \in 0..Len(events) + 1 /\ Len(events) \in Nat
      BY DEF PlateInv, PlateTypes
    <3>2. next = Len(events) + 1 /\ next > 0
      BY <2>2, <3>1
    <3>3. Len(plateRows) = Len(events)
      BY <3>1, <3>2 DEF PlateInv, RowsInv
    <3>4. DOMAIN plateRows = DOMAIN events
      BY <3>1, <3>3 DEF PlateInv, PlateTypes
    <3>5. events = [i \in DOMAIN events |-> events[i]]
      BY <3>1
    <3> QED
      BY <3>4, <3>5 DEF PlateInv, RowsInv
  <2> QED
    BY <2>1, <2>2 DEF P!EvidenceKept, P!NothingDropped
<1> QED
  BY <1>1, PlateCorrect, PTL

-----------------------------------------------------------------------------
(* ViolationRecords *)

RecordBounds ==
    /\ KeyFrames \subseteq Nat /\ Tracks \subseteq SUBSET Nat /\ None \notin Nat
    /\ \A o \in Outcomes : o.found \subseteq H!Events

\* What a path holds is of the violation the path is named after: a clip shows its key frame,
\* a plate picture is one.
Of(content, path) ==
    /\ content.vehicle = path[1][1] /\ content.type = path[1][2]
    /\ path[2] \in {"loose.mp4", "clip.mp4"} => content.frame = path[1][3]
    /\ path[2] = "plate.png" => content.what = "plate.png"

\* The attempts are counted; one that has processed the video has an outcome, and exports it
\* when there is something.
AttemptInv ==
    /\ attempt \in Nat \ {0}
    /\ recordsPhase # "process" => outcome \in Outcomes
    /\ recordsPhase = "export" => H!found # {}

\* A record is of a violation, and names its own plate and files, made with the bundle.
RecordInv(r, members, made) ==
    /\ r.id = <<r.vehicle, r.type, r.key>>
    /\ [vehicle |-> r.vehicle, type |-> r.type, key |-> r.key] \in H!Events
    /\ r.plate \in {None, <<"plate", r.vehicle, made>>}
    /\ \A p \in r.paths : p \in DOMAIN members /\ p[1] = r.id
    /\ r.plateCrop # None => r.plateCrop = H!PlatePath(r.id) /\ r.plateCrop \in DOMAIN members

\* A bundle that is whole has one record for each of its violations, and every file they name.
BundleInv ==
    /\ \A p \in DOMAIN recordsBundle.members :
         /\ Of(recordsBundle.members[p], p) /\ p[2] \notin {"loose.mp4", "clip.mp4"}
         /\ recordsBundle.members[p].made = recordsBundle.made
    /\ \A r \in recordsBundle.records : RecordInv(r, recordsBundle.members, recordsBundle.made)
    /\ \A r, s \in recordsBundle.records : r.id = s.id => r = s
    /\ recordsBundle.made = None => recordsBundle = H!Torn

\* It is this attempt's, and has what that found, or one of an attempt before.
MadeInv ==
    /\ recordsBundle.made \in Nat \cup {None}
    /\ recordsBundle.made \in Nat => recordsBundle.made <= attempt
    /\ recordsPhase \in {"process", "export"} => recordsBundle.made # attempt
    /\ recordsPhase \in {"clips", "plates", "post", "done"} => recordsBundle.made # None
    /\ recordsPhase \in {"unpack", "clips", "plates", "post", "done"} =>
         IF H!found = {} THEN recordsBundle.made # attempt
         ELSE /\ recordsBundle.made = attempt
              /\ \A r \in recordsBundle.records :
                   [vehicle |-> r.vehicle, type |-> r.type, key |-> r.key] \in H!found
              /\ \A e \in H!found : \E r \in recordsBundle.records :
                   r.vehicle = e.vehicle /\ r.type = e.type /\ r.key = e.key

\* The files of the job directory are what their names say, whichever attempt wrote them;
\* the members of the bundle, the clips and the plates are there until they are sent.
FilesInv ==
    /\ \A p \in DOMAIN recordsFiles : Of(recordsFiles[p], p)
    /\ recordsPhase \in {"clips", "plates", "post"} =>
         \A p \in DOMAIN recordsBundle.members :
           p \in DOMAIN recordsFiles /\ recordsFiles[p] = recordsBundle.members[p]
    /\ recordsPhase = "clips" => \A id \in DOMAIN clips :
         clips[id] = H!ClipPath(id) /\ clips[id] \in DOMAIN recordsFiles
    /\ recordsPhase \in {"clips", "plates"} => \A id \in DOMAIN recordsPlates :
         /\ recordsPlates[id] = H!PlatePath(id)
         /\ recordsPlates[id] \in DOMAIN recordsBundle.members
    /\ recordsPhase \in {"plates", "post"} => \A r \in recordsBundle.records :
         clips[r.id] = H!HeadCut \/ Of(clips[r.id], H!ClipPath(r.id))
    /\ recordsPhase = "post" => \A id \in DOMAIN recordsPlates :
         Of(recordsPlates[id], H!PlatePath(id)) /\ recordsPlates[id].made = recordsBundle.made

\* A record the backend was told is one of the bundle's, and leads to its own incident.
Posted(p) ==
    /\ \E r \in recordsBundle.records :
         /\ p.violationId = r.id
         /\ H!Incident(p) = [vehicle |-> r.vehicle, type |-> r.type, key |-> r.key]
    /\ p.videoClip = H!HeadCut \/ (H!Shows(p.videoClip, p) /\ p.videoClip.frame = p.keyFrame)
    /\ p.plateImage # None =>
         /\ H!Shows(p.plateImage, p) /\ p.plateImage.what = "plate.png"
         /\ p.plateImage.made = recordsBundle.made
    /\ p.carId \in {<<"plate", p.vehicleId, recordsBundle.made>>, <<"vehicle", p.vehicleId>>}
    /\ (p.fix = None) = (track = {})
    /\ \A t \in track : H!Distance(p.fix, p.keyFrame) <= H!Distance(t, p.keyFrame)

\* Its evidence is in the job directory.
Found(p) == \A path \in p.evidence :
    /\ path \in DOMAIN recordsFiles /\ H!Shows(recordsFiles[path], p)
    /\ recordsFiles[path].made = recordsBundle.made

PostedInv ==
    /\ recordsPhase \in {"process", "export", "unpack", "clips", "plates"} => posted = {}
    /\ \A p \in posted : Posted(p)
    /\ recordsPhase = "post" => \A p \in posted : Found(p)
    /\ recordsPhase = "done" => \A r \in recordsBundle.records : \E p \in posted :
         /\ p.violationId = r.id
         /\ H!Incident(p) = [vehicle |-> r.vehicle, type |-> r.type, key |-> r.key]

RecordsInv ==
    /\ recordsPhase \in {"process", "export", "unpack", "clips", "plates", "post", "done",
                          "failed"}
    /\ track \in Tracks
    /\ AttemptInv /\ BundleInv /\ MadeInv /\ FilesInv /\ PostedInv

\* The nearest fix is one, and none is nearer.
LEMMA FixIsNearest ==
  ASSUME track \subseteq Nat, None \notin Nat, NEW f \in Nat
  PROVE  /\ (H!fix_at(f) = None) = (track = {})
         /\ \A t \in track : H!Distance(H!fix_at(f), f) <= H!Distance(t, f)
<1>. DEFINE d(t) == H!Distance(t, f)
<1>1. \A t \in track : d(t) \in Nat
  BY DEF H!Distance
<1>. HIDE DEF d
<1>2. CASE track = {}
  BY <1>2 DEF H!fix_at
<1>3. CASE track # {}
  <2>. DEFINE S == {d(t) : t \in track}
  <2>1. S \subseteq Nat /\ S # {}
    BY <1>1, <1>3
  <2>2. PICK s \in S : \A n \in S : s <= n
    BY <2>1, LeastNatural
  <2>. DEFINE T == {t \in track : d(t) = s}
  <2>3. T \subseteq Nat /\ T # {}
    BY <2>2
  <2>4. PICK t \in T : \A u \in T : t <= u
    BY <2>3, LeastNatural
  <2>5. \A u \in track \ {t} : d(t) < d(u) \/ (d(t) = d(u) /\ t < u)
    <3>. TAKE u \in track \ {t}
    <3>1. d(t) = s /\ s <= d(u) /\ d(t) \in Nat /\ d(u) \in Nat
      BY <1>1, <2>2, <2>4
    <3>2. d(u) = s => t <= u
      BY <2>4
    <3> QED
      BY <3>1, <3>2
  <2>6. t \in track
    BY <2>4
  <2>7. /\ H!fix_at(f) \in track
        /\ \A u \in track \ {H!fix_at(f)} : d(H!fix_at(f)) < d(u) \/
             (d(H!fix_at(f)) = d(u) /\ H!fix_at(f) < u)
    BY <1>3, <2>5, <2>6 DEF H!fix_at, d
  <2>8. \A u \in track : d(H!fix_at(f)) <= d(u)
    BY <1>1, <2>7
  <2> QED
    BY <1>3, <2>7, <2>8 DEF d
<1> QED
  BY <1>2, <1>3

\* What one dictionary says over another.
LEMMA OverIs ==
  ASSUME NEW f, NEW g
  PROVE  /\ DOMAIN H!Over(f, g) = DOMAIN f \cup DOMAIN g
         /\ \A x \in DOMAIN g : H!Over(f, g)[x] = g[x]
         /\ \A x \in DOMAIN f \ DOMAIN g : H!Over(f, g)[x] = f[x]
BY DEF H!Over

\* Two violations have different ids, so a path has one owner.
LEMMA OwnerOf ==
  ASSUME NEW es, NEW e \in es, NEW path, H!violation_id(e) = path[1]
  PROVE  /\ H!Owner(es, path) \in es
         /\ H!Owner(es, path).vehicle = path[1][1]
         /\ H!Owner(es, path).type = path[1][2]
         /\ H!Owner(es, path).key = path[1][3]
<1>1. H!Owner(es, path) \in es /\ H!violation_id(H!Owner(es, path)) = path[1]
  BY DEF H!Owner
<1> QED
  BY <1>1 DEF H!violation_id

\* The loose clips are what their names say,
LEMMA LooseOf ==
  ASSUME NEW es, NEW path \in DOMAIN H!Loose(es) PROVE Of(H!Loose(es)[path], path)
<1>1. PICK e \in es : path = H!LoosePath(H!violation_id(e))
  BY DEF H!Loose
<1>2. path[1] = H!violation_id(e) /\ path[2] = "loose.mp4"
  BY <1>1 DEF H!LoosePath
<1>3. H!Loose(es)[path] = H!File(H!Owner(es, path), "clip.mp4", H!Owner(es, path).key)
  BY DEF H!Loose
<1> QED
  BY <1>2, <1>3, OwnerOf DEF Of, H!File

\* ... and so are the members of the bundle.
LEMMA MembersOf ==
  ASSUME NEW reports, NEW best, NEW path \in DOMAIN H!Members(reports, best)
  PROVE  /\ Of(H!Members(reports, best)[path], path) /\ path[2] \notin {"loose.mp4", "clip.mp4"}
         /\ H!Members(reports, best)[path].made = attempt
<1>1. PICK e \in H!found : \E name \in H!Names(e, e \in reports) : path = H!Path(e, name)
  BY DEF H!Members
<1>2. PICK name \in H!Names(e, e \in reports) : path = H!Path(e, name)
  BY <1>1
<1>3. name[1] \notin {"loose.mp4", "clip.mp4"}
  BY DEF H!Names
<1>4. path[1] = H!violation_id(e) /\ path[2] = name[1]
  BY <1>2 DEF H!Path
<1>5. PICK f : H!Members(reports, best)[path] = H!File(H!Owner(H!found, path), path[2], f)
  BY DEF H!Members
<1> QED
  BY <1>3, <1>4, <1>5, OwnerOf DEF Of, H!File

\* The members are those of every violation.
LEMMA MembersAre ==
  ASSUME NEW reports, NEW best, NEW e \in H!found, NEW name \in H!Names(e, e \in reports)
  PROVE  H!Path(e, name) \in DOMAIN H!Members(reports, best)
BY DEF H!Members

\* The first state.
LEMMA RecordsInit == RecordBounds /\ H!Init => RecordsInv
<1>. SUFFICES ASSUME RecordBounds, H!Init PROVE RecordsInv
  OBVIOUS
<1>. USE DEF H!Init, H!Nothing, H!NoBundle
<1>1. AttemptInv
  BY DEF AttemptInv
<1>2. BundleInv /\ MadeInv
  BY DEF BundleInv, MadeInv, RecordBounds
<1>3. FilesInv
  BY DEF FilesInv
<1>4. PostedInv
  BY DEF PostedInv
<1> QED
  BY <1>1, <1>2, <1>3, <1>4 DEF RecordsInv

\* The records of the bundle that a drive makes: what each takes from its finding, and that
\* its files are among the bundle's.
RecordHolds(r, e, members) ==
    /\ r.id = H!violation_id(e) /\ r.id = <<r.vehicle, r.type, r.key>>
    /\ r.vehicle = e.vehicle /\ r.type = e.type /\ r.key = e.key
    /\ r.plate \in {None, <<"plate", r.vehicle, attempt>>}
    /\ \A p \in r.paths : p \in DOMAIN members /\ p[1] = r.id
    /\ r.plateCrop # None => r.plateCrop = H!PlatePath(r.id) /\ r.plateCrop \in DOMAIN members

\* Every record of the bundle is one.
LEMMA RecordIs ==
  ASSUME NEW reports, NEW best, NEW e \in H!found, NEW r,
         r = H!Record(e, e \in reports)
  PROVE  RecordHolds(r, e, H!Members(reports, best))
<1>1. /\ r.id = H!violation_id(e) /\ r.vehicle = e.vehicle /\ r.type = e.type /\ r.key = e.key
      /\ r.plate = H!Plate(e.vehicle)
      /\ r.plateCrop = IF H!WithPlate(e.vehicle) = {} THEN None
                       ELSE H!PlatePath(H!violation_id(e))
      /\ r.paths = {H!Path(e, name) : name \in H!Names(e, e \in reports) \ {<<"plate.png", 0>>}}
  BY DEF H!Record
<1>2. ASSUME NEW p \in r.paths
      PROVE  p \in DOMAIN H!Members(reports, best) /\ p[1] = r.id
  <2>1. PICK name \in H!Names(e, e \in reports) : p = H!Path(e, name)
    BY <1>1, <1>2
  <2> QED
    BY <1>1, <2>1, MembersAre DEF H!Path
<1>3. ASSUME r.plateCrop # None
      PROVE  /\ r.plateCrop = H!PlatePath(r.id)
             /\ r.plateCrop \in DOMAIN H!Members(reports, best)
  <2>1. r.plateCrop = H!PlatePath(r.id) /\ H!WithPlate(e.vehicle) # {}
    BY <1>1, <1>3
  <2>2. <<"plate.png", 0>> \in H!Names(e, e \in reports)
    BY <2>1 DEF H!Names
  <2>3. H!PlatePath(r.id) = H!Path(e, <<"plate.png", 0>>)
    BY <1>1 DEF H!PlatePath, H!Path
  <2> QED
    BY <2>1, <2>2, <2>3, MembersAre
<1> QED
  BY <1>1, <1>2, <1>3 DEF RecordHolds, H!violation_id, H!Plate

\* The video is processed: the clips are loose, among whatever else is there.
LEMMA RecordsProcess == RecordBounds /\ RecordsInv /\ H!Process => RecordsInv'
<1>. SUFFICES ASSUME RecordBounds, RecordsInv, H!Process PROVE RecordsInv'
  OBVIOUS
<1>. USE DEF RecordsInv
<1>1. PICK rendered \in SUBSET outcome'.found :
        recordsFiles' = H!Over(recordsFiles, H!Loose(rendered))
  BY DEF H!Process
<1>2. /\ recordsPhase = "process" /\ outcome' \in Outcomes
      /\ recordsPhase' = IF outcome'.found = {} THEN "unpack" ELSE "export"
      /\ UNCHANGED <<track, attempt, recordsBundle, clips, recordsPlates, posted>>
  BY DEF H!Process
<1>3. AttemptInv' /\ MadeInv'
  BY <1>2 DEF AttemptInv, MadeInv, H!found
<1>4. BundleInv'
  BY <1>2 DEF BundleInv, RecordInv, H!PlatePath, H!Torn, H!NoBundle, H!Nothing, H!Events
<1>5. FilesInv'
  <2>1. \A p \in DOMAIN H!Loose(rendered) : Of(H!Loose(rendered)[p], p)
    BY LooseOf
  <2>2. \A p \in DOMAIN recordsFiles' : Of(recordsFiles'[p], p)
    <3>. DEFINE f == recordsFiles
                g == H!Loose(rendered)
    <3>1. \A p \in DOMAIN f : Of(f[p], p)
      BY DEF FilesInv
    <3>. HIDE DEF f, g
    <3>2. /\ DOMAIN H!Over(f, g) = DOMAIN f \cup DOMAIN g
          /\ \A x \in DOMAIN g : H!Over(f, g)[x] = g[x]
          /\ \A x \in DOMAIN f \ DOMAIN g : H!Over(f, g)[x] = f[x]
      BY OverIs
    <3>3. \A p \in DOMAIN H!Over(f, g) : Of(H!Over(f, g)[p], p)
      BY <2>1, <3>1, <3>2 DEF g
    <3> QED
      BY <1>1, <3>3 DEF f, g
  <2> QED
    BY <1>2, <2>2 DEF FilesInv
<1>6. PostedInv'
  BY <1>2 DEF PostedInv
<1> QED
  BY <1>2, <1>3, <1>4, <1>5, <1>6

\* What it found is exported: the bundle is this attempt's.
LEMMA RecordsExport == RecordBounds /\ RecordsInv /\ H!Export => RecordsInv'
<1>. SUFFICES ASSUME RecordBounds, RecordsInv, H!Export PROVE RecordsInv'
  OBVIOUS
<1>. USE DEF RecordsInv
<1>1. PICK best, reports : recordsBundle' =
        [members |-> H!Members(reports, best),
         records |-> {H!Record(e, e \in reports) : e \in H!found},
         made |-> attempt]
  BY DEF H!Export
<1>2. /\ recordsPhase = "export" /\ recordsPhase' = "unpack"
      /\ UNCHANGED <<outcome, track, attempt, recordsFiles, clips, recordsPlates, posted>>
  BY DEF H!Export
<1>3. /\ recordsBundle'.members = H!Members(reports, best)
      /\ recordsBundle'.records = {H!Record(e, e \in reports) : e \in H!found}
      /\ recordsBundle'.made = attempt
  BY <1>1
<1>4. /\ attempt \in Nat /\ attempt # None
      /\ outcome \in Outcomes /\ H!found # {} /\ H!found \subseteq H!Events
  BY <1>2 DEF AttemptInv, RecordBounds, H!found
<1>5. \A e \in H!found : e = [vehicle |-> e.vehicle, type |-> e.type, key |-> e.key]
  BY <1>4 DEF H!Events
<1>6. ASSUME NEW r \in recordsBundle'.records
      PROVE  \E e \in H!found :
               r = H!Record(e, e \in reports) /\ RecordHolds(r, e, H!Members(reports, best))
  <2>1. PICK e \in H!found : r = H!Record(e, e \in reports)
    BY <1>3, <1>6
  <2> QED
    BY <2>1, RecordIs
<1>7. BundleInv'
  <2>1. \A p \in DOMAIN H!Members(reports, best) :
          /\ Of(H!Members(reports, best)[p], p) /\ p[2] \notin {"loose.mp4", "clip.mp4"}
          /\ H!Members(reports, best)[p].made = attempt
    BY MembersOf
  <2>2. ASSUME NEW r \in recordsBundle'.records
        PROVE  RecordInv(r, H!Members(reports, best), attempt)
    <3>1. PICK e \in H!found : RecordHolds(r, e, H!Members(reports, best))
      BY <1>6, <2>2
    <3> QED
      BY <1>4, <1>5, <3>1 DEF RecordHolds, RecordInv
  <2>3. ASSUME NEW r \in recordsBundle'.records, NEW s \in recordsBundle'.records, r.id = s.id
        PROVE  r = s
    <3>1. PICK d \in H!found :
            /\ r = H!Record(d, d \in reports)
            /\ RecordHolds(r, d, H!Members(reports, best))
      BY <1>6, <2>3
    <3>2. PICK e \in H!found :
            /\ s = H!Record(e, e \in reports)
            /\ RecordHolds(s, e, H!Members(reports, best))
      BY <1>6, <2>3
    <3>3. d.vehicle = e.vehicle /\ d.type = e.type /\ d.key = e.key
      BY <2>3, <3>1, <3>2 DEF RecordHolds, H!violation_id
    <3>4. d = e
      BY <1>5, <3>3
    <3> QED
      BY <3>1, <3>2, <3>4
  <2> QED
    BY <1>3, <1>4, <2>1, <2>2, <2>3 DEF BundleInv, RecordInv, H!PlatePath, H!Events
<1>8. MadeInv'
  <2>1. ASSUME NEW r \in recordsBundle'.records
        PROVE  [vehicle |-> r.vehicle, type |-> r.type, key |-> r.key] \in H!found
    <3>1. PICK e \in H!found : RecordHolds(r, e, H!Members(reports, best))
      BY <1>6, <2>1
    <3> QED
      BY <1>5, <3>1 DEF RecordHolds
  <2>2. ASSUME NEW e \in H!found
        PROVE  \E r \in recordsBundle'.records :
                 r.vehicle = e.vehicle /\ r.type = e.type /\ r.key = e.key
    <3>1. PICK r : r = H!Record(e, e \in reports)
      OBVIOUS
    <3>2. RecordHolds(r, e, H!Members(reports, best))
      BY <3>1, RecordIs
    <3> QED
      BY <1>3, <3>1, <3>2 DEF RecordHolds
  <2>3. H!found' = H!found
    BY <1>2 DEF H!found
  <2>. HIDE DEF H!found
  <2> QED
    BY <1>2, <1>3, <1>4, <2>1, <2>2, <2>3 DEF MadeInv
<1>9. AttemptInv' /\ FilesInv' /\ PostedInv'
  BY <1>2 DEF AttemptInv, FilesInv, PostedInv
<1> QED
  BY <1>2, <1>7, <1>8, <1>9

\* The bundle is unpacked, the clips are moved into it and its plates are collected.
LEMMA RecordsUnpack == RecordsInv /\ H!Unpack => RecordsInv'
<1>. SUFFICES ASSUME RecordsInv, H!Unpack PROVE RecordsInv'
  OBVIOUS
<1>. USE DEF RecordsInv
<1>. DEFINE moved == {id \in H!Ids : H!LoosePath(id) \in DOMAIN recordsFiles}
            there == H!Over(recordsFiles, recordsBundle.members)
            picked == [p \in {H!ClipPath(id) : id \in moved} |->
                         recordsFiles[H!LoosePath(p[1])]]
            tree == H!Over(there, picked)
<1>1. /\ recordsPhase = "unpack" /\ recordsPhase' = "clips"
      /\ recordsBundle # H!Torn
      /\ UNCHANGED <<outcome, track, attempt, recordsBundle, posted>>
      /\ recordsFiles' = [p \in DOMAIN tree \ {H!LoosePath(id) : id \in moved} |-> tree[p]]
      /\ clips' = [id \in {i \in H!Ids : H!ClipPath(i) \in DOMAIN tree} |-> H!ClipPath(id)]
      /\ recordsPlates' =
           [id \in {r.id : r \in {q \in recordsBundle.records : q.plateCrop # None}} |->
               (CHOOSE r \in recordsBundle.records : r.id = id).plateCrop]
  BY DEF H!Unpack
<1>2. /\ \A p \in DOMAIN there : Of(there[p], p)
      /\ \A p \in DOMAIN recordsBundle.members :
           p \in DOMAIN there /\ there[p] = recordsBundle.members[p]
  <2>. DEFINE g == recordsBundle.members
  <2>1. \A p \in DOMAIN recordsFiles : Of(recordsFiles[p], p)
    BY DEF FilesInv
  <2>2. \A p \in DOMAIN g : Of(g[p], p)
    BY DEF BundleInv
  <2>. HIDE DEF g
  <2>3. /\ DOMAIN H!Over(recordsFiles, g) = DOMAIN recordsFiles \cup DOMAIN g
        /\ \A x \in DOMAIN g : H!Over(recordsFiles, g)[x] = g[x]
        /\ \A x \in DOMAIN recordsFiles \ DOMAIN g :
             H!Over(recordsFiles, g)[x] = recordsFiles[x]
    BY OverIs
  <2>4. there = H!Over(recordsFiles, g)
    BY DEF g
  <2>. HIDE DEF there
  <2>5. /\ \A p \in DOMAIN g : p \in DOMAIN there /\ there[p] = g[p]
        /\ \A p \in DOMAIN there : Of(there[p], p)
    BY <2>1, <2>2, <2>3, <2>4
  <2> QED
    BY <2>5 DEF g
<1>3. ASSUME NEW p \in DOMAIN picked PROVE Of(picked[p], p)
  <2>1. PICK id \in moved : p = H!ClipPath(id)
    BY <1>3
  <2>2. p[1] = id /\ p[2] = "clip.mp4"
    BY <2>1 DEF H!ClipPath
  <2>3. Of(recordsFiles[H!LoosePath(id)], H!LoosePath(id))
    BY DEF FilesInv
  <2>4. picked[p] = recordsFiles[H!LoosePath(id)]
    BY <2>2
  <2> QED
    BY <2>2, <2>3, <2>4 DEF Of, H!LoosePath
<1>4. /\ \A p \in DOMAIN tree : Of(tree[p], p)
      /\ \A p \in DOMAIN there : p[2] # "clip.mp4" => p \in DOMAIN tree /\ tree[p] = there[p]
  <2>0. \A p \in DOMAIN picked : p[2] = "clip.mp4"
    BY DEF H!ClipPath
  <2>. HIDE DEF there, picked
  <2>1. /\ DOMAIN H!Over(there, picked) = DOMAIN there \cup DOMAIN picked
        /\ \A x \in DOMAIN picked : H!Over(there, picked)[x] = picked[x]
        /\ \A x \in DOMAIN there \ DOMAIN picked : H!Over(there, picked)[x] = there[x]
    BY OverIs
  <2>2. tree = H!Over(there, picked)
    OBVIOUS
  <2>. HIDE DEF tree
  <2> QED
    BY <1>2, <1>3, <2>0, <2>1, <2>2
<1>6. \A p \in DOMAIN recordsBundle.members : p[2] \notin {"loose.mp4", "clip.mp4"}
  BY DEF BundleInv
<1>5. \A p \in DOMAIN recordsBundle.members :
        p \in DOMAIN tree /\ tree[p] = recordsBundle.members[p]
  <2>. HIDE DEF there, tree
  <2> QED
    BY <1>2, <1>4, <1>6
<1>. HIDE DEF there, picked, tree
<1>7. \A p \in DOMAIN tree :
        p[2] # "loose.mp4" => p \in DOMAIN recordsFiles' /\ recordsFiles'[p] = tree[p]
  <2>1. DOMAIN recordsFiles' = DOMAIN tree \ {H!LoosePath(id) : id \in moved}
    BY <1>1
  <2>2. \A id \in moved : H!LoosePath(id)[2] = "loose.mp4"
    BY DEF H!LoosePath
  <2>. HIDE DEF moved
  <2> QED
    BY <1>1, <2>1, <2>2
<1>8. FilesInv'
  <2>1. \A p \in DOMAIN recordsFiles' : Of(recordsFiles'[p], p)
    BY <1>1, <1>4
  <2>2. \A p \in DOMAIN recordsBundle'.members :
          p \in DOMAIN recordsFiles' /\ recordsFiles'[p] = recordsBundle'.members[p]
    BY <1>1, <1>5, <1>6, <1>7
  <2>3. ASSUME NEW id \in DOMAIN clips'
        PROVE  clips'[id] = H!ClipPath(id) /\ clips'[id] \in DOMAIN recordsFiles'
    BY <1>1, <1>7, <2>3 DEF H!ClipPath
  <2>4. ASSUME NEW id \in DOMAIN recordsPlates'
        PROVE  /\ recordsPlates'[id] = H!PlatePath(id)
               /\ recordsPlates'[id] \in DOMAIN recordsBundle'.members
    <3>1. PICK r \in recordsBundle.records : r.id = id /\ r.plateCrop # None
      BY <1>1, <2>4
    <3>2. (CHOOSE s \in recordsBundle.records : s.id = id) = r
      BY <3>1 DEF BundleInv
    <3>3. recordsPlates'[id] = r.plateCrop
      BY <1>1, <2>4, <3>2
    <3> QED
      BY <1>1, <3>1, <3>3 DEF BundleInv, RecordInv
  <2> QED
    BY <1>1, <2>1, <2>2, <2>3, <2>4 DEF FilesInv, H!ClipPath, H!PlatePath
<1>9. AttemptInv' /\ MadeInv'
  BY <1>1 DEF AttemptInv, BundleInv, MadeInv, H!found
<1>10. BundleInv' /\ PostedInv'
  BY <1>1 DEF BundleInv, RecordInv, PostedInv, H!PlatePath, H!Events, H!Torn, H!NoBundle,
              H!Nothing
<1> QED
  BY <1>1, <1>8, <1>9, <1>10

\* A torn bundle ends the drive.
LEMMA RecordsTorn == RecordsInv /\ H!UnpackFails => RecordsInv'
<1>. SUFFICES ASSUME RecordsInv, H!UnpackFails PROVE RecordsInv'
  OBVIOUS
<1>. USE DEF RecordsInv
<1>1. /\ recordsPhase = "unpack" /\ recordsPhase' = "failed"
      /\ recordsFiles' = H!Nothing /\ DOMAIN H!Nothing = {}
      /\ UNCHANGED <<outcome, track, attempt, recordsBundle, clips, recordsPlates, posted>>
  BY DEF H!UnpackFails, H!Nothing
<1>2. AttemptInv' /\ MadeInv' /\ FilesInv' /\ PostedInv'
  BY <1>1 DEF AttemptInv, MadeInv, FilesInv, PostedInv
<1>3. BundleInv'
  BY <1>1 DEF BundleInv, RecordInv, H!PlatePath, H!Events, H!Torn, H!NoBundle, H!Nothing
<1> QED
  BY <1>1, <1>2, <1>3

\* The clips are uploaded: each incident's own, or the head of the video.
LEMMA RecordsClips == RecordsInv /\ H!UploadClips => RecordsInv'
<1>. SUFFICES ASSUME RecordsInv, H!UploadClips PROVE RecordsInv'
  OBVIOUS
<1>. USE DEF RecordsInv
<1>1. /\ recordsPhase = "clips" /\ recordsPhase' = "plates"
      /\ clips' = [id \in H!Ids |-> IF id \in DOMAIN clips THEN recordsFiles[clips[id]]
                                    ELSE H!HeadCut]
      /\ UNCHANGED <<outcome, track, attempt, recordsFiles, recordsBundle,
                     recordsPlates, posted>>
  BY DEF H!UploadClips
<1>2. ASSUME NEW r \in recordsBundle.records
      PROVE  clips'[r.id] = H!HeadCut \/ Of(clips'[r.id], H!ClipPath(r.id))
  <2>1. r.id \in H!Ids
    BY DEF H!Ids
  <2>2. CASE r.id \in DOMAIN clips
    <3>1. clips'[r.id] = recordsFiles[clips[r.id]]
      BY <1>1, <2>1, <2>2
    <3>2. clips[r.id] = H!ClipPath(r.id) /\ clips[r.id] \in DOMAIN recordsFiles
      BY <1>1, <2>2 DEF FilesInv
    <3> QED
      BY <3>1, <3>2 DEF FilesInv
  <2>3. CASE r.id \notin DOMAIN clips
    BY <1>1, <2>1, <2>3
  <2> QED
    BY <2>2, <2>3
<1>3. FilesInv'
  BY <1>1, <1>2 DEF FilesInv, H!ClipPath, H!HeadCut, H!PlatePath
<1>4. AttemptInv' /\ MadeInv'
  BY <1>1 DEF AttemptInv, MadeInv, H!found
<1>5. BundleInv' /\ PostedInv'
  BY <1>1 DEF BundleInv, RecordInv, PostedInv, H!PlatePath, H!Events, H!Torn, H!NoBundle,
              H!Nothing
<1> QED
  BY <1>1, <1>3, <1>4, <1>5

\* The plates are uploaded, but for those that could not be.
LEMMA RecordsPlates == RecordsInv /\ H!UploadPlates => RecordsInv'
<1>. SUFFICES ASSUME RecordsInv, H!UploadPlates PROVE RecordsInv'
  OBVIOUS
<1>. USE DEF RecordsInv
<1>1. PICK uploaded \in SUBSET DOMAIN recordsPlates :
        /\ recordsPhase = "plates" /\ recordsPhase' = "post"
        /\ recordsPlates' = [id \in uploaded |-> recordsFiles[recordsPlates[id]]]
        /\ UNCHANGED <<outcome, track, attempt, recordsFiles,
                       recordsBundle, clips, posted>>
  BY DEF H!UploadPlates
<1>2. ASSUME NEW id \in uploaded
      PROVE  /\ Of(recordsPlates'[id], H!PlatePath(id))
             /\ recordsPlates'[id].made = recordsBundle.made
  <2>1. /\ recordsPlates[id] = H!PlatePath(id)
        /\ recordsPlates[id] \in DOMAIN recordsBundle.members
    BY <1>1 DEF FilesInv
  <2>2. recordsPlates'[id] = recordsBundle.members[H!PlatePath(id)]
    BY <1>1, <2>1 DEF FilesInv
  <2> QED
    BY <2>1, <2>2 DEF BundleInv
<1>3. FilesInv'
  BY <1>1, <1>2 DEF FilesInv, H!ClipPath, H!HeadCut, H!PlatePath
<1>4. AttemptInv' /\ MadeInv'
  BY <1>1 DEF AttemptInv, MadeInv, H!found
<1>5. BundleInv' /\ PostedInv'
  BY <1>1 DEF BundleInv, RecordInv, PostedInv, H!PlatePath, H!Events, H!Torn, H!NoBundle,
              H!Nothing
<1> QED
  BY <1>1, <1>3, <1>4, <1>5

\* What is told of a violation leads to it,
LEMMA PayloadIsTrue ==
  ASSUME RecordBounds, RecordsInv, recordsPhase = "post", NEW r \in recordsBundle.records,
         NEW p, p = H!Payload(r)
  PROVE  /\ Posted(p) /\ Found(p) /\ p.violationId = r.id
         /\ H!Incident(p) = [vehicle |-> r.vehicle, type |-> r.type, key |-> r.key]
<1>. USE DEF RecordsInv
<1>1. /\ p.vehicleId = r.vehicle /\ p.type = r.type /\ p.keyFrame = r.key
      /\ p.carId = IF r.plate # None THEN r.plate ELSE <<"vehicle", r.vehicle>>
      /\ p.videoClip = clips[r.id]
      /\ p.plateImage = IF r.id \in DOMAIN recordsPlates THEN recordsPlates[r.id] ELSE None
      /\ p.fix = H!fix_at(r.key) /\ p.evidence = r.paths /\ p.violationId = r.id
  BY DEF H!Payload
<1>2. /\ r.id = <<r.vehicle, r.type, r.key>>
      /\ [vehicle |-> r.vehicle, type |-> r.type, key |-> r.key] \in H!Events
      /\ r.plate \in {None, <<"plate", r.vehicle, recordsBundle.made>>}
      /\ \A q \in r.paths : q \in DOMAIN recordsBundle.members /\ q[1] = r.id
  BY DEF BundleInv, RecordInv
<1>3. r.id[1] = r.vehicle /\ r.id[2] = r.type /\ r.id[3] = r.key
  BY <1>2
<1>4. H!Incident(p) = [vehicle |-> r.vehicle, type |-> r.type, key |-> r.key]
  BY <1>1 DEF H!Incident
<1>5. p.videoClip = H!HeadCut \/ (H!Shows(p.videoClip, p) /\ p.videoClip.frame = p.keyFrame)
  <2>1. clips[r.id] = H!HeadCut \/ Of(clips[r.id], H!ClipPath(r.id))
    BY DEF FilesInv
  <2>2. H!ClipPath(r.id)[1] = r.id /\ H!ClipPath(r.id)[2] = "clip.mp4"
    BY DEF H!ClipPath
  <2> QED
    BY <1>1, <1>3, <2>1, <2>2 DEF Of, H!Shows
<1>6. ASSUME p.plateImage # None
      PROVE  /\ H!Shows(p.plateImage, p) /\ p.plateImage.what = "plate.png"
             /\ p.plateImage.made = recordsBundle.made
  <2>1. Of(p.plateImage, H!PlatePath(r.id)) /\ p.plateImage.made = recordsBundle.made
    BY <1>1, <1>6 DEF FilesInv
  <2>2. H!PlatePath(r.id)[1] = r.id /\ H!PlatePath(r.id)[2] = "plate.png"
    BY DEF H!PlatePath
  <2> QED
    BY <1>1, <1>3, <2>1, <2>2 DEF Of, H!Shows
<1>7. p.carId \in {<<"plate", p.vehicleId, recordsBundle.made>>, <<"vehicle", p.vehicleId>>}
  BY <1>1, <1>2
<1>8. r.key \in Nat /\ track \subseteq Nat
  <2>1. [vehicle |-> r.vehicle, type |-> r.type, key |-> r.key] \in H!Events
    BY <1>2
  <2>2. r.key \in KeyFrames
    BY <2>1 DEF H!Events
  <2> QED
    BY <2>2 DEF RecordBounds
<1>9. /\ (p.fix = None) = (track = {})
      /\ \A t \in track : H!Distance(p.fix, p.keyFrame) <= H!Distance(t, p.keyFrame)
  BY <1>1, <1>8, FixIsNearest DEF RecordBounds
<1>10. Found(p)
  <2>. SUFFICES ASSUME NEW path \in p.evidence
                PROVE  /\ path \in DOMAIN recordsFiles /\ H!Shows(recordsFiles[path], p)
                       /\ recordsFiles[path].made = recordsBundle.made
    BY DEF Found
  <2>1. path \in DOMAIN recordsBundle.members /\ path[1] = r.id
    BY <1>1, <1>2
  <2>2. path \in DOMAIN recordsFiles /\ recordsFiles[path] = recordsBundle.members[path]
    BY <2>1 DEF FilesInv
  <2>3. Of(recordsBundle.members[path], path)
        /\ recordsBundle.members[path].made = recordsBundle.made
    BY <2>1 DEF BundleInv
  <2> QED
    BY <1>1, <1>3, <2>1, <2>2, <2>3 DEF Of, H!Shows
<1> QED
  BY <1>1, <1>4, <1>5, <1>6, <1>7, <1>9, <1>10 DEF Posted

\* ... and stays so when it is posted.
LEMMA RecordsPost == RecordBounds /\ RecordsInv /\ H!PostViolation => RecordsInv'
<1>. SUFFICES ASSUME RecordBounds, RecordsInv, H!PostViolation PROVE RecordsInv'
  OBVIOUS
<1>. USE DEF RecordsInv
<1>1. PICK r \in recordsBundle.records :
        /\ recordsPhase = "post" /\ recordsPhase' = recordsPhase
        /\ posted' = posted \cup {H!Payload(r)}
        /\ UNCHANGED <<outcome, track, attempt, recordsFiles, recordsBundle, clips,
                       recordsPlates>>
  BY DEF H!PostViolation
<1>2. PICK p : p = H!Payload(r)
  OBVIOUS
<1>3. Posted(p) /\ Found(p) /\ posted' = posted \cup {p}
  BY <1>1, <1>2, PayloadIsTrue
<1>4. ASSUME NEW q \in posted' PROVE Posted(q) /\ Found(q)
  BY <1>1, <1>3, <1>4 DEF PostedInv
<1>5. ASSUME NEW q \in posted' PROVE Posted(q)' /\ Found(q)'
  BY <1>1, <1>4 DEF Posted, Found, H!Incident, H!Shows, H!HeadCut, H!Distance
<1>6. PostedInv'
  BY <1>1, <1>5 DEF PostedInv
<1>7. AttemptInv' /\ MadeInv' /\ FilesInv'
  BY <1>1 DEF AttemptInv, MadeInv, H!found, FilesInv, H!ClipPath, H!HeadCut, H!PlatePath
<1>8. BundleInv'
  BY <1>1 DEF BundleInv, RecordInv, H!PlatePath, H!Events, H!Torn, H!NoBundle, H!Nothing
<1> QED
  BY <1>1, <1>6, <1>7, <1>8

\* The drive is done when all is told; it may fail before; its files go.
LEMMA RecordsEnd == RecordBounds /\ RecordsInv /\ (H!Complete \/ H!ShipFails) => RecordsInv'
<1>. SUFFICES ASSUME RecordBounds, RecordsInv, H!Complete \/ H!ShipFails PROVE RecordsInv'
  OBVIOUS
<1>. USE DEF RecordsInv
<1>1. /\ recordsPhase \in {"clips", "post"} /\ recordsPhase' \in {"done", "failed"}
      /\ recordsFiles' = H!Nothing /\ DOMAIN H!Nothing = {}
      /\ UNCHANGED <<outcome, track, attempt, recordsBundle, clips, recordsPlates, posted>>
  BY DEF H!Complete, H!ShipFails, H!Nothing
<1>2. AttemptInv' /\ MadeInv' /\ FilesInv'
  BY <1>1 DEF AttemptInv, MadeInv, H!found, FilesInv
<1>3. BundleInv'
  BY <1>1 DEF BundleInv, RecordInv, H!PlatePath, H!Events, H!Torn, H!NoBundle, H!Nothing
<1>4. ASSUME recordsPhase' = "done", NEW r \in recordsBundle.records
      PROVE  \E p \in posted :
               /\ p.violationId = r.id
               /\ H!Incident(p) = [vehicle |-> r.vehicle, type |-> r.type, key |-> r.key]
  <2>1. recordsPhase = "post" /\ H!Payload(r) \in posted
    BY <1>4 DEF H!Complete, H!ShipFails
  <2>2. PICK p : p = H!Payload(r)
    OBVIOUS
  <2> QED
    BY <2>1, <2>2, PayloadIsTrue
<1>5. ASSUME NEW p \in posted PROVE Posted(p)'
  <2>1. Posted(p)
    BY DEF PostedInv
  <2> QED
    BY <1>1, <2>1 DEF Posted, H!Incident, H!Shows, H!HeadCut, H!Distance
<1>6. PostedInv'
  BY <1>1, <1>4, <1>5 DEF PostedInv, H!Incident
<1> QED
  BY <1>1, <1>2, <1>3, <1>6

\* The next attempt finds the files and the bundle of the one that was cut off, or nothing.
LEMMA RecordsCrash == RecordBounds /\ RecordsInv /\ H!Crash => RecordsInv'
<1>. SUFFICES ASSUME RecordBounds, RecordsInv, H!Crash PROVE RecordsInv'
  OBVIOUS
<1>. USE DEF RecordsInv
<1>1. /\ recordsPhase' = "process" /\ attempt' = attempt + 1 /\ posted' = {}
      /\ UNCHANGED track
      /\ \/ UNCHANGED <<recordsFiles, recordsBundle>>
         \/ recordsBundle' = H!Torn /\ UNCHANGED recordsFiles
         \/ recordsFiles' = H!Nothing /\ recordsBundle' = H!NoBundle
  BY DEF H!Crash
<1>2. /\ H!NoBundle.members = H!Nothing /\ H!NoBundle.records = {} /\ H!NoBundle.made = 0
      /\ H!Torn.members = H!Nothing /\ H!Torn.records = {} /\ H!Torn.made = None
      /\ DOMAIN H!Nothing = {} /\ None \notin Nat
  BY DEF H!NoBundle, H!Torn, H!Nothing, RecordBounds
<1>3. AttemptInv' /\ PostedInv'
  BY <1>1 DEF AttemptInv, PostedInv
<1>4. BundleInv'
  <2>1. CASE UNCHANGED recordsBundle
    BY <2>1 DEF BundleInv, RecordInv, H!PlatePath, H!Events, H!Torn, H!NoBundle, H!Nothing
  <2>2. CASE recordsBundle' \in {H!Torn, H!NoBundle}
    <3>1. /\ DOMAIN recordsBundle'.members = {} /\ recordsBundle'.records = {}
          /\ recordsBundle'.made = None => recordsBundle' = H!Torn
      BY <1>2, <2>2
    <3> QED
      BY <3>1 DEF BundleInv, H!Torn, H!NoBundle, H!Nothing
  <2> QED
    BY <1>1, <2>1, <2>2
<1>5. MadeInv'
  BY <1>1, <1>2 DEF MadeInv, AttemptInv
<1>6. FilesInv'
  BY <1>1, <1>2 DEF FilesInv
<1> QED
  BY <1>1, <1>3, <1>4, <1>5, <1>6

\* MCJourney takes the steps of ViolationRecords in its part, and no others.
LEMMA RecordsPart ==
    /\ Init /\ part = "records" => H!Init
    /\ [Next]_vars => part' = part /\ (part = "records" => [H!Next]_H!vars)
BY DEF Init, Next, vars, recordsVars, H!vars

\* The invariant of the records, for any drive, whatever is cut off and tried again.
THEOREM RecordsCorrect == RecordBounds /\ Spec => [](part = "records" => RecordsInv)
<1>. SUFFICES ASSUME RecordBounds PROVE Spec => [](part = "records" => RecordsInv)
  OBVIOUS
<1>1. Init => (part = "records" => RecordsInv)
  BY RecordsPart, RecordsInit
<1>2. RecordsInv /\ UNCHANGED H!vars => RecordsInv'
  <2>. SUFFICES ASSUME RecordsInv, UNCHANGED H!vars PROVE RecordsInv'
    OBVIOUS
  <2>1. UNCHANGED <<outcome, track, recordsPhase, attempt, recordsFiles, recordsBundle, clips,
                    recordsPlates, posted>>
    BY DEF H!vars
  <2>2. AttemptInv' /\ MadeInv' /\ FilesInv'
    BY <2>1 DEF RecordsInv, AttemptInv, MadeInv, H!found, FilesInv, H!ClipPath, H!HeadCut,
                H!PlatePath
  <2>3. BundleInv'
    BY <2>1 DEF RecordsInv, BundleInv, RecordInv, H!PlatePath, H!Events, H!Torn, H!NoBundle,
                H!Nothing
  <2>4. ASSUME NEW p \in posted PROVE Posted(p)'
    <3>1. Posted(p)
      BY DEF RecordsInv, PostedInv
    <3> QED
      BY <2>1, <3>1 DEF Posted, H!Incident, H!Shows, H!HeadCut, H!Distance
  <2>5. PostedInv'
    BY <2>1, <2>4 DEF RecordsInv, PostedInv, Found, H!Incident, H!Shows
  <2> QED
    BY <2>1, <2>2, <2>3, <2>5 DEF RecordsInv
<1>3. (part = "records" => RecordsInv) /\ [Next]_vars => (part = "records" => RecordsInv)'
  BY <1>2, RecordsPart, RecordsProcess, RecordsExport, RecordsUnpack, RecordsTorn,
     RecordsClips, RecordsPlates, RecordsPost, RecordsEnd, RecordsCrash DEF H!Next
<1> QED
  BY <1>1, <1>3, PTL DEF Spec

\* What a record leads to is of its own incident: its clip, unless it is the head of the
\* video, its plate picture, its car and its evidence, all but the clip from the attempt that
\* wrote the bundle; its location is the nearest there is. A drive that is done has told of
\* the whole of one bundle: of what this attempt found if it found anything, and otherwise
\* of what an attempt that was cut off before left behind.
THEOREM RecordsAreTrue == RecordBounds /\ Spec => [](part = "records" => H!RecordsTrue)
<1>. SUFFICES ASSUME RecordBounds PROVE Spec => [](part = "records" => H!RecordsTrue)
  OBVIOUS
<1>1. RecordsInv => H!IncidentsTrue
  <2>. SUFFICES ASSUME RecordsInv PROVE H!IncidentsTrue
    OBVIOUS
  <2>1. \A p \in posted : Posted(p) /\ (recordsPhase = "post" => Found(p))
    BY DEF RecordsInv, PostedInv
  <2> QED
    BY <2>1 DEF Posted, Found, H!IncidentsTrue
<1>2. RecordsInv => H!ToldInFull
  <2>. SUFFICES ASSUME RecordsInv, recordsPhase = "done"
                PROVE  /\ {p.violationId : p \in posted} = H!Ids
                       /\ IF H!found # {}
                          THEN /\ recordsBundle.made = attempt
                               /\ {H!Incident(p) : p \in posted} = H!found
                          ELSE recordsBundle.made < attempt
    BY DEF H!ToldInFull
  <2>. USE DEF RecordsInv
  <2>1. \A p \in posted : \E r \in recordsBundle.records :
          /\ p.violationId = r.id
          /\ H!Incident(p) = [vehicle |-> r.vehicle, type |-> r.type, key |-> r.key]
    BY DEF PostedInv, Posted
  <2>2. \A r \in recordsBundle.records : \E p \in posted :
          /\ p.violationId = r.id
          /\ H!Incident(p) = [vehicle |-> r.vehicle, type |-> r.type, key |-> r.key]
    BY DEF PostedInv
  <2>3. {p.violationId : p \in posted} = H!Ids
    BY <2>1, <2>2 DEF H!Ids
  <2>4. CASE H!found = {}
    BY <2>3, <2>4 DEF MadeInv, AttemptInv
  <2>5. CASE H!found # {}
    <3>1. /\ recordsBundle.made = attempt
          /\ \A r \in recordsBundle.records :
               [vehicle |-> r.vehicle, type |-> r.type, key |-> r.key] \in H!found
          /\ \A e \in H!found : \E r \in recordsBundle.records :
               r.vehicle = e.vehicle /\ r.type = e.type /\ r.key = e.key
      BY <2>5 DEF MadeInv
    <3>2. \A e \in H!found : e = [vehicle |-> e.vehicle, type |-> e.type, key |-> e.key]
      <4>1. H!found \subseteq H!Events
        BY DEF AttemptInv, RecordBounds, H!found
      <4> QED
        BY <4>1 DEF H!Events
    <3>3. \A p \in posted : H!Incident(p) \in H!found
      BY <2>1, <3>1
    <3>4. \A e \in H!found : \E p \in posted : H!Incident(p) = e
      <4>. TAKE e \in H!found
      <4>1. PICK r \in recordsBundle.records :
              r.vehicle = e.vehicle /\ r.type = e.type /\ r.key = e.key
        BY <3>1
      <4>2. e = [vehicle |-> r.vehicle, type |-> r.type, key |-> r.key]
        BY <3>2, <4>1
      <4> QED
        BY <2>2, <4>2
    <3> QED
      BY <2>3, <2>5, <3>1, <3>3, <3>4
  <2> QED
    BY <2>4, <2>5
<1> QED
  BY <1>1, <1>2, RecordsCorrect, PTL DEF H!RecordsTrue

\* The evidence of a violation is the best there was of its own vehicle: the sharpest crops
\* survive the buffer until they are read, the violations of a vehicle name one plate, and
\* the pictures, the clip, the plate and the place a record leads to are of its incident, be it
\* one that an attempt before has found.
THEOREM EvidenceIsTrue == PlateBounds /\ RecordBounds /\ Spec => []EvidenceTrue
<1>. SUFFICES ASSUME PlateBounds, RecordBounds PROVE Spec => []EvidenceTrue
  OBVIOUS
<1>1. /\ part = "plate" => P!EvidenceKept
      /\ part = "records" => H!RecordsTrue
      => EvidenceTrue
  BY DEF EvidenceTrue
<1> QED
  BY <1>1, EvidenceIsKept, RecordsAreTrue, PTL

=============================================================================
