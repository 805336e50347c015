----------------------------- MODULE DetectProofs -----------------------------
(***************************************************************************)
(* Theorems about the components of MCDetect that decide on a violation: what *)
(* is remembered of the paint, which frames make one incident and what        *)
(* confirms a crossing, for any values of their constants within the bounds   *)
(* each theorem names.                                                        *)
(***************************************************************************)
EXTENDS MCDetect, TLAPS, FiniteSetTheorems, SequenceTheorems, WellFoundedInduction

-----------------------------------------------------------------------------
(* Numbers and sets *)

\* A set of natural numbers has a least one: where the models CHOOSE the least of some
\* numbers, there is one to choose.
LEMMA LeastNatural ==
  ASSUME NEW ns, ns \subseteq Nat, ns # {} PROVE \E m \in ns : \A n \in ns : m <= n
<1>. DEFINE Below == OpToRel(<, Nat)
<1>1. IsWellFoundedOn(Below, Nat)
  BY NatLessThanWellFounded
<1>2. \A a, b \in Nat : <<a, b>> \in Below <=> a < b
  BY DEF OpToRel
<1>. HIDE DEF Below
<1>3. PICK m \in ns : \A n \in ns : ~(<<n, m>> \in Below)
  BY <1>1, WFMin
<1>4. \A n \in ns : ~(n < m)
  BY <1>2, <1>3, Zenon
<1> QED
  BY <1>4

\* A finite set of numbers has a largest one.
LEMMA FiniteLargest ==
  ASSUME NEW ns, ns \subseteq Int, ns # {}, IsFiniteSet(ns)
  PROVE  \E m \in ns : \A n \in ns : n <= m
<1>. DEFINE above(n) == {k \in ns : k > n}
            sizes == {Cardinality(above(n)) : n \in ns}
<1>1. \A n \in ns : IsFiniteSet(above(n)) /\ Cardinality(above(n)) \in Nat
  <2>1. \A n \in ns : above(n) \subseteq ns
    OBVIOUS
  <2>. HIDE DEF above
  <2> QED
    BY <2>1, FS_Subset, FS_CardinalityType
<1>2. PICK m \in ns : \A n \in ns : Cardinality(above(m)) <= Cardinality(above(n))
  <2>1. sizes \subseteq Nat /\ sizes # {}
    BY <1>1
  <2>2. PICK s \in sizes : \A k \in sizes : s <= k
    BY <2>1, LeastNatural
  <2> QED
    BY <2>2
<1>3. ASSUME NEW n \in ns, n > m PROVE FALSE
  <2>1. above(n) \subseteq above(m) /\ n \in above(m) /\ n \notin above(n)
    <3>1. n \in Int /\ m \in Int /\ \A k \in ns : k \in Int
      OBVIOUS
    <3>2. \A k \in ns : k > n => k > m
      BY <1>3, <3>1
    <3>3. n > m /\ ~(n > n)
      BY <1>3, <3>1
    <3> QED
      BY <3>2, <3>3
  <2>. HIDE DEF above
  <2>2. Cardinality(above(n)) <= Cardinality(above(m)) /\ above(n) # above(m)
    BY <1>1, <2>1, FS_Subset
  <2>3. Cardinality(above(n)) # Cardinality(above(m))
    BY <1>1, <2>1, <2>2, FS_Subset
  <2> QED
    BY <1>1, <1>2, <2>2, <2>3
<1> QED
  BY <1>3

-----------------------------------------------------------------------------
(* Runs of frames, and the incidents they are merged into *)

\* The maximal runs of a set of frames, and the merging of such runs, as ShoulderLine and
\* CrossingChannels have them.
RunsOf(ns) == {r \in [start : ns, end : ns] :
    /\ r.start - 1 \notin ns /\ r.end + 1 \notin ns
    /\ r.start <= r.end /\ r.start..r.end \subseteq ns}
Openers(rs) == {r \in rs : \A q \in rs : q.start < r.start => r.start - q.end > Cooldown}
GroupOf(rs, o) == {r \in rs :
    /\ o.start <= r.start
    /\ \A p \in Openers(rs) : o.start < p.start => r.start < p.start}
Largest(ns) == CHOOSE x \in ns : \A y \in ns : x >= y
MergedOf(rs) ==
    {[start |-> o.start, end |-> Largest({r.end : r \in GroupOf(rs, o)})] : o \in Openers(rs)}

\* Where runs may be.
RunsIn(rs, n) == \A r \in rs : r.start \in 1..n /\ r.end \in 1..n

\* Numbers that go no further than some number have a largest one.
LEMMA LargestIs ==
  ASSUME NEW ns, ns \subseteq Int, ns # {}, NEW b \in Int, \A x \in ns : x <= b
  PROVE  Largest(ns) \in ns /\ \A x \in ns : x <= Largest(ns)
<1>. DEFINE short == {k \in Nat : \E x \in ns : k = b - x}
<1>1. \A x \in ns : x \in Int /\ b - x \in short
  OBVIOUS
<1>2. PICK k \in short : \A l \in short : k <= l
  <2>1. short # {} /\ short \subseteq Nat
    BY <1>1
  <2>. HIDE DEF short
  <2> QED
    BY <2>1, LeastNatural
<1>3. PICK m \in ns : k = b - m
  OBVIOUS
<1>4. \A x \in ns : k <= b - x
  BY <1>1, <1>2
<1>. HIDE DEF short
<1>5. \A x \in ns : m >= x
  BY <1>1, <1>3, <1>4
<1>6. Largest(ns) \in ns /\ \A x \in ns : Largest(ns) >= x
  BY <1>3, <1>5 DEF Largest
<1> QED
  BY <1>1, <1>6

\* A run that opens a group is in it, and every run is in the group of one that does.
LEMMA EveryRunGrouped ==
  ASSUME NEW n \in Nat, NEW rs, RunsIn(rs, n), Cooldown \in Int
  PROVE  /\ \A o \in Openers(rs) : o \in GroupOf(rs, o)
         /\ \A r \in rs : \E o \in Openers(rs) : r \in GroupOf(rs, o)
<1>1. \A r \in rs : r.start \in 1..n /\ r.end \in 1..n
  BY DEF RunsIn
<1>2. \A o \in Openers(rs) : o \in GroupOf(rs, o)
  BY <1>1 DEF Openers, GroupOf
<1>3. ASSUME NEW r \in rs PROVE \E o \in Openers(rs) : r \in GroupOf(rs, o)
  <2>. DEFINE firsts == {q.start : q \in {p \in rs : p.start <= r.start}}
              opens == {o.start : o \in {p \in Openers(rs) : p.start <= r.start}}
  <2>1. firsts \subseteq Nat /\ firsts # {}
    BY <1>1
  <2>2. PICK f \in firsts : \A k \in firsts : f <= k
    BY <2>1, LeastNatural
  <2>3. PICK q \in rs : q.start = f /\ q.start <= r.start
    OBVIOUS
  <2>4. \A p \in rs : ~(p.start < q.start)
    <3>1. \A p \in rs : p.start <= r.start => p.start \in firsts
      OBVIOUS
    <3>. HIDE DEF firsts
    <3> QED
      BY <1>1, <2>2, <2>3, <3>1
  <2>5. q \in Openers(rs)
    BY <2>3, <2>4 DEF Openers
  <2>6. opens # {} /\ opens \subseteq Int /\ \A x \in opens : x <= n
    BY <1>1, <2>3, <2>5 DEF Openers
  <2>7. PICK s \in opens : \A x \in opens : x <= s
    <3>. HIDE DEF opens
    <3> QED
      BY <2>6, n \in Int, LargestIs
  <2>8. PICK o \in Openers(rs) : o.start = s /\ o.start <= r.start
    OBVIOUS
  <2>9. \A p \in Openers(rs) : o.start < p.start => r.start < p.start
    <3>1. \A p \in Openers(rs) : p.start \in 1..n /\ (p.start <= r.start => p.start <= s)
      BY <1>1, <2>7 DEF Openers
    <3> QED
      BY <1>1, <2>8, <3>1
  <2> QED
    BY <2>8, <2>9 DEF GroupOf
<1> QED
  BY <1>2, <1>3

\* An incident starts with a run that opens a group and ends with the last to end of it.
LEMMA MergedIs ==
  ASSUME NEW n \in Nat, NEW rs, RunsIn(rs, n), Cooldown \in Int, NEW i \in MergedOf(rs)
  PROVE  /\ i.start \in 1..n /\ i.end \in 1..n
         /\ \E o \in Openers(rs) : /\ i.start = o.start /\ o.end <= i.end
                                   /\ \A r \in GroupOf(rs, o) : r.end <= i.end
         /\ \E l \in rs : /\ i.end = l.end /\ i.start <= l.start
                          /\ \A p \in Openers(rs) : i.start < p.start => l.start < p.start
<1>1. PICK o \in Openers(rs) :
         i = [start |-> o.start, end |-> Largest({r.end : r \in GroupOf(rs, o)})]
  BY DEF MergedOf
<1>. DEFINE ends == {r.end : r \in GroupOf(rs, o)}
<1>2. o \in GroupOf(rs, o) /\ \A r \in GroupOf(rs, o) : r \in rs /\ r.end \in 1..n
  BY EveryRunGrouped DEF GroupOf, RunsIn
<1>3. ends # {} /\ ends \subseteq Int /\ \A x \in ends : x <= n
  BY <1>2
<1>4. i.start = o.start /\ i.end = Largest(ends)
  BY <1>1
<1>5. i.end \in ends /\ \A x \in ends : x <= i.end
  <2>. HIDE DEF ends
  <2> QED
    BY <1>3, <1>4, LargestIs
<1>6. PICK l \in GroupOf(rs, o) : i.end = l.end
  BY <1>5
<1>7. \A r \in GroupOf(rs, o) : r.end <= i.end
  BY <1>5
<1>8. o.start \in 1..n
  BY DEF Openers, RunsIn
<1>. HIDE DEF ends
<1> QED
  BY <1>2, <1>4, <1>6, <1>7, <1>8 DEF GroupOf

\* Two incidents are further apart than the cooldown.
LEMMA MergedApart ==
  ASSUME NEW n \in Nat, NEW rs, RunsIn(rs, n), Cooldown \in Int,
         NEW i \in MergedOf(rs), NEW j \in MergedOf(rs)
  PROVE  /\ i.start < j.start => j.start - i.end > Cooldown
         /\ i.start = j.start => i = j
<1>1. ASSUME i.start < j.start PROVE j.start - i.end > Cooldown
  <2>1. PICK o \in Openers(rs) : j.start = o.start
    BY MergedIs
  <2>2. PICK l \in rs : /\ i.end = l.end
                        /\ \A p \in Openers(rs) : i.start < p.start => l.start < p.start
    BY MergedIs
  <2>3. l.start < o.start
    BY <1>1, <2>1, <2>2
  <2> QED
    BY <2>1, <2>2, <2>3 DEF Openers
<1>2. ASSUME i.start = j.start PROVE i = j
  <2>1. PICK o \in Openers(rs) :
           i = [start |-> o.start, end |-> Largest({r.end : r \in GroupOf(rs, o)})]
    BY DEF MergedOf
  <2>2. PICK p \in Openers(rs) :
           j = [start |-> p.start, end |-> Largest({r.end : r \in GroupOf(rs, p)})]
    BY DEF MergedOf
  <2>3. o.start = p.start
    BY <1>2, <2>1, <2>2
  <2>4. GroupOf(rs, o) = GroupOf(rs, p)
    BY <2>3 DEF GroupOf
  <2> QED
    BY <2>1, <2>2, <2>3, <2>4
<1> QED
  BY <1>1, <1>2

\* Every run lies in an incident.
LEMMA MergedCovers ==
  ASSUME NEW n \in Nat, NEW rs, RunsIn(rs, n), Cooldown \in Int, NEW r \in rs
  PROVE  \E i \in MergedOf(rs) : i.start <= r.start /\ r.end <= i.end
<1>1. PICK o \in Openers(rs) : r \in GroupOf(rs, o)
  BY EveryRunGrouped
<1>. DEFINE ends == {q.end : q \in GroupOf(rs, o)}
            i == [start |-> o.start, end |-> Largest(ends)]
<1>2. i \in MergedOf(rs)
  BY DEF MergedOf
<1>3. ends # {} /\ ends \subseteq Int /\ r.end \in ends /\ \A x \in ends : x <= n
  BY <1>1 DEF GroupOf, RunsIn
<1>4. r.end <= Largest(ends)
  <2>. HIDE DEF ends
  <2> QED
    BY <1>3, n \in Int, LargestIs
<1>5. o.start <= r.start
  BY <1>1 DEF GroupOf
<1>6. i.start = o.start /\ i.end = Largest(ends)
  OBVIOUS
<1>. HIDE DEF ends, i
<1> QED
  BY <1>2, <1>4, <1>5, <1>6

-----------------------------------------------------------------------------
(* GhostMask *)

\* A ghost lives for a frame at least, as ttl0 does.
MaskBounds ==
    /\ MaskFrames \in Nat /\ GhostTTL \in Nat \ {0}
    /\ Drift \subseteq Int /\ Columns \subseteq Int

\* A ghost is as young as the sight of the line it was taken from, and the ghost of a touch
\* is as old as the touch and has not moved off the line.
MaskInv ==
    /\ sinceLine \in Nat /\ sinceTouch \in Nat
    /\ maskGhost = G!NoGhost \/ maskGhost \in [ttl : 1..GhostTTL, shift : Int]
    /\ maskGhost.ttl > 0 => sinceLine + maskGhost.ttl <= GhostTTL
    /\ hit => sinceLine < GhostTTL
    /\ sinceTouch < GhostTTL =>
           hit /\ maskGhost.ttl = GhostTTL - sinceTouch /\ maskGhost.shift = 0

\* A vehicle on the line hits a ghost that has not moved.
LEMMA StillGhostHits ==
  ASSUME NEW v \in Int, NEW g, g.ttl > 0, g.shift = 0, NEW surface, G!OnLine(v)
  PROVE  G!Hits(v, g, surface)
<1>1. G!Mask(g, surface) = G!Line
  BY DEF G!Mask, G!Line
<1> QED
  BY <1>1 DEF G!Hits, G!OnLine

\* Paint in reach of a vehicle's tires, or under its verdict segment, is paint under it.
LEMMA NearIsUnder ==
  ASSUME NEW v \in Int, NEW surface,
         G!TriggerPoints(v) \cap surface # {} \/ G!VerdictSegment(v) \cap surface # {}
  PROVE  surface \cap (v - 2 .. v + 2) # {}
BY DEF G!TriggerPoints, G!VerdictSegment

\* A step keeps the invariant.
LEMMA MaskStep == MaskBounds /\ MaskInv /\ [G!Next]_G!vars => MaskInv'
<1>. SUFFICES ASSUME MaskBounds, MaskInv, [G!Next]_G!vars PROVE MaskInv'
  OBVIOUS
<1>. USE DEF MaskBounds
<1>1. CASE UNCHANGED G!vars
  BY <1>1 DEF G!vars, MaskInv, G!NoGhost
<1>2. CASE G!Next
  <2>. PICK s \in G!Sightings, v \in Columns \cup {G!Away}, dx \in Drift :
         LET surface == G!Surface(s)
             g == IF v = G!Away THEN G!Aged(dx) ELSE G!Captured(v, surface, dx)
             h == v # G!Away /\ G!Hits(v, g, surface)
         IN  /\ hit' = h
             /\ maskGhost' = IF v = G!Away THEN (IF g.ttl <= 0 THEN G!NoGhost ELSE g)
                             ELSE G!Kept(g, h)
             /\ sinceLine' = IF v # G!Away /\ surface \cap (v - 2 .. v + 2) # {} THEN 0
                             ELSE IF sinceLine = G!Long THEN G!Long ELSE sinceLine + 1
             /\ sinceTouch' =
                  IF v = G!Away \/ ~G!OnLine(v) \/ dx # 0 THEN G!Long
                  ELSE IF G!Touches(v, surface) /\ ~hit /\ maskGhost = G!NoGhost THEN 0
                  ELSE IF sinceTouch = G!Long THEN G!Long ELSE sinceTouch + 1
    BY <1>2 DEF G!Next, G!Step
  <2>. DEFINE surface == G!Surface(s)
              g == IF v = G!Away THEN G!Aged(dx) ELSE G!Captured(v, surface, dx)
              h == v # G!Away /\ G!Hits(v, g, surface)
              under == v # G!Away /\ surface \cap (v - 2 .. v + 2) # {}
              still == ~(v = G!Away \/ ~G!OnLine(v) \/ dx # 0)
              fresh == G!Touches(v, surface) /\ ~hit /\ maskGhost = G!NoGhost
  <2>1. /\ hit' = h
        /\ maskGhost' = IF v = G!Away THEN (IF g.ttl <= 0 THEN G!NoGhost ELSE g)
                        ELSE G!Kept(g, h)
        /\ sinceLine' = IF under THEN 0
                        ELSE IF sinceLine = G!Long THEN G!Long ELSE sinceLine + 1
        /\ sinceTouch' = IF ~still THEN G!Long ELSE IF fresh THEN 0
                         ELSE IF sinceTouch = G!Long THEN G!Long ELSE sinceTouch + 1
    OBVIOUS
  <2>2. v \in Int /\ dx \in Int /\ G!Long \in Nat /\ G!Long >= GhostTTL
    BY DEF G!Away, G!Long
  <2>3. /\ sinceLine' \in Nat /\ sinceTouch' \in Nat
        /\ sinceLine < GhostTTL => sinceLine' <= sinceLine + 1
    BY <2>1, <2>2 DEF MaskInv
  <2>4. \/ v # G!Away /\ G!TriggerPoints(v) \cap surface # {} /\ maskGhost.ttl = G!Gone
           /\ g = [ttl |-> GhostTTL, shift |-> 0] 
        \/ maskGhost = G!NoGhost /\ g = G!NoGhost
        \/ /\ maskGhost \in [ttl : 1..GhostTTL, shift : Int]
           /\ g = [ttl |-> maskGhost.ttl - 1, shift |-> maskGhost.shift + dx]
    BY <2>2 DEF MaskInv, G!Captured, G!Aged, G!NoGhost, G!Gone
  <2>5. under => sinceLine' = 0
    BY <2>1
  <2>6. g.ttl \in Int /\ g.ttl <= GhostTTL /\ (g.ttl > 0 => sinceLine' + g.ttl <= GhostTTL)
    <3>1. CASE v # G!Away /\ G!TriggerPoints(v) \cap surface # {}
               /\ g = [ttl |-> GhostTTL, shift |-> 0]
      BY <3>1, <2>2, <2>5, NearIsUnder
    <3>2. CASE g = G!NoGhost
      BY <3>2 DEF G!NoGhost, G!Gone
    <3>3. CASE /\ maskGhost \in [ttl : 1..GhostTTL, shift : Int]
               /\ g = [ttl |-> maskGhost.ttl - 1, shift |-> maskGhost.shift + dx]
      BY <3>3, <2>3 DEF MaskInv
    <3> QED
      BY <2>4, <3>1, <3>2, <3>3
  <2>7. h => sinceLine' < GhostTTL
    <3>1. CASE g.ttl > 0
      BY <3>1, <2>3, <2>6
    <3>2. CASE ~(g.ttl > 0)
      <4>1. h => G!VerdictSegment(v) \cap surface # {}
        BY <3>2 DEF G!Hits, G!Mask
      <4> QED
        BY <4>1, <2>2, <2>5, NearIsUnder
    <3> QED
      BY <3>1, <3>2
  <2>8. g.ttl > 0 => g \in [ttl : 1..GhostTTL, shift : Int]
    BY <2>2, <2>4, <2>6 DEF G!NoGhost, G!Gone
  <2>9. maskGhost' = G!NoGhost \/ (maskGhost' = g /\ g.ttl > 0)
    BY <2>1, <2>6 DEF G!Kept
  <2>10. sinceTouch' < GhostTTL => /\ h /\ g.ttl > 0 /\ maskGhost' = g
                                   /\ g.ttl = GhostTTL - sinceTouch' /\ g.shift = 0
    <3>. SUFFICES ASSUME sinceTouch' < GhostTTL
                  PROVE  /\ h /\ g.ttl > 0 /\ maskGhost' = g
                         /\ g.ttl = GhostTTL - sinceTouch' /\ g.shift = 0
      OBVIOUS
    <3>1. still /\ v # G!Away /\ G!OnLine(v) /\ dx = 0
      BY <2>1, <2>2
    <3>2. g.ttl = GhostTTL - sinceTouch' /\ g.shift = 0 /\ g.ttl > 0
      <4>1. CASE fresh
        BY <4>1, <3>1, <2>1 DEF G!Captured, G!Touches, G!NoGhost, G!Gone
      <4>2. CASE ~fresh
        <5>1. sinceTouch' = sinceTouch + 1 /\ sinceTouch < GhostTTL
          BY <4>2, <3>1, <2>1, <2>2 DEF MaskInv
        <5>2. maskGhost.ttl = GhostTTL - sinceTouch /\ maskGhost.shift = 0
          BY <5>1 DEF MaskInv
        <5>3. maskGhost.ttl # G!Gone /\ maskGhost.ttl > 1
          BY <5>1, <5>2 DEF MaskInv, G!Gone
        <5> QED
          BY <5>1, <5>2, <5>3, <3>1 DEF G!Captured, G!Aged, MaskInv
      <4> QED
        BY <4>1, <4>2
    <3>3. G!Hits(v, g, surface)
      BY <3>1, <3>2, <2>2, StillGhostHits
    <3> QED
      BY <3>1, <3>2, <3>3, <2>1, <2>6 DEF G!Kept
  <2>. HIDE DEF g, h, under, still, fresh, surface
  <2> QED
    BY <2>1, <2>3, <2>6, <2>7, <2>8, <2>9, <2>10 DEF MaskInv, G!NoGhost, G!Gone
<1> QED
  BY <1>1, <1>2

\* MCDetect takes the steps of GhostMask in its part, and no others.
LEMMA MaskPart ==
    /\ DriveInit /\ part = "mask" => G!Init
    /\ [DriveNext]_DriveVars => part' = part /\ (part = "mask" => [G!Next]_G!vars)
BY DEF DriveInit, DriveNext, DriveVars, maskVars, G!vars

\* The invariant of the ghost, whatever the lane model sees and wherever a car drives.
THEOREM MaskCorrect == MaskBounds /\ DriveSpec => [](part = "mask" => MaskInv)
<1>. SUFFICES ASSUME MaskBounds PROVE DriveSpec => [](part = "mask" => MaskInv)
  OBVIOUS
<1>1. G!Init => MaskInv
  BY DEF MaskBounds, G!Init, MaskInv, G!Long, G!NoGhost, G!Gone
<1>2. DriveInit => (part = "mask" => MaskInv)
  BY <1>1, MaskPart
<1>3. (part = "mask" => MaskInv) /\ [DriveNext]_DriveVars => (part = "mask" => MaskInv)'
  BY MaskPart, MaskStep
<1> QED
  BY <1>2, <1>3, PTL DEF DriveSpec

\* A vehicle that hides the line is judged against it from its first touch on and for the
\* life of a ghost, and no vehicle is found on a line that was not seen under it in that time.
THEOREM OcclusionIsBridged ==
    MaskBounds /\ DriveSpec => [](part = "mask" => G!OcclusionBridged)
<1>. SUFFICES ASSUME MaskBounds PROVE DriveSpec => [](part = "mask" => G!OcclusionBridged)
  OBVIOUS
<1>1. MaskInv => G!OcclusionBridged
  BY DEF MaskInv, G!OcclusionBridged, G!HitsWereSeen, G!TouchIsRemembered
<1> QED
  BY <1>1, MaskCorrect, PTL

-----------------------------------------------------------------------------
(* LiveCrossing *)

Seen == [type : STRING, at : SUBSET Int, conf : Nat]

\* The thresholds and the kernels as SolidMaskStabilizer has them, and any scenes.
CorunBounds ==
    /\ THigh \in Int /\ TLow \in Int /\ THigh >= TLow
    /\ MaxAge \in Nat /\ Close \in Nat /\ RowWidth \in Nat
    /\ SegScenes \subseteq Seq(Seen)

\* The frames of a clip vouch for a pixel, as Held says it of the frames so far.
SureIn(sq, p, k) == p \in X!Raster(sq[k], THigh)
LikelyIn(sq, p, k) == p \in X!Raster(sq[k], TLow)
Often(sq, p, a, m) == \A k \in a + 1..m - MaxAge : \E j \in k..k + MaxAge : LikelyIn(sq, p, j)
HeldIn(sq, p, n) == \E a \in 1..n : SureIn(sq, p, a) /\ Often(sq, p, a, n)

\* The last frame that makes a pixel likely is as old as its age.
Since(p) ==
    /\ age[p] \in 0..MaxAge /\ age[p] < Len(seen)
    /\ LikelyIn(seen, p, Len(seen) - age[p])
    /\ \A k \in Len(seen) - age[p] + 1..Len(seen) : ~LikelyIn(seen, p, k)

\* A pixel is on while the frames vouch for it, and its age says since when they do not.
CorunInv ==
    /\ seen \in Seq(SUBSET Seen)
    /\ masks \in SegScenes \cup {<<>>}
    /\ DOMAIN age = X!Pixels
    /\ \A p \in X!Pixels : age[p] # X!Off <=> HeldIn(seen, p, Len(seen))
    /\ \A p \in X!Pixels : age[p] # X!Off => Since(p)
    /\ DOMAIN told = Watched
    /\ violators \subseteq Watched
    /\ X!FlaggedOnPaint
    /\ ~head.loaded => masks = <<>> /\ \A p \in X!Pixels : age[p] = X!Off
    /\ X!SolidLanesVouched

\* The invariant speaks of what LiveCrossing promises.
LEMMA HeldIs ==
    /\ \A p, n : X!Held(p, n) <=> HeldIn(seen, p, n)
    /\ \A p, k : X!Sure(p, k) <=> SureIn(seen, p, k)
BY DEF X!Held, X!Sure, X!Likely, HeldIn, Often, SureIn, LikelyIn

\* A sure pixel is a likely one.
LEMMA SureIsLikely ==
  ASSUME CorunBounds, NEW sq \in Seq(SUBSET Seen), NEW k \in DOMAIN sq, NEW p, SureIn(sq, p, k)
  PROVE  LikelyIn(sq, p, k)
<1>1. sq[k] \in SUBSET Seen
  OBVIOUS
<1>2. PICK m \in sq[k] : m.conf >= THigh /\ p \in m.at
  BY DEF SureIn, X!Raster
<1>3. m.conf >= TLow
  BY <1>1, <1>2 DEF CorunBounds, Seen
<1> QED
  BY <1>2, <1>3 DEF LikelyIn, X!Raster

\* Without a pixel that is on, there is no paint.
LEMMA NoPaint == CorunBounds => X!Output({}) = {}
BY DEF CorunBounds, X!Output, X!Grown, X!Shrunk, X!Pixels

\* What the frames vouch for is settled when they are over.
LEMMA SeenStands ==
  ASSUME CorunBounds, NEW sq \in Seq(SUBSET Seen), NEW ms \in SUBSET Seen,
         NEW p, NEW n \in 0..Len(sq)
  PROVE  HeldIn(Append(sq, ms), p, n) <=> HeldIn(sq, p, n)
<1>. DEFINE nx == Append(sq, ms)
<1>1. \A k \in 1..Len(sq) : nx[k] = sq[k]
  OBVIOUS
<1>. HIDE DEF nx
<1>2. \A k \in 1..Len(sq) : /\ LikelyIn(nx, p, k) <=> LikelyIn(sq, p, k)
                            /\ SureIn(nx, p, k) <=> SureIn(sq, p, k)
  BY <1>1 DEF LikelyIn, SureIn
<1>3. ASSUME NEW a \in 1..n PROVE Often(nx, p, a, n) <=> Often(sq, p, a, n)
  <2>1. \A k \in a + 1..n - MaxAge : \A j \in k..k + MaxAge : j \in 1..Len(sq)
    BY DEF CorunBounds
  <2> QED
    BY <1>2, <2>1 DEF Often
<1>4. \A a \in 1..n : a \in 1..Len(sq)
  OBVIOUS
<1> QED
  BY <1>2, <1>3, <1>4 DEF HeldIn, nx

\* A pixel that was vouched for is still, if it was likely in one of the frames it may miss.
LEMMA HeldOn ==
  ASSUME CorunBounds, NEW sq \in Seq(SUBSET Seen), sq # <<>>, NEW p
  PROVE  HeldIn(sq, p, Len(sq)) <=>
            \/ SureIn(sq, p, Len(sq))
            \/ /\ HeldIn(sq, p, Len(sq) - 1)
               /\ \E j \in Len(sq) - MaxAge..Len(sq) : j > 0 /\ LikelyIn(sq, p, j)
<1>. DEFINE n == Len(sq)
<1>1. n \in Nat \ {0} /\ DOMAIN sq = 1..n /\ MaxAge \in Nat
  BY DEF CorunBounds
<1>0. \A k \in DOMAIN sq : SureIn(sq, p, k) => LikelyIn(sq, p, k)
  BY SureIsLikely
<1>. HIDE DEF n
<1>2. ASSUME HeldIn(sq, p, n), ~SureIn(sq, p, n)
      PROVE  /\ HeldIn(sq, p, n - 1)
             /\ \E j \in n - MaxAge..n : j > 0 /\ LikelyIn(sq, p, j)
  <2>1. PICK a \in 1..n : SureIn(sq, p, a) /\ Often(sq, p, a, n)
    BY <1>2 DEF HeldIn
  <2>2. a \in 1..n - 1
    BY <1>1, <1>2, <2>1
  <2>3. Often(sq, p, a, n - 1)
    <3>1. \A k \in a + 1..n - 1 - MaxAge : k \in a + 1..n - MaxAge
      BY <1>1
    <3> QED
      BY <2>1, <3>1 DEF Often
  <2>4. HeldIn(sq, p, n - 1)
    BY <2>1, <2>2, <2>3 DEF HeldIn
  <2>5. CASE a >= n - MaxAge
    BY <1>0, <1>1, <2>1, <2>2, <2>4, <2>5
  <2>6. CASE ~(a >= n - MaxAge)
    <3>1. n - MaxAge \in a + 1..n - MaxAge /\ n - MaxAge > 0
      BY <1>1, <2>6
    <3>2. PICK j \in n - MaxAge..n - MaxAge + MaxAge : LikelyIn(sq, p, j)
      BY <2>1, <3>1 DEF Often
    <3> QED
      BY <1>1, <2>4, <3>1, <3>2
  <2> QED
    BY <2>5, <2>6
<1>3. ASSUME SureIn(sq, p, n) PROVE HeldIn(sq, p, n)
  <2>1. Often(sq, p, n, n) /\ n \in 1..n
    BY <1>1 DEF Often
  <2> QED
    BY <1>3, <2>1 DEF HeldIn
<1>4. ASSUME HeldIn(sq, p, n - 1), NEW i \in n - MaxAge..n, LikelyIn(sq, p, i)
      PROVE  HeldIn(sq, p, n)
  <2>1. PICK a \in 1..n - 1 : SureIn(sq, p, a) /\ Often(sq, p, a, n - 1)
    BY <1>4 DEF HeldIn
  <2>2. \A k \in a + 1..n - MaxAge : k \in a + 1..n - 1 - MaxAge \/ k = n - MaxAge
    BY <1>1
  <2>3. i \in n - MaxAge..n - MaxAge + MaxAge
    BY <1>1
  <2>4. Often(sq, p, a, n)
    BY <1>4, <2>1, <2>2, <2>3 DEF Often
  <2>5. a \in 1..n
    BY <1>1
  <2> QED
    BY <2>1, <2>4, <2>5 DEF HeldIn
<1> QED
  BY <1>2, <1>3, <1>4 DEF n

\* What the stabiliser makes of a pixel is what the frames vouch for.
LEMMA StabilisedHeld ==
  ASSUME CorunBounds, CorunInv, NEW ms \in SUBSET Seen, seen' = Append(seen, ms),
         age' = X!Stabilised(ms), NEW p \in X!Pixels
  PROVE  /\ age'[p] # X!Off <=> HeldIn(seen', p, Len(seen'))
         /\ age'[p] # X!Off => Since(p)'
<1>. DEFINE n == Len(seen)
<1>1. /\ n \in Nat /\ Len(seen') = n + 1 /\ seen' \in Seq(SUBSET Seen) /\ seen' # <<>>
      /\ seen'[n + 1] = ms /\ \A k \in 1..n : seen'[k] = seen[k]
      /\ MaxAge \in Nat /\ X!Off = -1 /\ DOMAIN seen' = 1..n + 1
  <2>1. seen \in Seq(SUBSET Seen)
    BY DEF CorunInv
  <2> QED
    BY <2>1 DEF CorunBounds, X!Off
<1>. HIDE DEF n
<1>2. \A k \in 1..n : LikelyIn(seen', p, k) <=> LikelyIn(seen, p, k)
  BY <1>1 DEF LikelyIn
<1>3. /\ LikelyIn(seen', p, n + 1) <=> p \in X!Raster(ms, TLow)
      /\ SureIn(seen', p, n + 1) <=> p \in X!Raster(ms, THigh)
  BY <1>1 DEF LikelyIn, SureIn
<1>4. SureIn(seen', p, n + 1) => LikelyIn(seen', p, n + 1)
  <2>1. n + 1 \in DOMAIN seen'
    BY <1>1
  <2> QED
    BY <1>1, <2>1, SureIsLikely
<1>5. HeldIn(seen', p, n) <=> age[p] # X!Off
  <2>1. seen \in Seq(SUBSET Seen) /\ (age[p] # X!Off <=> HeldIn(seen, p, n))
    BY DEF CorunInv, n
  <2>2. n \in 0..Len(seen)
    BY <1>1 DEF n
  <2> QED
    BY <2>1, <2>2, SeenStands DEF n
<1>6. HeldIn(seen', p, n + 1) <=>
            \/ SureIn(seen', p, n + 1)
            \/ /\ HeldIn(seen', p, n)
               /\ \E j \in n + 1 - MaxAge..n + 1 : j > 0 /\ LikelyIn(seen', p, j)
  <2>1. HeldIn(seen', p, Len(seen')) <=>
            \/ SureIn(seen', p, Len(seen'))
            \/ /\ HeldIn(seen', p, Len(seen') - 1)
               /\ \E j \in Len(seen') - MaxAge..Len(seen') : j > 0 /\ LikelyIn(seen', p, j)
    BY <1>1, HeldOn
  <2>2. Len(seen') = n + 1 /\ Len(seen') - 1 = n
    BY <1>1
  <2> QED
    BY <1>1, <2>1, <2>2
<1>7. age'[p] = IF X!Refreshed(ms, p) THEN 0
                ELSE IF age[p] = X!Off THEN X!Off ELSE X!Coasted(age[p])
  BY DEF X!Stabilised
<1>8. X!Refreshed(ms, p) <=> \/ SureIn(seen', p, n + 1)
                             \/ age[p] # X!Off /\ LikelyIn(seen', p, n + 1)
  BY <1>3 DEF X!Refreshed
<1>9. CASE X!Refreshed(ms, p)
  <2>1. age'[p] = 0 /\ LikelyIn(seen', p, n + 1)
    BY <1>4, <1>7, <1>8, <1>9
  <2>2. HeldIn(seen', p, n + 1)
    BY <1>1, <1>5, <1>6, <1>8, <1>9, <2>1
  <2>3. Since(p)'
    BY <1>1, <2>1 DEF Since
  <2> QED
    BY <1>1, <2>1, <2>2, <2>3
<1>10. CASE ~X!Refreshed(ms, p) /\ age[p] = X!Off
  BY <1>1, <1>5, <1>6, <1>7, <1>8, <1>10
<1>11. CASE ~X!Refreshed(ms, p) /\ age[p] # X!Off
  <2>1. /\ age[p] \in 0..MaxAge /\ age[p] < n /\ LikelyIn(seen, p, n - age[p])
        /\ \A k \in n - age[p] + 1..n : ~LikelyIn(seen, p, k)
    BY <1>11 DEF CorunInv, Since, n
  <2>2. ~LikelyIn(seen', p, n + 1) /\ ~SureIn(seen', p, n + 1) /\ HeldIn(seen', p, n)
    BY <1>5, <1>8, <1>11
  <2>3. /\ LikelyIn(seen', p, n - age[p])
        /\ \A k \in n - age[p] + 1..n + 1 : ~LikelyIn(seen', p, k)
    BY <1>1, <1>2, <2>1, <2>2
  <2>4. CASE age[p] + 1 > MaxAge
    <3>1. age'[p] = X!Off
      BY <1>7, <1>11, <2>4 DEF X!Coasted
    <3>2. ~HeldIn(seen', p, n + 1)
      BY <1>1, <1>6, <2>1, <2>2, <2>3, <2>4
    <3> QED
      BY <1>1, <3>1, <3>2
  <2>5. CASE ~(age[p] + 1 > MaxAge)
    <3>1. age'[p] = age[p] + 1
      BY <1>7, <1>11, <2>5 DEF X!Coasted
    <3>2. HeldIn(seen', p, n + 1)
      BY <1>1, <1>6, <2>1, <2>2, <2>3, <2>5
    <3>3. Since(p)'
      <4>1. age'[p] \in 0..MaxAge /\ age'[p] < n + 1 /\ n + 1 - age'[p] = n - age[p]
        BY <1>1, <2>1, <2>5, <3>1
      <4>2. LikelyIn(seen', p, n + 1 - age'[p])
        BY <2>3, <4>1
      <4>3. \A k \in n + 1 - age'[p] + 1..n + 1 : ~LikelyIn(seen', p, k)
        BY <2>3, <4>1
      <4> QED
        BY ONLY <1>1, <4>1, <4>2, <4>3 DEF Since
    <3> QED
      BY <1>1, <2>1, <3>1, <3>2, <3>3
  <2> QED
    BY <2>4, <2>5
<1> QED
  BY <1>9, <1>10, <1>11

\* No result is a sequence of masks.
LEMMA NoMasks == <<>> \in Seq(Seen)
OBVIOUS

\* A clip's masks are the seg head's, and without its weights there are none.
LEMMA InferredIs ==
  ASSUME CorunBounds, CorunInv, NEW found \in SegScenes
  PROVE  /\ X!Inferred(found) \in SegScenes \cup {<<>>}
         /\ ~head.loaded => X!Inferred(found) = <<>>
BY DEF X!Inferred, CorunInv

\* The solid masks of a result are masks of it.
LEMMA SolidAre ==
  ASSUME CorunBounds, NEW ms \in SegScenes \cup {<<>>}
  PROVE  /\ X!SolidMasks(ms) \in SUBSET Seen
         /\ \A i \in DOMAIN ms : ms[i].type \in X!SolidTypes => ms[i] \in X!SolidMasks(ms)
         /\ ms = <<>> => X!SolidMasks(ms) = {}
<1>1. \A i \in DOMAIN ms : ms[i] \in Seen
  <2>1. ms \in Seq(Seen)
    BY NoMasks DEF CorunBounds
  <2> QED
    BY <2>1
<1> QED
  BY <1>1 DEF X!SolidMasks

\* The operators of the library that LiveCrossing uses.
LEMMA RowCounts == \A ns : X!Cardinality(ns) = Cardinality(ns)
BY DEF X!Cardinality, Cardinality

\* What a lane is called, if not unknown, is the type of a mask on it.
LEMMA VotedOnLane ==
  ASSUME CorunBounds, NEW ms \in Seq(Seen), NEW x
  PROVE  \/ X!Voted(ms, x) = "unknown"
         \/ \E i \in DOMAIN ms : x \in ms[i].at /\ X!Voted(ms, x) = ms[i].type
<1>. DEFINE over == {i \in DOMAIN ms : x \in ms[i].at}
            votes(i) == X!Votes(ms, x, ms[i].type)
            ahead == {i \in over : \A j \in over : votes(j) <= votes(i)}
            most == Len(ms)
<1>1. most \in Nat /\ DOMAIN ms = 1..most
  OBVIOUS
<1>2. \A i \in over : votes(i) \in 0..most
  <2>1. IsFiniteSet(1..most) /\ Cardinality(1..most) = most
    BY <1>1, FS_Interval
  <2>2. ASSUME NEW i \in over PROVE votes(i) \in 0..most
    <3>. DEFINE who == {j \in DOMAIN ms : x \in ms[j].at /\ ms[j].type = ms[i].type}
    <3>1. who \subseteq 1..most
      BY <1>1
    <3>. HIDE DEF who
    <3>2. IsFiniteSet(who) /\ Cardinality(who) <= most
      BY <2>1, <3>1, FS_Subset
    <3>3. Cardinality(who) \in Nat
      BY <3>2, FS_CardinalityType
    <3> QED
      BY <1>1, <3>2, <3>3, RowCounts DEF X!Votes, who
  <2> QED
    BY <2>2
<1>3. X!Voted(ms, x) = IF over = {} THEN "unknown" ELSE ms[X!Min(ahead)].type
  BY DEF X!Voted
<1>. HIDE DEF votes
<1>4. ASSUME over # {} PROVE \E i \in ahead : X!Min(ahead) = i
  <2>. DEFINE short == {n \in Nat : \E i \in over : n = most - votes(i)}
  <2>1. short # {}
    BY <1>1, <1>2, <1>4
  <2>2. PICK n \in short : \A l \in short : n <= l
    BY <2>1, LeastNatural
  <2>3. PICK i \in over : n = most - votes(i)
    OBVIOUS
  <2>4. \A j \in over : votes(j) <= votes(i)
    <3>1. \A j \in over : most - votes(j) \in short
      BY <1>1, <1>2
    <3>2. \A j \in over : n <= most - votes(j)
      BY <2>2, <3>1
    <3>. HIDE DEF over
    <3> QED
      BY <1>1, <1>2, <2>3, <3>2
  <2>5. ahead # {} /\ ahead \subseteq Nat
    BY <1>1, <2>4
  <2>. HIDE DEF ahead
  <2>6. \E k \in ahead : \A j \in ahead : k <= j
    BY <2>5, LeastNatural
  <2> QED
    BY <2>6 DEF X!Min
<1> QED
  BY <1>3, <1>4

\* A lane is called solid only when a mask of the result says so.
LEMMA LanesVouched ==
  ASSUME CorunBounds, NEW ms \in SegScenes \cup {<<>>}, NEW xs,
         NEW lane \in X!Detected(xs, ms), lane.type \in X!SolidTypes
  PROVE  lane.x \in X!Raster(X!SolidMasks(ms), 0)
<1>1. ms \in Seq(Seen)
  BY NoMasks DEF CorunBounds
<1>2. lane.type = X!Voted(ms, lane.x)
  BY DEF X!Detected
<1>3. PICK i \in DOMAIN ms : lane.x \in ms[i].at /\ lane.type = ms[i].type
  BY <1>1, <1>2, VotedOnLane DEF X!SolidTypes
<1>4. ms[i] \in X!SolidMasks(ms) /\ ms[i] \in Seen
  BY <1>1, <1>3, SolidAre
<1>5. ms[i].conf >= 0
  BY <1>4 DEF Seen
<1> QED
  BY <1>3, <1>4, <1>5 DEF X!Raster

\* A frame keeps the invariant.
LEMMA CorunFrame == CorunBounds /\ CorunInv /\ X!Next => CorunInv'
<1>. SUFFICES ASSUME CorunBounds, CorunInv, X!Next PROVE CorunInv'
  OBVIOUS
<1>1. PICK found \in SegScenes, xs \in LaneSets,
            where \in [Watched -> X!Pixels \union {Hidden}] :
         \E ms \in {X!Inferred(found)} : \E on \in {X!Stabilised(X!SolidMasks(ms))} :
         \E paint \in {X!Output({p \in X!Pixels : on[p] # X!Off})} :
            LET stand == X!OnMask(where, paint)
            IN /\ masks' = ms /\ lanes' = X!Detected(xs, ms)
               /\ seen' = Append(seen, X!SolidMasks(ms))
               /\ age' = on /\ anchor' = where
               /\ violators' = violators \union stand
               /\ told' = [v \in Watched |->
                             told[v] + (IF v \in stand \ violators THEN 1 ELSE 0)]
               /\ UNCHANGED head
  BY DEF X!Next, X!Frame
<1>. DEFINE ms == X!Inferred(found)
            solid == X!SolidMasks(ms)
            paint == X!Output({p \in X!Pixels : age'[p] # X!Off})
            stand == X!OnMask(where, paint)
            n == Len(seen)
<1>2. /\ masks' = ms /\ lanes' = X!Detected(xs, ms)
      /\ seen' = Append(seen, solid)
      /\ age' = X!Stabilised(solid) /\ anchor' = where
      /\ violators' = violators \union stand
      /\ told' = [v \in Watched |-> told[v] + (IF v \in stand \ violators THEN 1 ELSE 0)]
      /\ UNCHANGED head
  BY <1>1
<1>3. ms \in SegScenes \cup {<<>>} /\ (~head.loaded => ms = <<>>)
  BY InferredIs
<1>4. solid \in SUBSET Seen /\ (ms = <<>> => solid = {})
  BY <1>3, SolidAre
<1>5. /\ seen \in Seq(SUBSET Seen) /\ n \in Nat /\ Len(seen') = n + 1 
      /\ seen' \in Seq(SUBSET Seen) /\ DOMAIN seen' = 1..n + 1 /\ DOMAIN seen = 1..n
      /\ seen'[n + 1] = solid
  <2>1. seen \in Seq(SUBSET Seen)
    BY DEF CorunInv
  <2> QED
    BY <1>2, <1>4, <2>1
<1>6. \A p \in X!Pixels : /\ age'[p] # X!Off <=> HeldIn(seen', p, Len(seen'))
                          /\ age'[p] # X!Off => Since(p)'
  BY <1>2, <1>4, StabilisedHeld
<1>7. DOMAIN age' = X!Pixels
  BY <1>2 DEF X!Stabilised
<1>8. X!HeldPixels' = {p \in X!Pixels : age'[p] # X!Off}
  <2>1. \A p : X!Held(p, Len(seen))' <=> HeldIn(seen', p, Len(seen'))
    BY DEF X!Held, X!Sure, X!Likely, HeldIn, Often, SureIn, LikelyIn
  <2> QED
    BY <1>6, <2>1 DEF X!HeldPixels
<1>9. ~head.loaded => \A p \in X!Pixels : age'[p] = X!Off
  <2>. SUFFICES ASSUME ~head.loaded, NEW p \in X!Pixels PROVE age'[p] = X!Off
    OBVIOUS
  <2>1. age[p] = X!Off /\ solid = {}
    BY <1>3, <1>4 DEF CorunInv
  <2> QED
    BY <1>2, <2>1 DEF X!Stabilised, X!Refreshed, X!Raster
<1>. HIDE DEF ms, solid
<1>10. X!FlaggedOnPaint'
  <2>1. \A v \in Watched : anchor'[v] \in X!Output(X!HeldPixels') => v \in violators'
    BY <1>2, <1>8 DEF X!OnMask
  <2>2. \A v \in Watched : told'[v] = IF v \in violators' THEN 1 ELSE 0
    BY <1>2 DEF CorunInv, X!FlaggedOnPaint
  <2>3. stand # {} => \E p \in X!Pixels : age'[p] # X!Off
    BY NoPaint DEF X!OnMask
  <2>4. stand # {} => \E k \in DOMAIN seen', p \in X!Pixels : HeldIn(seen', p, k)
    <3>1. n + 1 \in DOMAIN seen' /\ Len(seen') = n + 1
      BY <1>5
    <3> QED
      BY <1>6, <2>3, <3>1
  <2>5. violators # {} => \E k \in DOMAIN seen', p \in X!Pixels : HeldIn(seen', p, k)
    <3>. SUFFICES ASSUME violators # {}
                  PROVE  \E k \in DOMAIN seen', p \in X!Pixels : HeldIn(seen', p, k)
      OBVIOUS
    <3>1. PICK k \in DOMAIN seen, p \in X!Pixels : HeldIn(seen, p, k)
      BY HeldIs DEF CorunInv, X!FlaggedOnPaint
    <3>2. HeldIn(seen', p, k)
      BY <1>2, <1>4, <1>5, <3>1, SeenStands
    <3> QED
      BY <1>5, <3>1, <3>2
  <2>6. \A p, k : X!Held(p, k)' <=> HeldIn(seen', p, k)
    BY DEF X!Held, X!Sure, X!Likely, HeldIn, Often, SureIn, LikelyIn
  <2>7. \A v \in violators' : \E k \in DOMAIN seen', p \in X!Pixels : X!Held(p, k)'
    BY <1>2, <2>4, <2>5, <2>6
  <2>8. ~head'.loaded => violators' = {}
    BY <1>2, <1>9, <2>3 DEF CorunInv, X!FlaggedOnPaint
  <2> QED
    BY <2>1, <2>2, <2>7, <2>8 DEF X!FlaggedOnPaint
<1>11. X!SolidLanesVouched'
  <2>1. seen'[Len(seen')] = solid
    BY <1>5
  <2> QED
    BY <1>2, <1>3, <2>1, LanesVouched DEF X!SolidLanesVouched, solid
<1>12. violators' \subseteq Watched /\ DOMAIN told' = Watched
  BY <1>2 DEF CorunInv, X!OnMask
<1> QED
  BY <1>2, <1>3, <1>5, <1>6, <1>7, <1>9, <1>10, <1>11, <1>12 DEF CorunInv

\* MCDetect takes the steps of LiveCrossing in its part, and no others.
LEMMA CorunPart ==
    /\ DriveInit /\ part = "corun" => X!Init
    /\ [DriveNext]_DriveVars => part' = part /\ (part = "corun" => [X!Next]_X!vars)
BY DEF DriveInit, DriveNext, DriveVars, corunVars, X!vars

\* The first state.
LEMMA CorunInit == CorunBounds /\ X!Init => CorunInv
<1>. SUFFICES ASSUME CorunBounds, X!Init PROVE CorunInv
  OBVIOUS
<1>1. /\ masks = <<>> /\ lanes = {} /\ seen = <<>> /\ violators = {}
      /\ age = [p \in X!Pixels |-> X!Off]
      /\ told = [v \in Watched |-> 0]
  BY DEF X!Init
<1>2. seen \in Seq(SUBSET Seen) /\ Len(seen) = 0
  BY <1>1
<1>3. \A p : ~HeldIn(seen, p, Len(seen))
  BY <1>2 DEF HeldIn
<1>4. X!HeldPixels = {}
  BY <1>3, HeldIs DEF X!HeldPixels
<1>5. X!FlaggedOnPaint
  BY <1>1, <1>4, NoPaint DEF X!FlaggedOnPaint
<1> QED
  BY <1>1, <1>2, <1>3, <1>5 DEF CorunInv, X!SolidLanesVouched

\* The invariant of the live check, whatever the seg head finds and how often it runs.
THEOREM CorunCorrect == CorunBounds /\ DriveSpec => [](part = "corun" => CorunInv)
<1>. SUFFICES ASSUME CorunBounds PROVE DriveSpec => [](part = "corun" => CorunInv)
  OBVIOUS
<1>1. DriveInit => (part = "corun" => CorunInv)
  BY CorunInit, CorunPart
<1>2. CorunInv /\ UNCHANGED X!vars => CorunInv'
  BY DEF CorunInv, X!vars, HeldIn, Often, SureIn, LikelyIn, Since, X!FlaggedOnPaint,
         X!SolidLanesVouched, X!HeldPixels, X!Held, X!Sure, X!Likely
<1>3. (part = "corun" => CorunInv) /\ [DriveNext]_DriveVars => (part = "corun" => CorunInv)'
  BY <1>2, CorunPart, CorunFrame
<1> QED
  BY <1>1, <1>3, PTL DEF DriveSpec

\* A pixel is on exactly as long as the frames vouch for it, a vehicle is flagged on such paint
\* and on no other, and a lane is called solid only when a mask says so.
THEOREM CrossingsAreOnPaint ==
    CorunBounds /\ DriveSpec => [](part = "corun" => X!CrossingsOnPaint)
<1>. SUFFICES ASSUME CorunBounds PROVE DriveSpec => [](part = "corun" => X!CrossingsOnPaint)
  OBVIOUS
<1>1. CorunInv => X!CrossingsOnPaint
  BY HeldIs DEF CorunInv, X!CrossingsOnPaint, X!NoFlicker, X!HeldPixels
<1> QED
  BY <1>1, CorunCorrect, PTL

-----------------------------------------------------------------------------
(* ShoulderLine *)

\* A line is remembered for a frame at least, as the code's TTL is.
ShoulderBounds ==
    /\ MemoryTTL \in Nat \ {0} /\ MinAge \in Int /\ KFrames \in Int /\ Cooldown \in Int
    /\ Distances \subseteq Int

Records == [dist : Int, cand : BOOLEAN]
Lines == [id : Nat, ttl : 1..MemoryTTL, age : Nat]

\* A remembered line is as young as the last sight of it, was seen in as many frames as it is
\* old, and has not lain open to view without its paint; a candidate is right of it.
RideInv ==
    /\ recs \in Seq(Records)
    /\ \A k \in DOMAIN recs : recs[k].cand => recs[k].dist > 0
    /\ shoulderTrack \in [id : Nat, age : Nat, miss : Nat]
    /\ sightings.any \in Nat /\ shoulderTrack.age <= sightings.any
    /\ sinceSeen \in Int
    /\ mem \subseteq Lines
    /\ \A m \in mem : m.age <= sightings.any /\ sinceSeen + m.ttl <= MemoryTTL
    /\ mem # {} => ~gone
    /\ S!LineWasThere

ShoulderInv ==
    /\ shoulderPc \in {"frames", "done"}
    /\ shoulderPc = "frames" => RideInv
    /\ S!LineWasThere
    /\ S!ShoulderRecordsHold

\* What the memory keeps of a frame.
LEMMA RememberedAre ==
  ASSUME ShoulderBounds, RideInv, NEW view \in S!Views, NEW hidden \in BOOLEAN,
         NEW t, t = S!Tracked(view),
         NEW m \in S!Remembered(view, t, hidden)
  PROVE  /\ view = "yellow" /\ m = S!Fresh(t)
         \/ \E l \in mem : m = [l EXCEPT !.ttl = @ - 1] /\ l.ttl - 1 > 0
                           /\ (view = "yellow" \/ hidden)
<1>1. PICK l \in S!Refreshed(view, t) :
        /\ (view = "yellow" /\ l.id = t.id) \/ S!Stays(l, view # "yellow" /\ ~hidden)
        /\ m = IF view = "yellow" /\ l.id = t.id THEN l ELSE [l EXCEPT !.ttl = @ - 1]
  BY DEF S!Remembered
<1>2. CASE view = "yellow" /\ l.id = t.id
  <2>1. l = S!Fresh(t)
    BY <1>2 DEF S!Refreshed, S!Fresh
  <2> QED
    BY <1>1, <1>2, <2>1
<1>3. CASE ~(view = "yellow" /\ l.id = t.id)
  <2>1. l \in mem
    BY <1>3 DEF S!Refreshed, S!Fresh
  <2> QED
    BY <1>1, <1>3, <2>1 DEF S!Stays
<1> QED
  BY <1>2, <1>3

\* A frame keeps the invariant.
LEMMA ShoulderFrame ==
  ASSUME ShoulderBounds, ShoulderInv, S!Frame PROVE ShoulderInv'
<1>1. PICK view \in S!Views, present \in BOOLEAN, hidden \in BOOLEAN, fit \in BOOLEAN,
           dist \in Distances :
         /\ shoulderPc = "frames"
         /\ shoulderTrack' = S!Tracked(view)
         /\ mem' = S!Remembered(view, shoulderTrack', hidden)
         /\ recs' = Append(recs, IF present THEN S!Judged(mem', dist, fit) ELSE S!Nowhere)
         /\ sightings' = [any |-> sightings.any + (IF view = "none" THEN 0 ELSE 1),
                          yellow |-> sightings.yellow + (IF view = "yellow" THEN 1 ELSE 0)]
         /\ sinceSeen' = IF view = "yellow" THEN 0
                         ELSE IF sinceSeen = S!Never THEN S!Never ELSE sinceSeen + 1
         /\ gone' = (view # "yellow" /\ (gone \/ ~hidden))
         /\ UNCHANGED <<shoulderPc, shoulderIncidents, keys>>
  BY DEF S!Frame
<1>2. RideInv
  BY <1>1 DEF ShoulderInv
<1>3. /\ shoulderTrack' \in [id : Nat, age : Nat, miss : Nat]
      /\ shoulderTrack'.age <= shoulderTrack.age + (IF view = "none" THEN 0 ELSE 1)
  <2>1. shoulderTrack \in [id : Nat, age : Nat, miss : Nat]
    BY <1>2 DEF RideInv
  <2>0. shoulderTrack' = S!Tracked(view)
    BY <1>1
  <2>2. CASE view # "none"
    <3>1. shoulderTrack' = [shoulderTrack EXCEPT !.age = @ + 1, !.miss = 0]
      BY <2>0, <2>2 DEF S!Tracked
    <3>2. shoulderTrack'
            = [id |-> shoulderTrack.id, age |-> shoulderTrack.age + 1, miss |-> 0]
      BY <2>1, <3>1
    <3>3. shoulderTrack.id \in Nat /\ shoulderTrack.age + 1 \in Nat
      BY <2>1
    <3> QED
      BY <2>2, <3>2, <3>3
  <2>3. CASE view = "none"
    BY <2>0, <2>1, <2>3 DEF S!Tracked
  <2> QED
    BY <2>2, <2>3
<1>4. /\ sightings'.any \in Nat /\ sightings'.any >= sightings.any
      /\ shoulderTrack'.age <= sightings'.any
  BY <1>1, <1>2, <1>3 DEF RideInv
<1>5. sinceSeen' \in Int
  <2>1. CASE sinceSeen = S!Never
    BY <1>1, <1>2, <2>1 DEF RideInv
  <2>2. CASE sinceSeen # S!Never
    BY <1>1, <1>2, <2>2 DEF RideInv
  <2> QED
    BY <2>1, <2>2
<1>6. ASSUME NEW m \in mem'
      PROVE  /\ m \in Lines /\ m.age <= sightings'.any /\ sinceSeen' + m.ttl <= MemoryTTL
             /\ ~gone'
  <2>1. CASE view = "yellow" /\ m = S!Fresh(shoulderTrack')
    <3>1. /\ m.id = shoulderTrack'.id /\ m.ttl = MemoryTTL /\ m.age = shoulderTrack'.age
          /\ m = [id |-> m.id, ttl |-> m.ttl, age |-> m.age]
      BY <2>1 DEF S!Fresh
    <3>2. MemoryTTL \in 1..MemoryTTL /\ sinceSeen' = 0 /\ ~gone'
      <4>1. MemoryTTL \in 1..MemoryTTL
        BY DEF ShoulderBounds
      <4>2. sinceSeen' = 0
        BY <1>1, <2>1, Zenon
      <4>3. ~gone'
        BY <1>1, <2>1, Zenon
      <4> QED
        BY <4>1, <4>2, <4>3
    <3>3. m \in Lines
      BY <1>3, <3>1, <3>2 DEF Lines
    <3> QED
      BY <1>4, <3>1, <3>2, <3>3 DEF ShoulderBounds
  <2>2. ASSUME NEW l \in mem, m = [l EXCEPT !.ttl = @ - 1], l.ttl - 1 > 0,
               view = "yellow" \/ hidden
        PROVE  /\ m \in Lines /\ m.age <= sightings'.any /\ sinceSeen' + m.ttl <= MemoryTTL
               /\ ~gone'
    <3>1. /\ l \in Lines /\ l.age <= sightings.any /\ sinceSeen + l.ttl <= MemoryTTL
          /\ ~gone /\ sinceSeen \in Int /\ sightings.any \in Nat
      BY <1>2 DEF RideInv
    <3>2. m.ttl = l.ttl - 1 /\ m.age = l.age /\ m.id = l.id /\ m \in Lines
      BY <2>2, <3>1 DEF Lines, ShoulderBounds
    <3>3. sinceSeen' + m.ttl <= MemoryTTL
      <4>1. m.ttl \in 1..MemoryTTL /\ l.ttl \in Nat /\ MemoryTTL \in Nat
        BY <3>1, <3>2 DEF Lines, ShoulderBounds
      <4>2. sinceSeen' \in Int
        BY <1>5
      <4>3. CASE view = "yellow"
        <5>1. sinceSeen' = 0
          BY <1>1, <4>3
        <5> QED
          BY <3>2, <4>1, <5>1
      <4>4. CASE view # "yellow"
        <5>1. sinceSeen' <= sinceSeen + 1
          <6>1. sinceSeen' = IF sinceSeen = S!Never THEN S!Never ELSE sinceSeen + 1
            BY <1>1, <4>4
          <6> QED
            BY <3>1, <6>1
        <5> QED
          BY <3>1, <3>2, <4>1, <4>2, <5>1
      <4> QED
        BY <4>3, <4>4
    <3> QED
      <4>1. ~gone'
        BY <1>1, <2>2, <3>1
      <4>2. m.age <= sightings'.any
        BY <1>4, <3>1, <3>2 DEF Lines
      <4> QED
        BY <3>2, <3>3, <4>1, <4>2
  <2> QED
    BY <1>1, <1>2, <2>1, <2>2, RememberedAre
<1>. DEFINE rec == IF present THEN S!Judged(mem', dist, fit) ELSE S!Nowhere
<1>7. /\ rec \in Records
      /\ rec.cand => /\ rec.dist > 0
                     /\ \E m \in mem' : m.age >= MinAge
  <2>1. CASE rec # S!Nowhere
    <3>1. /\ rec = [dist |-> dist, cand |-> dist > 0 /\ fit]
          /\ \E m \in mem' : m.age >= MinAge
      BY <2>1 DEF S!Judged
    <3>2. rec.dist = dist /\ rec.cand = (dist > 0 /\ fit) /\ dist \in Int
      BY <3>1 DEF ShoulderBounds
    <3>3. rec.cand \in BOOLEAN /\ (rec.cand => dist > 0)
      BY <3>2, Zenon
    <3>4. rec = [dist |-> rec.dist, cand |-> rec.cand]
      BY <3>1, <3>2, Zenon
    <3> QED
      BY <3>1, <3>2, <3>3, <3>4 DEF Records
  <2>. HIDE DEF rec
  <2>2. CASE rec = S!Nowhere
    BY <2>2 DEF S!Nowhere, S!Unknown, Records
  <2> QED
    BY <2>1, <2>2
<1>8. recs' = Append(recs, rec) /\ recs \in Seq(Records)
  BY <1>1, <1>2 DEF RideInv
<1>. HIDE DEF rec
<1>9. /\ recs' \in Seq(Records) /\ recs'[Len(recs')] = rec
      /\ \A k \in DOMAIN recs' : (k \in DOMAIN recs /\ recs'[k] = recs[k]) \/ recs'[k] = rec
  BY <1>7, <1>8
<1>10. S!LineWasThere'
  <2>. SUFFICES ASSUME rec.cand
                PROVE  sightings'.any >= MinAge /\ sinceSeen' < MemoryTTL /\ ~gone'
    BY <1>9 DEF S!LineWasThere
  <2>1. PICK m \in mem' : m.age >= MinAge
    BY <1>7
  <2>2. m \in Lines /\ m.age <= sightings'.any /\ sinceSeen' + m.ttl <= MemoryTTL /\ ~gone'
    BY <1>6
  <2> QED
    BY <1>4, <1>5, <2>1, <2>2 DEF Lines, ShoulderBounds
<1>11. RideInv'
  <2>1. \A k \in DOMAIN recs' : recs'[k].cand => recs'[k].dist > 0
    BY <1>2, <1>7, <1>9 DEF RideInv
  <2> QED
    BY <1>3, <1>4, <1>6, <1>5, <1>9, <1>10, <2>1 DEF RideInv
<1> QED
  BY <1>1, <1>10, <1>11 DEF ShoulderInv, S!ShoulderRecordsHold

\* The incidents are the merged runs of candidates.
LEMMA RidesMerged ==
  ASSUME RideInv
  PROVE  /\ RunsIn(S!LongRuns, Len(recs))
         /\ \A r \in S!LongRuns : r.start \in S!Cands
         /\ S!Merged(S!LongRuns) = MergedOf(S!LongRuns)
<1>1. Len(recs) \in Nat /\ DOMAIN recs = 1..Len(recs)
  BY DEF RideInv
<1>2. S!Cands \subseteq 1..Len(recs)
  BY <1>1 DEF S!Cands
<1>3. S!LongRuns \subseteq [start : S!Cands, end : S!Cands]
  BY DEF S!LongRuns, S!Runs
<1>4. RunsIn(S!LongRuns, Len(recs)) /\ \A r \in S!LongRuns : r.start \in S!Cands
  <2>. SUFFICES ASSUME NEW r \in S!LongRuns
                PROVE  /\ r.start \in 1..Len(recs) /\ r.end \in 1..Len(recs)
                       /\ r.start \in S!Cands
    BY DEF RunsIn
  <2>1. r \in [start : S!Cands, end : S!Cands]
    BY <1>3
  <2> QED
    BY <1>2, <2>1
<1>5. \A ns : S!Max(ns) = Largest(ns)
  BY DEF S!Max, Largest
<1>6. \A rs : S!Opening(rs) = Openers(rs)
  BY DEF S!Opening, Openers
<1>7. \A rs, o : S!Group(rs, o) = GroupOf(rs, o)
  BY <1>6 DEF S!Group, GroupOf
<1>8. \A rs : S!Merged(rs) = MergedOf(rs)
  BY <1>5, <1>6, <1>7 DEF S!Merged, MergedOf
<1> QED
  BY <1>4, <1>8

\* The key frame shows the vehicle as far past the line as any frame of the incident.
LEMMA KeyIsFurthest ==
  ASSUME RideInv, NEW i, i.start \in DOMAIN recs, i.end \in DOMAIN recs, i.start <= i.end
  PROVE  /\ S!KeyOf(i) \in i.start..i.end
         /\ \A l \in i.start..i.end : recs[S!KeyOf(i)].dist >= recs[l].dist
<1>. DEFINE here == i.start..i.end
            dists == {recs[k].dist : k \in here}
<1>1. /\ i.start \in Nat /\ i.end \in Nat /\ here \subseteq Nat /\ here # {}
      /\ \A k \in here : k \in DOMAIN recs
  BY DEF RideInv
<1>2. \A k \in here : recs[k].dist \in Int
  <2>1. \A k \in DOMAIN recs : recs[k] \in Records
    BY DEF RideInv
  <2> QED
    BY <1>1, <2>1 DEF Records
<1>3. IsFiniteSet(here)
  <2>1. i.start \in Int /\ i.end \in Int
    BY <1>1
  <2> QED
    BY <2>1, FS_Interval
<1>. HIDE DEF here
<1>4. dists \subseteq Int /\ dists # {}
  BY <1>1, <1>2
<1>5. IsFiniteSet(dists)
  <2>. DEFINE f == [k \in here |-> recs[k].dist]
  <2>1. f \in Surjection(here, dists)
    BY DEF Surjection
  <2> QED
    BY <1>3, <2>1, FS_Surjection
<1>6. PICK d \in dists : \A x \in dists : x <= d
  <2>. HIDE DEF dists
  <2> QED
    BY <1>4, <1>5, FiniteLargest
<1>. DEFINE furthest == {k \in here : recs[k].dist = d}
<1>7. furthest \subseteq Nat /\ furthest # {}
  BY <1>1
<1>8. PICK k \in furthest : \A l \in furthest : k <= l
  <2>. HIDE DEF furthest
  <2> QED
    BY <1>7, LeastNatural
<1>9. \A l \in here : recs[l].dist <= d
  BY <1>6
<1>10. \A l \in here : \/ recs[k].dist > recs[l].dist
                       \/ recs[k].dist = recs[l].dist /\ k <= l
  BY <1>2, <1>6, <1>8, <1>9
<1>11. /\ S!KeyOf(i) \in here
       /\ \A l \in here : \/ recs[S!KeyOf(i)].dist > recs[l].dist
                          \/ recs[S!KeyOf(i)].dist = recs[l].dist /\ S!KeyOf(i) <= l
  BY <1>8, <1>10 DEF S!KeyOf, here
<1> QED
  BY <1>2, <1>11 DEF here

\* What is reported when the clip is over.
LEMMA ShoulderEvaluate ==
  ASSUME ShoulderBounds, ShoulderInv, S!Evaluate PROVE ShoulderInv'
<1>1. PICK once \in BOOLEAN :
         /\ shoulderPc = "frames" /\ shoulderPc' = "done"
         /\ shoulderIncidents' = S!Reported(once)
         /\ keys' = {S!KeyOf(i) : i \in S!Reported(once)}
         /\ UNCHANGED <<shoulderTrack, mem, recs, sightings, sinceSeen, gone>>
  BY DEF S!Evaluate
<1>2. RideInv
  BY <1>1 DEF ShoulderInv
<1>. DEFINE n == Len(recs)
            rs == S!LongRuns
<1>3. n \in Nat /\ Cooldown \in Int /\ DOMAIN recs = 1..n /\ recs \in Seq(Records)
  BY <1>2 DEF RideInv, ShoulderBounds
<1>4. RunsIn(rs, n) /\ \A r \in rs : r.start \in S!Cands
  BY <1>2, RidesMerged
<1>5. S!Reported(once) \subseteq MergedOf(rs)
  BY <1>2, RidesMerged DEF S!Reported
<1>6. rs' = rs
  BY <1>1 DEF S!LongRuns, S!Runs, S!Cands
<1>. HIDE DEF rs, n
<1>7. ASSUME NEW i \in S!Reported(once)
      PROVE  /\ \E r \in rs : i.start = r.start /\ r.end <= i.end
             /\ S!KeyOf(i) \in i.start..i.end
             /\ recs[S!KeyOf(i)].dist > 0
  <2>1. i \in MergedOf(rs)
    BY <1>5
  <2>2. PICK o \in Openers(rs) : i.start = o.start /\ o.end <= i.end
    BY <1>3, <1>4, <2>1, MergedIs
  <2>3. i.start \in 1..n /\ i.end \in 1..n
    BY <1>3, <1>4, <2>1, MergedIs
  <2>4. o \in rs /\ o.start \in S!Cands /\ o.start <= o.end /\ o.end \in 1..n
    BY <1>4 DEF Openers, RunsIn, rs, S!LongRuns, S!Runs
  <2>5. i.start <= i.end
    BY <2>2, <2>3, <2>4
  <2>6. /\ S!KeyOf(i) \in i.start..i.end
        /\ \A l \in i.start..i.end : recs[S!KeyOf(i)].dist >= recs[l].dist
    BY <1>2, <1>3, <2>3, <2>5, KeyIsFurthest
  <2>7. recs[i.start].dist > 0 /\ i.start \in i.start..i.end
    BY <1>2, <1>3, <2>2, <2>3, <2>4, <2>5 DEF S!Cands, RideInv
  <2>8. recs[S!KeyOf(i)].dist \in Int /\ recs[i.start].dist \in Int
    <3>1. \A k \in 1..n : recs[k] \in Records
      BY <1>3
    <3>2. S!KeyOf(i) \in 1..n
      BY <1>3, <2>3, <2>6
    <3> QED
      BY <2>3, <3>1, <3>2 DEF Records
  <2> QED
    BY <2>2, <2>4, <2>6, <2>7, <2>8
<1>8. \A i, j \in S!Reported(once) : i.start > j.start => i.start - j.end > Cooldown
  <2>. SUFFICES ASSUME NEW i \in S!Reported(once), NEW j \in S!Reported(once),
                       i.start > j.start
                PROVE  i.start - j.end > Cooldown
    OBVIOUS
  <2>1. i \in MergedOf(rs) /\ j \in MergedOf(rs)
    BY <1>5
  <2>2. j.start < i.start => i.start - j.end > Cooldown
    BY <1>3, <1>4, <2>1, MergedApart
  <2>3. i.start \in 1..n /\ j.start \in 1..n
    BY <1>3, <1>4, <2>1, MergedIs
  <2> QED
    BY <2>2, <2>3
<1>9. S!ShoulderRecordsHold'
  <2>1. \A i \in S!Reported(once) : \E r \in rs' : i.start <= r.start /\ r.end <= i.end
    <3>. SUFFICES ASSUME NEW i \in S!Reported(once)
                  PROVE  \E r \in rs : i.start <= r.start /\ r.end <= i.end
      BY <1>6
    <3>1. PICK r \in rs : i.start = r.start /\ r.end <= i.end
      BY <1>7
    <3>2. i.start \in 1..n
      BY <1>3, <1>4, <1>5, MergedIs
    <3> QED
      BY <3>1, <3>2
  <2>2. \A k \in keys' : /\ recs'[k].dist > 0
                         /\ \E i \in shoulderIncidents' : i.start <= k /\ k <= i.end
    <3>. SUFFICES ASSUME NEW i \in S!Reported(once)
                  PROVE  /\ recs[S!KeyOf(i)].dist > 0
                         /\ i.start <= S!KeyOf(i) /\ S!KeyOf(i) <= i.end
      BY <1>1
    <3> QED
      BY <1>7
  <2> QED
    BY <1>1, <1>8, <2>1, <2>2 DEF S!ShoulderRecordsHold, rs
<1> QED
  BY <1>1, <1>9 DEF ShoulderInv, S!LineWasThere

\* MCDetect takes the steps of ShoulderLine in its part, and no others.
LEMMA ShoulderPart ==
    /\ DriveInit /\ part = "shoulder" => S!Init
    /\ [DriveNext]_DriveVars => part' = part /\ (part = "shoulder" => [S!Next]_S!vars)
BY DEF DriveInit, DriveNext, DriveVars, shoulderVars, S!vars

\* The invariant of the memory of the line, whatever is seen of it and wherever a car drives.
THEOREM ShoulderCorrect ==
    ShoulderBounds /\ RideFrames \in Nat /\ DriveSpec => [](part = "shoulder" => ShoulderInv)
<1>. SUFFICES ASSUME ShoulderBounds, RideFrames \in Nat
              PROVE  DriveSpec => [](part = "shoulder" => ShoulderInv)
  OBVIOUS
<1>1. S!Init => ShoulderInv
  BY DEF S!Init, ShoulderInv, RideInv, S!LineWasThere, S!ShoulderRecordsHold, S!Never
<1>2. ShoulderInv /\ UNCHANGED S!vars => ShoulderInv'
  BY DEF ShoulderInv, RideInv, S!vars, S!LineWasThere, S!ShoulderRecordsHold, S!LongRuns,
         S!Runs, S!Cands
<1>3. DriveInit => (part = "shoulder" => ShoulderInv)
  BY <1>1, ShoulderPart
<1>4. (part = "shoulder" => ShoulderInv) /\ [DriveNext]_DriveVars
        => (part = "shoulder" => ShoulderInv)'
  BY <1>2, ShoulderPart, ShoulderFrame, ShoulderEvaluate DEF S!Next
<1> QED
  BY <1>3, <1>4, PTL DEF DriveSpec

\* Driving on the shoulder is found against a line that was there, and what is reported of it
\* is a run of frames on it, with a picture from within in which the vehicle is past the line.
THEOREM ShoulderIsProven ==
    ShoulderBounds /\ RideFrames \in Nat /\ DriveSpec =>
        [](part = "shoulder" => S!ShoulderProven)
<1>. SUFFICES ASSUME ShoulderBounds, RideFrames \in Nat
              PROVE  DriveSpec => [](part = "shoulder" => S!ShoulderProven)
  OBVIOUS
<1>1. ShoulderInv => S!ShoulderProven
  BY DEF ShoulderInv, S!ShoulderProven
<1> QED
  BY <1>1, ShoulderCorrect, PTL

\* Paint that is briefly not seen is remembered and not invented: the ghost of a line bridges
\* an occlusion while it is young and no longer, a shoulder ride rests on frames beyond a line
\* that is remembered, and a live crossing on solid paint that a frame has shown.
THEOREM PaintIsRemembered ==
    MaskBounds /\ ShoulderBounds /\ RideFrames \in Nat /\ CorunBounds /\ DriveSpec
        => []PaintRemembered
<1>. SUFFICES ASSUME MaskBounds, ShoulderBounds, RideFrames \in Nat, CorunBounds
              PROVE  DriveSpec => []PaintRemembered
  OBVIOUS
<1>1. /\ part = "mask" => G!OcclusionBridged
      /\ part = "shoulder" => S!ShoulderProven
      /\ part = "corun" => X!CrossingsOnPaint
      => PaintRemembered
  BY DEF PaintRemembered
<1> QED
  BY <1>1, OcclusionIsBridged, ShoulderIsProven, CrossingsAreOnPaint, PTL

-----------------------------------------------------------------------------
(* CrossingChannels *)

ChannelBounds == ClipFrames \in Nat /\ Cooldown \in Int

\* The white incidents are the merged runs of hits, of which Stage 2 confirms all or none.
ChannelsInv ==
    /\ pc \in {"frames", "stage1", "stage2", "yellow", "done"}
    /\ timeline \in Seq({"clear", "hit", "tire"})
    /\ pc \in {"stage2", "yellow", "done"} => incidents = MergedOf(C!HitRuns)
    /\ pc \in {"yellow", "done"} => confirmed \subseteq incidents
    /\ pc # "done" => crossings = {}
    /\ C!ReportsApart

\* A group of runs is what the lemmas call one.
LEMMA SpansAre == \A rs : C!Spans(rs, Openers(rs)) = MergedOf(rs)
<1>1. \A ns : C!Max(ns) = Largest(ns)
  BY DEF C!Max, Largest
<1>2. \A rs, o : C!Group(rs, Openers(rs), o) = GroupOf(rs, o)
  BY DEF C!Group, GroupOf
<1> QED
  BY <1>1, <1>2 DEF C!Spans, MergedOf

\* CrossingChannels merges the runs of hits as the lemmas have it.
LEMMA HitsMerged ==
  ASSUME timeline \in Seq({"clear", "hit", "tire"})
  PROVE  /\ RunsIn(C!HitRuns, Len(timeline))
         /\ C!Merged(C!HitRuns) = MergedOf(C!HitRuns)
<1>1. DOMAIN timeline = 1..Len(timeline)
  OBVIOUS
<1>2. C!HitRuns \subseteq [start : C!Frames, end : C!Frames]
  BY DEF C!HitRuns, C!Runs
<1>3. RunsIn(C!HitRuns, Len(timeline))
  <2>. SUFFICES ASSUME NEW r \in C!HitRuns
                PROVE  r.start \in 1..Len(timeline) /\ r.end \in 1..Len(timeline)
    BY DEF RunsIn
  <2>1. r \in [start : C!Frames, end : C!Frames]
    BY <1>2
  <2> QED
    BY <1>1, <2>1 DEF C!Frames
<1>4. \A rs : {r \in rs : C!LateAfter(r, C!Before(rs, r))} = Openers(rs)
  BY DEF C!LateAfter, C!Before, Openers
<1> QED
  BY <1>3, <1>4, SpansAre DEF C!Merged

\* A frame counts for one yellow line at most, so of two runs of contacts one is over before
\* the other begins.
LEMMA ContactsApart ==
  ASSUME timeline \in Seq({"clear", "hit", "tire"})
  PROVE  /\ RunsIn(C!ContactRuns, Len(timeline))
         /\ \A p, q \in C!ContactRuns :
                p.start < q.start => p.end < q.start /\ p.end < q.end
<1>. DEFINE n == Len(timeline)
            touched(l) == {i \in C!Frames : l \in C!LinesHit(i)}
<1>1. n \in Nat /\ C!Frames = 1..n
  BY DEF C!Frames
<1>2. ASSUME NEW r \in C!ContactRuns
      PROVE  \E l \in Yellows : /\ r.start \in touched(l) /\ r.end \in touched(l)
                                /\ r.start - 1 \notin touched(l) /\ r.start <= r.end
                                /\ r.start..r.end \subseteq touched(l)
  <2>1. PICK l \in Yellows : \E u \in C!Runs(touched(l)) :
           r = [start |-> u.start, end |-> u.end, line |-> l]
    BY DEF C!ContactRuns
  <2>. PICK u \in C!Runs(touched(l)) : r = [start |-> u.start, end |-> u.end, line |-> l]
    BY <2>1
  <2>2. r.start = u.start /\ r.end = u.end
    OBVIOUS
  <2>. HIDE DEF touched
  <2>3. /\ u.start \in touched(l) /\ u.end \in touched(l)
        /\ u.start - 1 \notin touched(l) /\ u.start <= u.end
        /\ u.start..u.end \subseteq touched(l)
    BY DEF C!Runs
  <2> QED
    BY <2>2, <2>3
<1>3. \A l : touched(l) \subseteq 1..n
  BY <1>1
<1>4. \A l, k, i : i \in touched(l) /\ i \in touched(k) => l = k
  BY DEF C!LinesHit
<1>. HIDE DEF touched, n
<1>5. ASSUME NEW r \in C!ContactRuns PROVE r.start \in 1..n /\ r.end \in 1..n
  BY <1>2, <1>3
<1>6. ASSUME NEW p \in C!ContactRuns, NEW q \in C!ContactRuns, p.start < q.start
      PROVE  p.end < q.start /\ p.end < q.end
  <2>1. PICK l \in Yellows : p.start..p.end \subseteq touched(l)
    BY <1>2
  <2>2. PICK k \in Yellows : /\ q.start \in touched(k) /\ q.start - 1 \notin touched(k)
                             /\ q.start <= q.end
    BY <1>2
  <2>3. p.start \in 1..n /\ p.end \in 1..n /\ q.start \in 1..n /\ q.end \in 1..n
    BY <1>5
  <2>4. ASSUME q.start <= p.end PROVE FALSE
    <3>1. q.start \in p.start..p.end /\ q.start - 1 \in p.start..p.end
      BY <1>1, <1>6, <2>3, <2>4 DEF n
    <3>2. l = k
      BY <1>4, <2>1, <2>2, <3>1
    <3> QED
      BY <2>1, <2>2, <3>1, <3>2
  <2> QED
    BY <1>1, <2>2, <2>3, <2>4 DEF n
<1> QED
  BY <1>5, <1>6 DEF RunsIn, n

\* As runs of contacts follow each other, the one that joined a group last also ends it last,
\* and _collapse merges as merge_events does.
LEMMA ContactsMerged ==
  ASSUME timeline \in Seq({"clear", "hit", "tire"}), Cooldown \in Int
  PROVE  C!Collapsed = MergedOf(C!ContactRuns)
<1>. DEFINE n == Len(timeline)
            rs == C!ContactRuns
<1>1. n \in Nat /\ RunsIn(rs, n)
  BY ContactsApart
<1>2. \A p, q \in rs : p.start < q.start => p.end < q.start /\ p.end < q.end
  BY ContactsApart
<1>. HIDE DEF n, rs
<1>3. \A r \in rs : r.start \in 1..n /\ r.end \in 1..n
  BY <1>1 DEF RunsIn
<1>4. ASSUME NEW r \in rs, C!LateAfter(r, C!JustBefore(rs, r)), NEW q \in rs, q.start < r.start
      PROVE  r.start - q.end > Cooldown
  <2>. DEFINE starts == {p.start : p \in C!Before(rs, r)}
  <2>1. /\ q \in C!Before(rs, r)
        /\ \A p \in C!Before(rs, r) : p \in rs /\ p.start < r.start
    BY <1>4 DEF C!Before
  <2>2. starts # {} /\ starts \subseteq Int /\ \A x \in starts : x <= n
    BY <1>3, <2>1
  <2>3. PICK s \in starts : \A x \in starts : x <= s
    <3>. HIDE DEF starts
    <3> QED
      BY <1>1, <2>2, n \in Int, LargestIs
  <2>4. PICK p \in C!Before(rs, r) : p.start = s
    BY <2>3
  <2>5. \A x \in C!Before(rs, r) : x.start <= p.start
    BY <2>3, <2>4
  <2>6. p \in C!JustBefore(rs, r)
    BY <2>5 DEF C!JustBefore
  <2>7. r.start - p.end > Cooldown /\ q.start <= p.start
    BY <1>4, <2>1, <2>5, <2>6 DEF C!LateAfter
  <2>8. CASE q.start < p.start
    <3>1. q.end < p.end
      BY <1>2, <2>1, <2>8
    <3> QED
      BY <1>3, <2>1, <2>7, <3>1
  <2>9. CASE q.start = p.start
    <3>1. q \in C!JustBefore(rs, r)
      BY <2>1, <2>5, <2>9 DEF C!JustBefore
    <3> QED
      BY <1>4, <3>1 DEF C!LateAfter
  <2> QED
    BY <1>3, <2>1, <2>7, <2>8, <2>9
<1>5. ASSUME NEW r \in rs PROVE C!LateAfter(r, C!JustBefore(rs, r)) <=> r \in Openers(rs)
  <2>1. \A q \in C!JustBefore(rs, r) : q \in rs /\ q.start < r.start
    BY DEF C!JustBefore, C!Before
  <2> QED
    BY <1>4, <2>1 DEF C!LateAfter, Openers
<1>6. {r \in rs : C!LateAfter(r, C!JustBefore(rs, r))} = Openers(rs)
  BY <1>5 DEF Openers
<1>7. C!Collapsed = C!Spans(rs, Openers(rs))
  BY <1>6 DEF C!Collapsed, rs
<1> QED
  BY <1>7, SpansAre DEF rs


\* Merged runs are reports that lie apart.
LEMMA MergedReportsApart ==
  ASSUME NEW n \in Nat, NEW rs, RunsIn(rs, n), Cooldown \in Int,
         NEW i \in MergedOf(rs), NEW j \in MergedOf(rs), i # j
  PROVE  C!Apart(i, j)
<1>1. i.start \in 1..n /\ j.start \in 1..n
  BY MergedIs
<1>2. /\ i.start < j.start => j.start - i.end > Cooldown
      /\ j.start < i.start => i.start - j.end > Cooldown
      /\ i.start # j.start
  BY MergedApart
<1> QED
  BY <1>1, <1>2 DEF C!Apart

\* What is reported in the end: of both rules, with no white crossing told again as a yellow.
LEMMA YellowStep ==
  ASSUME ChannelBounds, ChannelsInv, C!YellowCrossings PROVE ChannelsInv'
<1>. DEFINE n == Len(timeline)
<1>1. PICK enabled \in BOOLEAN :
         /\ pc = "yellow"
         /\ channelsContacts' = IF enabled THEN C!Collapsed ELSE {}
         /\ crossings' = confirmed \cup {y \in channelsContacts' : ~C!Duplicate(y, confirmed)}
         /\ pc' = "done"
         /\ UNCHANGED <<timeline, touching, incidents, secondPass, confirmed>>
  BY DEF C!YellowCrossings
<1>2. n \in Nat /\ Cooldown \in Int /\ timeline \in Seq({"clear", "hit", "tire"})
  BY DEF ChannelsInv, ChannelBounds
<1>3. RunsIn(C!HitRuns, n) /\ confirmed \subseteq MergedOf(C!HitRuns)
  BY <1>1, <1>2, HitsMerged DEF ChannelsInv
<1>4. RunsIn(C!ContactRuns, n) /\ channelsContacts' \subseteq MergedOf(C!ContactRuns)
  BY <1>1, <1>2, ContactsApart, ContactsMerged
<1>. HIDE DEF n
<1>5. /\ \A i \in confirmed : i.start \in 1..n /\ i.end \in 1..n
      /\ \A i \in channelsContacts' : i.start \in 1..n /\ i.end \in 1..n
  BY <1>2, <1>3, <1>4, MergedIs, Zenon
<1>6. \A a, b \in confirmed : a # b => C!Apart(a, b)
  BY <1>2, <1>3, MergedReportsApart
<1>7. \A a, b \in channelsContacts' : a # b => C!Apart(a, b)
  BY <1>2, <1>4, MergedReportsApart
<1>8. ASSUME NEW w \in confirmed, NEW y \in channelsContacts', ~C!Duplicate(y, confirmed)
      PROVE  C!Apart(w, y) /\ C!Apart(y, w)
  <2>1. ~(y.start - w.end <= Cooldown /\ w.start - y.end <= Cooldown)
    BY <1>8 DEF C!Duplicate
  <2> QED
    BY <1>2, <1>5, <2>1 DEF C!Apart
<1>9. C!ReportsApart'
  <2>1. \A a, b \in crossings' : a # b => C!Apart(a, b)
    BY <1>1, <1>6, <1>7, <1>8, Zenon
  <2> QED
    BY <2>1 DEF C!ReportsApart, C!Apart
<1>10. C!HitRuns' = C!HitRuns
  BY <1>1 DEF C!HitRuns, C!Runs, C!Frames, C!HitsAt
<1> QED
  BY <1>1, <1>2, <1>9, <1>10 DEF ChannelsInv

\* The steps before keep it.
LEMMA ChannelsStep ==
  ASSUME ChannelBounds, ChannelsInv, [C!Next]_C!vars PROVE ChannelsInv'
<1>. USE DEF ChannelsInv
<1>1. CASE C!Frame
  BY <1>1 DEF C!Frame, C!ReportsApart
<1>2. CASE C!EndOfClip
  BY <1>2 DEF C!EndOfClip, C!ReportsApart
<1>3. ASSUME UNCHANGED timeline PROVE C!HitRuns' = C!HitRuns
  BY <1>3 DEF C!HitRuns, C!Runs, C!Frames, C!HitsAt
<1>4. CASE C!Stage1
  <2>1. /\ pc = "stage1" /\ pc' = "stage2" /\ incidents' = C!Merged(C!HitRuns)
        /\ UNCHANGED <<timeline, crossings>>
    BY <1>4 DEF C!Stage1
  <2>2. incidents' = MergedOf(C!HitRuns')
    BY <1>3, <2>1, HitsMerged
  <2> QED
    BY <2>1, <2>2 DEF C!ReportsApart
<1>5. CASE C!Stage2
  <2>1. /\ pc = "stage2" /\ pc' = "yellow" /\ confirmed' \subseteq incidents
        /\ UNCHANGED <<timeline, incidents, crossings>>
    BY <1>5 DEF C!Stage2, C!Confirmed
  <2> QED
    BY <1>3, <2>1 DEF C!ReportsApart
<1>6. CASE UNCHANGED C!vars
  <2>1. UNCHANGED <<pc, timeline, incidents, confirmed, crossings>>
    BY <1>6 DEF C!vars
  <2> QED
    BY <1>3, <2>1 DEF C!ReportsApart
<1> QED
  BY <1>1, <1>2, <1>4, <1>5, <1>6, YellowStep DEF C!Next

\* MCDetect takes the steps of CrossingChannels in its part, and no others.
LEMMA ChannelsPart ==
    /\ DriveInit /\ part = "channels" => C!Init
    /\ [DriveNext]_DriveVars => part' = part /\ (part = "channels" => [C!Next]_C!vars)
BY DEF DriveInit, DriveNext, DriveVars, channelsVars, C!vars

\* The invariant of the crossings of a vehicle, whatever is seen of it in the frames.
THEOREM ChannelsCorrect ==
    ChannelBounds /\ DriveSpec => [](part = "channels" => ChannelsInv)
<1>. SUFFICES ASSUME ChannelBounds PROVE DriveSpec => [](part = "channels" => ChannelsInv)
  OBVIOUS
<1>1. C!Init => ChannelsInv
  BY DEF C!Init, ChannelsInv, C!ReportsApart
<1>2. DriveInit => (part = "channels" => ChannelsInv)
  BY <1>1, ChannelsPart
<1>3. (part = "channels" => ChannelsInv) /\ [DriveNext]_DriveVars
        => (part = "channels" => ChannelsInv)'
  BY ChannelsPart, ChannelsStep
<1> QED
  BY <1>2, <1>3, PTL DEF DriveSpec

\* Two crossings of a vehicle that are reported, of either rule, lie more than the cooldown
\* apart, and the merging that sees to it loses no run of hits and adds nothing at either end.
THEOREM CrossingsToldOnce ==
    ChannelBounds /\ DriveSpec => [](part = "channels" => C!OneIncidentPerCooldown)
<1>. SUFFICES ASSUME ChannelBounds
              PROVE  DriveSpec => [](part = "channels" => C!OneIncidentPerCooldown)
  OBVIOUS
<1>1. ASSUME ChannelsInv, pc = "stage2"
      PROVE  /\ \A r \in C!HitRuns :
                    \E i \in incidents : i.start <= r.start /\ r.end <= i.end
             /\ \A i \in incidents : /\ \E r \in C!HitRuns : r.start = i.start
                                     /\ \E r \in C!HitRuns : r.end = i.end
  <2>1. /\ incidents = MergedOf(C!HitRuns) /\ RunsIn(C!HitRuns, Len(timeline))
        /\ Len(timeline) \in Nat /\ Cooldown \in Int
    BY <1>1, HitsMerged DEF ChannelsInv, ChannelBounds
  <2>2. \A r \in C!HitRuns : \E i \in incidents : i.start <= r.start /\ r.end <= i.end
    BY <2>1, MergedCovers
  <2>3. ASSUME NEW i \in incidents
        PROVE  (\E r \in C!HitRuns : r.start = i.start) /\ \E r \in C!HitRuns : r.end = i.end
    <3>1. i \in MergedOf(C!HitRuns)
      BY <2>1
    <3> QED
      BY <2>1, <3>1, MergedIs DEF Openers
  <2> QED
    BY <2>2, <2>3
<1>2. ChannelsInv => C!OneIncidentPerCooldown
  BY <1>1 DEF ChannelsInv, C!OneIncidentPerCooldown, C!IncidentsCoverRuns
<1> QED
  BY <1>2, ChannelsCorrect, PTL

-----------------------------------------------------------------------------
(* LineEvents *)

\* A run lasts a sample at least; offsets and widths are numbers, a vehicle as wide as it may.
LineBounds ==
    /\ Hold \in Nat \ {0} /\ LineMargin \in Nat
    /\ MaxGap \in Int /\ MinTransit \in Int /\ MaxTransit \in Int
    /\ Offsets \subseteq Int /\ Lost \subseteq Nat /\ Tenths \subseteq Nat

\* No box is seen so wide that the line can run under a quarter of the footprint of a vehicle
\* which is off it by the margin.
Narrow == \A tenth \in Tenths : 3 * tenth <= LineMargin

\* The middle and the sides of a vehicle, in reach of each other when it is narrow.
Footprints == {p \in [c : Int, l : Int, r : Int] :
    Narrow => /\ 4 * p.c - 4 * LineMargin <= 3 * p.l + p.r
              /\ 3 * p.r + p.l <= 4 * p.c + 4 * LineMargin}

\* A sample has a footprint or none, and is of a later frame than the one before.
LinesInv ==
    /\ raw \in Seq(Footprints \cup {None})
    /\ frames \in Seq(Nat) /\ Len(frames) = Len(raw)
    /\ \A i, j \in DOMAIN frames : i < j => frames[i] < frames[j]

\* The footprint of a box is one.
LEMMA FootprintIs ==
  ASSUME LineBounds, NEW u \in Int, NEW tenth \in Tenths, NEW near
  PROVE  L!Footprint(u, tenth, near) \in Footprints
<1>1. tenth \in Nat /\ LineMargin \in Nat /\ (Narrow => 3 * tenth <= LineMargin)
  BY DEF LineBounds, Narrow
<1>2. CASE near
  BY <1>1, <1>2 DEF L!Footprint, Footprints
<1>3. CASE ~near
  BY <1>1, <1>3 DEF L!Footprint, Footprints
<1> QED
  BY <1>2, <1>3

\* A step keeps it.
LEMMA LinesStep ==
  ASSUME LineBounds, LinesInv, [L!Next]_L!vars PROVE LinesInv'
<1>1. CASE L!Next
  <2>1. PICK u \in Offsets \cup {None}, tenth \in Tenths, sight \in Sights, gap \in Lost :
           /\ raw' = Append(raw, IF u = None THEN None
                                  ELSE L!Footprint(u, tenth, u < sight))
           /\ frames' = Append(frames,
                               (IF frames = <<>> THEN 0 ELSE L!Last(frames)) + gap + 1)
    BY <1>1 DEF L!Next, L!Track
  <2>. DEFINE f == (IF frames = <<>> THEN 0 ELSE L!Last(frames)) + gap + 1
  <2>2. raw' \in Seq(Footprints \cup {None}) /\ Len(raw') = Len(raw) + 1
    <3>1. CASE u = None
      BY <2>1, <3>1 DEF LinesInv
    <3>2. CASE u # None
      <4>1. u \in Int /\ tenth \in Nat /\ LineMargin \in Nat
        BY <3>2 DEF LineBounds
      <4>2. L!Footprint(u, tenth, u < sight) \in Footprints
        BY <4>1, FootprintIs
      <4> QED
        BY <2>1, <3>2, <4>2 DEF LinesInv
    <3> QED
      BY <3>1, <3>2
  <2>3. /\ frames \in Seq(Nat) /\ gap \in Nat /\ DOMAIN frames = 1..Len(frames)
        /\ Len(frames) \in Nat
    BY DEF LinesInv, LineBounds
  <2>4. f \in Nat /\ \A i \in DOMAIN frames : frames[i] < f
    <3>1. CASE frames = <<>>
      BY <2>3, <3>1
    <3>2. CASE frames # <<>>
      <4>1. Len(frames) \in DOMAIN frames /\ L!Last(frames) = frames[Len(frames)]
        BY <2>3, <3>2 DEF L!Last
      <4>2. \A i \in DOMAIN frames : frames[i] \in Nat /\ frames[i] <= frames[Len(frames)]
        BY <2>3, <4>1 DEF LinesInv
      <4>3. f = frames[Len(frames)] + gap + 1
        BY <3>2, <4>1
      <4> QED
        BY <2>3, <4>1, <4>2, <4>3
    <3> QED
      BY <3>1, <3>2
  <2>5. frames' = Append(frames, f)
    BY <2>1
  <2>. HIDE DEF f
  <2>6. /\ frames' \in Seq(Nat) /\ Len(frames') = Len(frames) + 1
        /\ DOMAIN frames' = 1..Len(frames) + 1 /\ frames'[Len(frames) + 1] = f
        /\ \A i \in DOMAIN frames : frames'[i] = frames[i]
    BY <2>3, <2>4, <2>5
  <2>7. ASSUME NEW i \in DOMAIN frames', NEW j \in DOMAIN frames', i < j
        PROVE  frames'[i] < frames'[j]
    <3>1. i \in DOMAIN frames
      BY <2>3, <2>6, <2>7
    <3>2. CASE j \in DOMAIN frames
      BY <2>6, <2>7, <3>1, <3>2 DEF LinesInv
    <3>3. CASE j = Len(frames) + 1
      BY <2>4, <2>6, <3>1, <3>3
    <3> QED
      BY <2>3, <2>6, <3>2, <3>3
  <2> QED
    BY <2>2, <2>6, <2>7 DEF LinesInv
<1>2. CASE UNCHANGED L!vars
  BY <1>2 DEF L!vars, LinesInv
<1> QED
  BY <1>1, <1>2

\* The weighted mean of two offsets, as it is rounded.
Mean(p, q, a, b) == (p * a + q * b) \div (a + b)

\* It lies at most one below the exact mean.
LEMMA MeanIs ==
  ASSUME NEW p \in Int, NEW q \in Int, NEW a \in Nat \ {0}, NEW b \in Nat \ {0}
  PROVE  /\ Mean(p, q, a, b) \in Int
         /\ Mean(p, q, a, b) * (a + b) <= p * a + q * b
         /\ p * a + q * b < Mean(p, q, a, b) * (a + b) + (a + b)
<1>. DEFINE top == p * a + q * b
            n == a + b
<1>1. top \in Int /\ n \in Nat \ {0}
  <2>1. \A x, y, z, w \in Int : x * z + y * w \in Int
    OBVIOUS
  <2> QED
    BY <2>1
<1>2. \A x \in Int, m \in Nat \ {0} :
         x \div m \in Int /\ (x \div m) * m <= x /\ x < (x \div m) * m + m
  OBVIOUS
<1>3. Mean(p, q, a, b) = top \div n
  BY DEF Mean
<1>. HIDE DEF top, n
<1>4. /\ top \div n \in Int /\ (top \div n) * n <= top /\ top < (top \div n) * n + n
  BY <1>1, <1>2
<1> QED
  BY <1>3, <1>4 DEF top, n

\* A footprint of a series: whoever straddles in it is, when narrow, not off by the margin.
OnTheLine(p) ==
    /\ p \in [c : Int, l : Int, r : Int]
    /\ Narrow /\ L!Straddles(p) => p.c <= LineMargin /\ -p.c <= LineMargin

\* A footprint that is measured is one of a series, and so is what is put between two.
LEMMA MeasuredIs ==
  ASSUME LineBounds, NEW p \in Footprints PROVE OnTheLine(p)
BY DEF Footprints, OnTheLine, L!Straddles, LineBounds

LEMMA BetweenIs ==
  ASSUME LineBounds, NEW p \in Footprints, NEW q \in Footprints,
         NEW a \in Nat \ {0}, NEW b \in Nat \ {0}
  PROVE  OnTheLine([c |-> Mean(p.c, q.c, a, b), l |-> Mean(p.l, q.l, a, b),
                    r |-> Mean(p.r, q.r, a, b)])
<1>. DEFINE c == Mean(p.c, q.c, a, b)
            l == Mean(p.l, q.l, a, b)
            r == Mean(p.r, q.r, a, b)
            n == a + b
<1>1. /\ p.c \in Int /\ p.l \in Int /\ p.r \in Int /\ q.c \in Int /\ q.l \in Int /\ q.r \in Int
      /\ n \in Nat \ {0} /\ LineMargin \in Nat
  BY DEF Footprints, LineBounds
<1>2. /\ c \in Int /\ c * n <= p.c * a + q.c * b /\ p.c * a + q.c * b < c * n + n
      /\ l \in Int /\ l * n <= p.l * a + q.l * b /\ p.l * a + q.l * b < l * n + n
      /\ r \in Int /\ r * n <= p.r * a + q.r * b /\ p.r * a + q.r * b < r * n + n
  BY <1>1, MeanIs
<1>. HIDE DEF c, l, r
<1>3. ASSUME Narrow, L!Straddles([c |-> c, l |-> l, r |-> r])
      PROVE  c <= LineMargin /\ -c <= LineMargin
  <2>1. 3 * l + r <= 0 /\ 0 <= 3 * r + l
    BY <1>2, <1>3 DEF L!Straddles
  <2>2. /\ 4 * p.c - 4 * LineMargin <= 3 * p.l + p.r /\ 3 * p.r + p.l <= 4 * p.c + 4 * LineMargin
        /\ 4 * q.c - 4 * LineMargin <= 3 * q.l + q.r /\ 3 * q.r + q.l <= 4 * q.c + 4 * LineMargin
    BY <1>3 DEF Footprints
  <2>3. \A x, y \in Int, k \in Nat : x <= y => x * k <= y * k
    OBVIOUS
  <2>4. /\ (4 * p.c - 4 * LineMargin) * a <= (3 * p.l + p.r) * a
        /\ (4 * q.c - 4 * LineMargin) * b <= (3 * q.l + q.r) * b
        /\ (3 * p.r + p.l) * a <= (4 * p.c + 4 * LineMargin) * a
        /\ (3 * q.r + q.l) * b <= (4 * q.c + 4 * LineMargin) * b
    BY <1>1, <2>2, <2>3
  <2>5. (3 * l + r) * n <= 0 /\ 0 <= (3 * r + l) * n
    BY <1>1, <1>2, <2>1
  <2>6. 4 * (p.c * a + q.c * b) - 4 * LineMargin * n < 4 * n
    <3>. DEFINE lows == p.l * a + q.l * b
                highs == p.r * a + q.r * b
                mids == p.c * a + q.c * b
    <3>1. /\ mids \in Int /\ lows \in Int /\ highs \in Int
          /\ l * n \in Int /\ r * n \in Int /\ LineMargin * n \in Int
      BY <1>1, <1>2
    <3>2. 4 * mids - 4 * (LineMargin * n) <= 3 * lows + highs
      <4>1. \A x, y, z, m \in Int, k \in Nat : (4 * x - 4 * m) * k <= (3 * y + z) * k
                => 4 * (x * k) - 4 * (m * k) <= 3 * (y * k) + z * k
        OBVIOUS
      <4>. DEFINE pmid == p.c * a  pl == p.l * a  pr == p.r * a  pm == LineMargin * a
                  qmid == q.c * b  ql == q.l * b  qr == q.r * b  qm == LineMargin * b
      <4>2. 4 * pmid - 4 * pm <= 3 * pl + pr /\ 4 * qmid - 4 * qm <= 3 * ql + qr
        BY <1>1, <2>4, <4>1
      <4>3. LineMargin * n = pm + qm
        BY <1>1
      <4>4. \A x \in Int, k \in Nat : x * k \in Int
        OBVIOUS
      <4>5. /\ pmid \in Int /\ pl \in Int /\ pr \in Int /\ pm \in Int
            /\ qmid \in Int /\ ql \in Int /\ qr \in Int /\ qm \in Int
        BY <1>1, <4>4
      <4>6. mids = pmid + qmid /\ lows = pl + ql /\ highs = pr + qr
        OBVIOUS
      <4>. HIDE DEF pmid, pl, pr, pm, qmid, ql, qr, qm, mids, lows, highs
      <4> QED
        BY <4>2, <4>3, <4>5, <4>6
    <3>3. lows < l * n + n /\ highs < r * n + n
      BY <1>2
    <3>4. 3 * (l * n) + r * n <= 0
      BY <1>1, <1>2, <2>5
    <3>5. 4 * mids - 4 * (LineMargin * n) < 4 * n
      <4>. HIDE DEF mids, lows, highs
      <4> QED
        BY <1>1, <3>1, <3>2, <3>3, <3>4
    <3> QED
      BY <1>1, <3>5
  <2>7. -4 * LineMargin * n <= 4 * (p.c * a + q.c * b)
    BY <1>1, <1>2, <2>4, <2>5
  <2>8. c * n < (LineMargin + 1) * n /\ (-LineMargin - 1) * n < c * n
    BY <1>1, <1>2, <2>6, <2>7
  <2>9. \A x, y \in Int, k \in Nat \ {0} : x * k < y * k => x < y
    OBVIOUS
  <2>10. c < LineMargin + 1 /\ -LineMargin - 1 < c
    BY <1>1, <1>2, <2>8, <2>9
  <2> QED
    BY <1>1, <1>2, <2>10
<1>4. [c |-> c, l |-> l, r |-> r] \in [c : Int, l : Int, r : Int]
  BY <1>2
<1> QED
  BY <1>3, <1>4 DEF OnTheLine, c, l, r

\* The series has a sample where the track has, and each is a footprint or unknown.
LEMMA SeriesIs ==
  ASSUME LineBounds, LinesInv
  PROVE  /\ DOMAIN L!Series = 1..Len(raw) /\ Len(raw) \in Nat
         /\ \A k \in 1..Len(raw) : L!Series[k] # None => OnTheLine(L!Series[k])
<1>1. /\ Len(raw) \in Nat /\ DOMAIN raw = 1..Len(raw)
      /\ \A k \in 1..Len(raw) : raw[k] # None => raw[k] \in Footprints
  <2>1. Len(raw) \in Nat /\ DOMAIN raw = 1..Len(raw)
    BY DEF LinesInv
  <2>2. \A k \in 1..Len(raw) : raw[k] \in Footprints \cup {None}
    BY DEF LinesInv
  <2> QED
    BY <2>1, <2>2
<1>2. ASSUME NEW k \in 1..Len(raw), raw[k] = None, L!Ends(k) # {}
      PROVE  OnTheLine(L!Series[k])
  <2>. DEFINE e == CHOOSE e \in L!Ends(k) : TRUE
  <2>1. e \in L!Ends(k)
    BY <1>2
  <2>. DEFINE mix(p, q) == (p * (e[2] - k) + q * (k - e[1])) \div (e[2] - e[1])
  <2>2. L!Series[k] = [c |-> mix(raw[e[1]].c, raw[e[2]].c), l |-> mix(raw[e[1]].l, raw[e[2]].l),
                       r |-> mix(raw[e[1]].r, raw[e[2]].r)]
    BY <1>1, <1>2 DEF L!Series
  <2>. HIDE DEF e
  <2>3. /\ e[1] \in 1..Len(raw) /\ e[2] \in 1..Len(raw) /\ e[1] < k /\ k < e[2]
        /\ raw[e[1]] # None /\ raw[e[2]] # None
    BY <1>1, <2>1 DEF L!Ends
  <2>4. raw[e[1]] \in Footprints /\ raw[e[2]] \in Footprints
    BY <1>1, <2>3
  <2>. DEFINE a == e[2] - k
              b == k - e[1]
  <2>5. a \in Nat \ {0} /\ b \in Nat \ {0} /\ e[2] - e[1] = a + b
    BY <1>1, <2>3
  <2>6. \A p, q : mix(p, q) = Mean(p, q, a, b)
    BY <2>5 DEF Mean
  <2>. HIDE DEF mix, a, b
  <2>7. L!Series[k] = [c |-> Mean(raw[e[1]].c, raw[e[2]].c, a, b),
                       l |-> Mean(raw[e[1]].l, raw[e[2]].l, a, b),
                       r |-> Mean(raw[e[1]].r, raw[e[2]].r, a, b)]
    BY <2>2, <2>6
  <2>8. OnTheLine([c |-> Mean(raw[e[1]].c, raw[e[2]].c, a, b),
                   l |-> Mean(raw[e[1]].l, raw[e[2]].l, a, b),
                   r |-> Mean(raw[e[1]].r, raw[e[2]].r, a, b)])
    BY <2>4, <2>5, BetweenIs
  <2> QED
    BY <2>7, <2>8
<1>3. ASSUME NEW k \in 1..Len(raw), ~(raw[k] = None /\ L!Ends(k) # {})
      PROVE  L!Series[k] = raw[k]
  BY <1>1, <1>3 DEF L!Series
<1>4. DOMAIN L!Series = 1..Len(raw)
  BY <1>1 DEF L!Series
<1> QED
  BY <1>1, <1>2, <1>3, <1>4, MeasuredIs

\* A series as the events are read from: footprints, and samples without one.
SeriesOf(s, n) == n \in Nat /\ DOMAIN s = 1..n /\ \A k \in 1..n : s[k] # None => OnTheLine(s[k])

\* Where a vehicle is committed to a side it is off the line by more than the margin on this
\* side, and the stretches it is committed in lie apart.
LEMMA CommittedAre ==
  ASSUME LineBounds, NEW s, NEW n, SeriesOf(s, n)
  PROVE  /\ \A r \in L!Committed(s) :
                /\ r.first \in 1..n /\ r.last \in 1..n /\ r.first <= r.last
                /\ r.side \in {1, -1}
                /\ s[r.first] # None /\ s[r.first].c * r.side > LineMargin
                /\ s[r.last] # None /\ s[r.last].c * r.side > LineMargin
         /\ \A p, q \in L!Committed(s) : p = q \/ p.last < q.first \/ q.last < p.first
<1>. DEFINE off(d) == {k \in DOMAIN s : s[k] # None /\ s[k].c * d > LineMargin}
<1>1. ASSUME NEW r \in L!Committed(s)
      PROVE  /\ r.side \in {1, -1} /\ r.first \in off(r.side) /\ r.last \in off(r.side)
             /\ r.first..r.last \subseteq off(r.side)
             /\ r.first - 1 \notin off(r.side) /\ r.last + 1 \notin off(r.side)
             /\ r.last - r.first + 1 >= Hold
             /\ r = [first |-> r.first, last |-> r.last, side |-> r.side]
  <2>1. PICK d \in {1, -1} : \E u \in L!Runs(off(d), Hold) :
           r = [first |-> u[1], last |-> u[2], side |-> d]
    BY DEF L!Committed
  <2>. PICK u \in L!Runs(off(d), Hold) : r = [first |-> u[1], last |-> u[2], side |-> d]
    BY <2>1
  <2>2. r.first = u[1] /\ r.last = u[2] /\ r.side = d
    OBVIOUS
  <2>. HIDE DEF off
  <2>3. /\ u[1] \in off(d) /\ u[2] \in off(d) /\ u[1]..u[2] \subseteq off(d)
        /\ u[1] - 1 \notin off(d) /\ u[2] + 1 \notin off(d) /\ u[2] - u[1] + 1 >= Hold
    BY DEF L!Runs
  <2> QED
    BY <2>2, <2>3
<1>2. \A d : off(d) \subseteq 1..n
  BY DEF SeriesOf
<1>3. off(1) \cap off(-1) = {}
  <2>. SUFFICES ASSUME NEW k \in 1..n, s[k] # None, s[k].c * 1 > LineMargin,
                       s[k].c * (-1) > LineMargin
                PROVE  FALSE
    BY DEF SeriesOf
  <2>1. s[k].c \in Int
    BY DEF SeriesOf, OnTheLine
  <2> QED
    BY <2>1 DEF LineBounds
<1>4. ASSUME NEW r \in L!Committed(s)
      PROVE  r.first \in 1..n /\ r.last \in 1..n /\ r.first <= r.last
  <2>1. r.first \in 1..n /\ r.last \in 1..n
    BY <1>1, <1>2
  <2> QED
    BY <1>1, <2>1 DEF LineBounds, SeriesOf
<1>5. ASSUME NEW r \in L!Committed(s)
      PROVE  /\ s[r.first] # None /\ s[r.first].c * r.side > LineMargin
             /\ s[r.last] # None /\ s[r.last].c * r.side > LineMargin
  BY <1>1
<1>. HIDE DEF off
<1>6. ASSUME NEW p \in L!Committed(s), NEW q \in L!Committed(s),
             p.first <= q.first, q.first <= p.last
      PROVE  p = q
  <2>1. q.first \in p.first..p.last /\ q.first \in off(p.side) /\ n \in Nat
    BY <1>1, <1>4, <1>6 DEF SeriesOf
  <2>2. p.side = q.side
    BY <1>1, <1>3, <2>1
  <2>3. p.first = q.first
    <3>. SUFFICES ASSUME p.first < q.first PROVE FALSE
      BY <1>4, <1>6, <2>1
    <3>1. q.first - 1 \in p.first..p.last
      BY <1>4, <1>6, <2>1
    <3> QED
      BY <1>1, <2>2, <3>1
  <2>4. ASSUME p.last < q.last PROVE FALSE
    <3>1. p.last + 1 \in q.first..q.last
      BY <1>4, <1>6, <2>1, <2>4
    <3> QED
      BY <1>1, <2>2, <3>1
  <2>5. ASSUME q.last < p.last PROVE FALSE
    <3>1. q.last + 1 \in p.first..p.last
      BY <1>4, <1>6, <2>1, <2>3, <2>5
    <3> QED
      BY <1>1, <2>2, <3>1
  <2>6. p.last = q.last
    BY <1>4, <2>1, <2>4, <2>5
  <2> QED
    BY <1>1, <2>2, <2>3, <2>6
<1>7. ASSUME NEW p \in L!Committed(s), NEW q \in L!Committed(s)
      PROVE  p = q \/ p.last < q.first \/ q.last < p.first
  <2>1. p = q \/ ~(p.first <= q.first /\ q.first <= p.last)
    BY <1>6
  <2>2. p = q \/ ~(q.first <= p.first /\ p.first <= q.last)
    BY <1>6
  <2>3. n \in Nat
    BY DEF SeriesOf
  <2> QED
    BY <1>4, <2>1, <2>2, <2>3
<1> QED
  BY <1>1, <1>4, <1>5, <1>7

\* Crossings follow each other, and between two the same way lies one back.
LEMMA Alternating ==
  ASSUME LineBounds, NEW s, NEW n, SeriesOf(s, n),
         NEW c \in L!Crossings(s), NEW d \in L!Crossings(s), c.first < d.first
  PROVE  /\ c.last <= d.first
         /\ c.from = d.from => \E r \in L!Committed(s) :
                r.side = c.from /\ c.last <= r.first /\ r.last <= d.first
<1>1. PICK p \in L!Neighbours(s) :
         /\ c = [first |-> p[1].last, last |-> p[2].first, from |-> p[1].side]
         /\ p[1].side # p[2].side
  BY DEF L!Crossings
<1>2. PICK q \in L!Neighbours(s) :
         /\ d = [first |-> q[1].last, last |-> q[2].first, from |-> q[1].side]
         /\ q[1].side # q[2].side
  BY DEF L!Crossings
<1>3. /\ p[1] \in L!Committed(s) /\ p[2] \in L!Committed(s) /\ q[1] \in L!Committed(s)
      /\ \A r \in L!Committed(s) : r.first <= p[1].first \/ p[2].first <= r.first
  BY DEF L!Neighbours
<1>4. /\ c.first = p[1].last /\ c.last = p[2].first /\ c.from = p[1].side
      /\ d.first = q[1].last /\ d.from = q[1].side
  BY <1>1, <1>2
<1>5. /\ \A r \in L!Committed(s) :
             r.first \in 1..n /\ r.last \in 1..n /\ r.first <= r.last
      /\ p[1] = q[1] \/ p[1].last < q[1].first \/ q[1].last < p[1].first
  BY <1>3, CommittedAre
<1>6. n \in Nat
  BY DEF SeriesOf
<1>7. p[1].last < q[1].first
  BY <1>3, <1>4, <1>5, <1>6
<1>8. c.last <= q[1].first /\ q[1].first <= d.first /\ q[1].last = d.first
  BY <1>3, <1>4, <1>5, <1>6, <1>7
<1> QED
  BY <1>3, <1>4, <1>5, <1>6, <1>8

\* A strafe that shares a sample with a crossing runs over an end of it: what lies within is
\* folded into it. There the vehicle is committed and straddles, and is not narrow.
LEMMA StrafesApart ==
  ASSUME LineBounds, LinesInv, NEW c \in L!Crossings(L!Series), NEW r \in L!Strafes(L!Series),
         L!Shared(c, r)
  PROVE  /\ \E tenth \in Tenths : 3 * tenth > LineMargin
         /\ \E k \in {c.first, c.last} :
               /\ r[1] <= k /\ k <= r[2]
               /\ L!Straddles(L!Series[k]) /\ L!Abs(L!Series[k].c) > LineMargin
<1>. DEFINE s == L!Series
            n == Len(raw)
            across == {k \in DOMAIN s : s[k] # None /\ L!Straddles(s[k])}
<1>1. SeriesOf(s, n)
  BY SeriesIs DEF SeriesOf
<1>2. PICK p \in L!Neighbours(s) :
         c = [first |-> p[1].last, last |-> p[2].first, from |-> p[1].side]
  BY DEF L!Crossings
<1>3. p[1] \in L!Committed(s) /\ p[2] \in L!Committed(s)
  BY DEF L!Neighbours
<1>4. r \in L!Runs(across, StraddleHold) /\ L!Folded(r, L!Crossings(s))
  BY DEF L!Strafes
<1>. HIDE DEF s, across
<1>5. c.first = p[1].last /\ c.last = p[2].first
  BY <1>2
<1>6. /\ c.first \in 1..n /\ c.last \in 1..n
      /\ p[1].side \in {1, -1} /\ s[c.first] # None /\ s[c.first].c * p[1].side > LineMargin
      /\ p[2].side \in {1, -1} /\ s[c.last] # None /\ s[c.last].c * p[2].side > LineMargin
  BY <1>1, <1>3, <1>5, CommittedAre
<1>7. r[1] \in across /\ r[2] \in across /\ r[1]..r[2] \subseteq across
  BY <1>4 DEF L!Runs
<1>8. r[1] \in 1..n /\ r[2] \in 1..n
  BY <1>1, <1>7 DEF across, SeriesOf
<1>9. ASSUME NEW k \in 1..n, NEW d \in {1, -1}, s[k] # None, s[k].c * d > LineMargin
      PROVE  L!Abs(s[k].c) > LineMargin /\ (k \in across => ~Narrow)
  <2>1. OnTheLine(s[k]) /\ s[k].c \in Int /\ LineMargin \in Nat
    BY <1>1, <1>9 DEF SeriesOf, OnTheLine, LineBounds
  <2>2. L!Abs(s[k].c) > LineMargin
    BY <1>9, <2>1 DEF L!Abs
  <2>3. ~(s[k].c <= LineMargin /\ -s[k].c <= LineMargin)
    BY <1>9, <2>1
  <2>4. k \in across => L!Straddles(s[k])
    BY DEF across
  <2> QED
    BY <2>1, <2>2, <2>3, <2>4 DEF OnTheLine
<1>10. ~(frames[c.first] <= frames[r[1]] /\ frames[r[2]] <= frames[c.last])
  BY <1>4 DEF L!Folded, s
<1>11. /\ n \in Nat /\ DOMAIN frames = 1..n /\ \A k \in 1..n : frames[k] \in Nat
       /\ \A i, j \in 1..n : i < j => frames[i] < frames[j]
  BY DEF LinesInv
<1>. HIDE DEF n
<1>12. ~(c.first <= r[1] /\ r[2] <= c.last)
  <2>1. \A i, j \in 1..n : i <= j => frames[i] <= frames[j]
    BY <1>11
  <2> QED
    BY <1>6, <1>8, <1>10, <2>1
<1>13. r[1] <= c.last /\ c.first <= r[2]
  BY DEF L!Shared
<1>14. PICK k \in {c.first, c.last} : r[1] <= k /\ k <= r[2]
  BY <1>6, <1>8, <1>11, <1>12, <1>13
<1>15. k \in across /\ k \in 1..n
  BY <1>6, <1>7, <1>8, <1>11, <1>14
<1>16. L!Abs(s[k].c) > LineMargin /\ ~Narrow /\ L!Straddles(s[k])
  BY <1>6, <1>9, <1>14, <1>15 DEF across
<1>17. \E tenth \in Tenths : 3 * tenth > LineMargin
  BY <1>16 DEF Narrow, LineBounds
<1> QED
  BY <1>14, <1>16, <1>17 DEF s

\* MCDetect takes the steps of LineEvents in its part, and no others.
LEMMA LinesPart ==
    /\ DriveInit /\ part = "lines" => L!Init
    /\ [DriveNext]_DriveVars => part' = part /\ (part = "lines" => [L!Next]_L!vars)
BY DEF DriveInit, DriveNext, DriveVars, linesVars, L!vars

\* A manoeuvre across a line is one event, whatever the offsets and the width of the vehicle
\* and wherever the car looks: a strafe has a sample in common with a crossing only where the
\* vehicle keeps to its side with the line under it, which no narrow one does, and two
\* crossings the same way have one back between.
THEOREM ManoeuvresToldOnce ==
    LineBounds /\ DriveSpec => [](part = "lines" => L!OneManoeuvre)
<1>. SUFFICES ASSUME LineBounds PROVE DriveSpec => [](part = "lines" => L!OneManoeuvre)
  OBVIOUS
<1>1. L!Init => LinesInv
  BY DEF L!Init, LinesInv
<1>2. DriveInit => (part = "lines" => LinesInv)
  BY <1>1, LinesPart
<1>3. (part = "lines" => LinesInv) /\ [DriveNext]_DriveVars => (part = "lines" => LinesInv)'
  BY LinesPart, LinesStep
<1>4. LinesInv => L!OneManoeuvre
  <2>. SUFFICES ASSUME LinesInv PROVE L!OneManoeuvre
    OBVIOUS
  <2>1. SeriesOf(L!Series, Len(raw))
    BY SeriesIs DEF SeriesOf
  <2>2. L!CrossingsAlternate
    BY <2>1, Alternating DEF L!CrossingsAlternate
  <2> QED
    BY <2>2, StrafesApart DEF L!OneManoeuvre, L!ToldTwiceOnlyIfWide
<1> QED
  BY <1>2, <1>3, <1>4, PTL DEF DriveSpec

-----------------------------------------------------------------------------
(* SpeedingEpisodes *)

SpeedingBounds ==
    /\ DriveFrames \in Nat /\ RoadSpeeds \subseteq Int /\ Threshold \in Int
    /\ MaxGap \in Nat /\ ReportCooldown \in Nat /\ MinFramesOver \in Int

\* An episode is some frames over the line with no longer break than a bridged one.
Episodes == {ep \in SUBSET (1..DriveFrames) :
    /\ ep # {} /\ \A f \in ep : E!IsOver(f)
    /\ \A f, h \in ep : f < h => \E g \in ep : f < g /\ g <= f + MaxGap + 1}

\* Every frame over the line is in an episode or still to be grouped, after all that are; two
\* episodes lie further apart than a break that is bridged.
GroupedInv ==
    /\ speedingSpeed \in [1..DriveFrames -> RoadSpeeds \cup {None}]
    /\ todo \subseteq 1..DriveFrames /\ \A f \in todo : E!IsOver(f)
    /\ episodes \in Seq(Episodes)
    /\ \A f \in 1..DriveFrames :
           E!IsOver(f) => f \in todo \/ \E k \in DOMAIN episodes : f \in episodes[k]
    /\ \A k \in DOMAIN episodes : \A f \in episodes[k], g \in todo : f < g
    /\ \A j, k \in DOMAIN episodes : j < k =>
           \A f \in episodes[j], g \in episodes[k] : g - f > MaxGap + 1

\* What is reported is an episode that was judged; the last onset that counts is one, too, no
\* earlier than any that was reported; and an episode that was judged is reported, is too
\* short, or began within the cooldown of one before.
JudgedInv ==
    /\ judged \in 0..Len(episodes)
    /\ judged > 0 => todo = {}
    /\ events \in Seq({E!Event(episodes[k]) : k \in 1..judged})
    /\ lastOnset \in {0} \cup {E!Min(episodes[k]) : k \in 1..judged}
    /\ \A i \in DOMAIN events : lastOnset # 0 /\ events[i].onset <= lastOnset
    /\ \A i, j \in DOMAIN events :
           i < j => events[j].onset - events[i].onset > ReportCooldown
    /\ \A k \in 1..judged :
           \/ E!Cardinality(episodes[k]) < MinFramesOver
           \/ \E i \in DOMAIN events : events[i].onset = E!Min(episodes[k])
           \/ \E j \in 1..k - 1 :
                  E!Min(episodes[k]) - E!Min(episodes[j]) <= ReportCooldown

SpeedingInv == GroupedInv /\ JudgedInv

\* The first and the last frame of an episode.
LEMMA EpisodeEnds ==
  ASSUME SpeedingBounds, NEW ep \in Episodes
  PROVE  /\ E!Min(ep) \in ep /\ \A f \in ep : E!Min(ep) <= f
         /\ E!Max(ep) \in ep /\ \A f \in ep : f <= E!Max(ep)
<1>1. ep \subseteq 1..DriveFrames /\ ep # {} /\ DriveFrames \in Nat
  BY DEF Episodes, SpeedingBounds
<1>2. ep \subseteq Nat /\ ep \subseteq Int /\ DriveFrames \in Int
      /\ \A f \in ep : f <= DriveFrames
  BY <1>1
<1>3. PICK m \in ep : \A f \in ep : m <= f
  BY <1>1, <1>2, LeastNatural
<1>4. E!Min(ep) \in ep /\ \A f \in ep : E!Min(ep) <= f
  BY <1>3 DEF E!Min
<1>5. Largest(ep) \in ep /\ \A f \in ep : f <= Largest(ep)
  BY <1>1, <1>2, LargestIs
<1>6. E!Max(ep) = Largest(ep)
  BY DEF E!Max, Largest
<1> QED
  BY <1>4, <1>5, <1>6

\* A frame extends the last episode when the break before it is bridged, or opens one.
LEMMA GroupStep ==
  ASSUME SpeedingBounds, SpeedingInv, E!Group PROVE SpeedingInv'
<1>1. PICK f \in todo :
         /\ \A g \in todo : f <= g
         /\ todo' = todo \ {f}
         /\ episodes' = IF E!Extends(f)
                        THEN [episodes EXCEPT ![Len(episodes)] = @ \cup {f}]
                        ELSE Append(episodes, {f})
         /\ UNCHANGED <<speedingSpeed, judged, lastOnset, events>>
  BY DEF E!Group
<1>. DEFINE n == Len(episodes)
<1>2. /\ n \in Nat /\ DOMAIN episodes = 1..n /\ episodes \in Seq(Episodes)
      /\ \A k \in 1..n : episodes[k] \in Episodes
      /\ DriveFrames \in Nat /\ MaxGap \in Nat /\ f \in 1..DriveFrames /\ E!IsOver(f)
      /\ todo \subseteq 1..DriveFrames
  BY DEF SpeedingInv, GroupedInv, SpeedingBounds
<1>3. /\ \A k \in 1..n : \A g \in episodes[k] : g \in 1..DriveFrames /\ g < f
      /\ \A j, k \in 1..n : j < k =>
             \A g \in episodes[j], h \in episodes[k] : h - g > MaxGap + 1
  <2>1. \A k \in 1..n : \A g \in episodes[k] : g \in 1..DriveFrames
    BY <1>2 DEF Episodes
  <2> QED
    BY <1>2, <2>1 DEF SpeedingInv, GroupedInv
<1>4. judged = 0 /\ JudgedInv
  BY DEF SpeedingInv, JudgedInv
<1>. HIDE DEF n
<1>5. Episodes' = Episodes
  BY <1>1 DEF Episodes, E!IsOver
<1>6. /\ speedingSpeed' \in [1..DriveFrames -> RoadSpeeds \cup {None}]
      /\ todo' \subseteq 1..DriveFrames /\ (\A g \in todo : E!IsOver(g))'
  BY <1>1 DEF SpeedingInv, GroupedInv, E!IsOver
<1>7. CASE E!Extends(f)
  <2>. DEFINE ep == episodes[n] \cup {f}
  <2>1. n \in 1..n /\ f - E!Max(episodes[n]) <= MaxGap + 1
    BY <1>2, <1>7 DEF E!Extends, n
  <2>2. episodes[n] \in Episodes
    BY <1>2, <2>1
  <2>3. /\ E!Max(episodes[n]) \in episodes[n]
        /\ \A g \in episodes[n] : g <= E!Max(episodes[n])
    BY <2>2, EpisodeEnds
  <2>4. /\ DOMAIN episodes' = 1..n /\ episodes'[n] = ep
        /\ \A k \in 1..n : k # n => episodes'[k] = episodes[k]
        /\ episodes' = [episodes EXCEPT ![n] = ep]
    BY <1>1, <1>2, <1>7, <2>1 DEF n
  <2>5. ep \in Episodes
    <3>1. ep \subseteq 1..DriveFrames /\ ep # {} /\ \A g \in ep : E!IsOver(g)
      BY <1>2, <2>2 DEF Episodes
    <3>2. ASSUME NEW g \in ep, NEW h \in ep, g < h
          PROVE  \E x \in ep : g < x /\ x <= g + MaxGap + 1
      <4>1. g \in episodes[n]
        BY <1>2, <1>3, <2>1, <3>1, <3>2
      <4>2. CASE h \in episodes[n]
        BY <2>2, <3>2, <4>1, <4>2 DEF Episodes
      <4>3. CASE h = f /\ g = E!Max(episodes[n])
        <5>1. f \in ep /\ g < f /\ f <= g + MaxGap + 1
          BY <1>2, <2>1, <3>1, <3>2, <4>3
        <5> QED
          BY <5>1
      <4>4. CASE h = f /\ g # E!Max(episodes[n])
        <5>1. g < E!Max(episodes[n])
          BY <1>3, <2>1, <2>3, <4>1, <4>4
        <5> QED
          BY <2>2, <2>3, <4>1, <5>1 DEF Episodes
      <4> QED
        BY <3>2, <4>2, <4>3, <4>4
    <3> QED
      BY <3>1, <3>2 DEF Episodes
  <2>. HIDE DEF ep
  <2>6. episodes' \in Seq(Episodes) /\ Len(episodes') = n
    <3>1. n \in 1..Len(episodes)
      BY <2>1 DEF n
    <3>2. episodes \in Seq(Episodes)
      BY <1>2
    <3>3. /\ [episodes EXCEPT ![n] = ep] \in Seq(Episodes)
          /\ Len([episodes EXCEPT ![n] = ep]) = Len(episodes)
      BY <2>5, <3>1, <3>2, ExceptSeq
    <3> QED
      BY <2>4, <3>3 DEF n
  <2>7. \A g : g \in ep <=> g \in episodes[n] \/ g = f
    BY DEF ep
  <2>8. \A g \in 1..DriveFrames : E!IsOver(g) =>
            g \in todo' \/ \E k \in 1..n : g \in episodes'[k]
    <3>1. \A g \in 1..DriveFrames : E!IsOver(g) =>
              g \in todo \/ \E k \in 1..n : g \in episodes[k]
      BY <1>2 DEF SpeedingInv, GroupedInv
    <3>2. \A k \in 1..n : \A g \in episodes[k] : g \in episodes'[k]
      BY <2>4, <2>7
    <3>3. \A g \in todo : g \in todo' \/ g = f
      BY <1>1
    <3>4. f \in episodes'[n]
      BY <2>4, <2>7
    <3> QED
      BY <2>1, <3>1, <3>2, <3>3, <3>4
  <2>9. \A k \in 1..n : \A g \in episodes'[k] : g \in episodes[k] \/ (k = n /\ g = f)
    BY <2>4, <2>7
  <2>10. \A k \in 1..n : \A g \in episodes'[k], h \in todo' : g < h
    <3>1. \A h \in todo' : h \in 1..DriveFrames /\ f < h
      BY <1>1, <1>2
    <3> QED
      BY <1>2, <1>3, <2>9, <3>1
  <2>11. ASSUME NEW j \in 1..n, NEW k \in 1..n, j < k,
                NEW g \in episodes'[j], NEW h \in episodes'[k]
         PROVE  h - g > MaxGap + 1
    <3>1. g \in episodes[j] /\ g \in 1..DriveFrames
      BY <1>2, <1>3, <2>9, <2>11
    <3>2. CASE h \in episodes[k]
      BY <1>3, <2>11, <3>1, <3>2
    <3>3. CASE h = f /\ k = n
      <4>1. E!Max(episodes[n]) - g > MaxGap + 1 /\ E!Max(episodes[n]) < f
            /\ E!Max(episodes[n]) \in 1..DriveFrames
        BY <1>3, <2>1, <2>3, <2>11, <3>1, <3>3
      <4> QED
        BY <1>2, <3>1, <3>3, <4>1
    <3> QED
      BY <2>9, <2>11, <3>2, <3>3
  <2>12. GroupedInv'
    <3>1. (episodes \in Seq(Episodes))'
      BY <1>5, <2>6
    <3>2. (\A g \in 1..DriveFrames :
             E!IsOver(g) => g \in todo \/ \E k \in DOMAIN episodes : g \in episodes[k])'
      BY <1>1, <2>4, <2>8 DEF E!IsOver
    <3> QED
      BY <1>6, <2>4, <2>10, <2>11, <3>1, <3>2 DEF GroupedInv
  <2>13. JudgedInv'
    BY <1>1, <1>2, <1>4, <2>6 DEF JudgedInv
  <2> QED
    BY <2>12, <2>13 DEF SpeedingInv
<1>8. CASE ~E!Extends(f)
  <2>1. /\ episodes' = Append(episodes, {f})
        /\ n # 0 => f - E!Max(episodes[n]) > MaxGap + 1
    <3>1. n # 0 => ~(f - E!Max(episodes[n]) <= MaxGap + 1)
      BY <1>2, <1>8 DEF E!Extends, n
    <3>2. ASSUME n # 0 PROVE E!Max(episodes[n]) \in 1..DriveFrames
      <4>1. episodes[n] \in Episodes
        BY <1>2, <3>2
      <4>2. E!Max(episodes[n]) \in episodes[n]
        BY <4>1, EpisodeEnds
      <4> QED
        BY <4>1, <4>2 DEF Episodes
    <3> QED
      BY <1>1, <1>2, <1>8, <3>1, <3>2
  <2>2. {f} \in Episodes
    BY <1>2 DEF Episodes
  <2>3. /\ episodes' \in Seq(Episodes) /\ Len(episodes') = n + 1
        /\ DOMAIN episodes' = 1..n + 1 /\ episodes'[n + 1] = {f}
        /\ \A k \in 1..n : episodes'[k] = episodes[k]
    BY <1>2, <2>1, <2>2 DEF n
  <2>4. \A g \in 1..DriveFrames : E!IsOver(g) =>
            g \in todo' \/ \E k \in 1..n + 1 : g \in episodes'[k]
    <3>1. \A g \in 1..DriveFrames : E!IsOver(g) =>
              g \in todo \/ \E k \in 1..n : g \in episodes[k]
      BY <1>2 DEF SpeedingInv, GroupedInv
    <3>2. \A g \in todo : g \in todo' \/ g = f
      BY <1>1
    <3>3. n + 1 \in 1..n + 1 /\ f \in episodes'[n + 1] /\ \A k \in 1..n : k \in 1..n + 1
      BY <1>2, <2>3
    <3> QED
      BY <2>3, <3>1, <3>2, <3>3
  <2>5. \A k \in 1..n + 1 : \A g \in episodes'[k], h \in todo' : g < h
    <3>1. \A h \in todo' : h \in 1..DriveFrames /\ f < h
      BY <1>1, <1>2
    <3>2. \A k \in 1..n + 1 : k \in 1..n \/ k = n + 1
      BY <1>2
    <3> QED
      BY <1>2, <1>3, <2>3, <3>1, <3>2
  <2>6. ASSUME NEW j \in 1..n + 1, NEW k \in 1..n + 1, j < k,
               NEW g \in episodes'[j], NEW h \in episodes'[k]
        PROVE  h - g > MaxGap + 1
    <3>1. j \in 1..n /\ g \in episodes[j] /\ g \in 1..DriveFrames
      BY <1>2, <1>3, <2>3, <2>6
    <3>2. CASE k \in 1..n
      BY <1>3, <2>3, <2>6, <3>1, <3>2
    <3>3. CASE k = n + 1
      <4>1. h = f /\ n \in 1..n /\ episodes[n] \in Episodes
        BY <1>2, <2>3, <2>6, <3>1, <3>3
      <4>2. /\ E!Max(episodes[n]) \in episodes[n]
            /\ \A x \in episodes[n] : x <= E!Max(episodes[n])
        BY <4>1, EpisodeEnds
      <4>3. E!Max(episodes[n]) \in 1..DriveFrames /\ f - E!Max(episodes[n]) > MaxGap + 1
        BY <1>2, <1>3, <2>1, <4>1, <4>2
      <4>4. CASE j = n
        BY <1>2, <3>1, <4>1, <4>2, <4>3, <4>4
      <4>5. CASE j # n
        <5>1. E!Max(episodes[n]) - g > MaxGap + 1
          BY <1>2, <1>3, <3>1, <4>1, <4>2, <4>5
        <5> QED
          BY <1>2, <3>1, <4>1, <4>3, <5>1
      <4> QED
        BY <4>4, <4>5
    <3> QED
      BY <1>2, <3>2, <3>3
  <2>7. GroupedInv'
    <3>1. (episodes \in Seq(Episodes))'
      BY <1>5, <2>3
    <3>2. (\A g \in 1..DriveFrames :
             E!IsOver(g) => g \in todo \/ \E k \in DOMAIN episodes : g \in episodes[k])'
      BY <1>1, <2>3, <2>4 DEF E!IsOver
    <3> QED
      BY <1>6, <2>3, <2>5, <2>6, <3>1, <3>2 DEF GroupedInv
  <2>8. JudgedInv'
    BY <1>1, <1>2, <1>4, <2>3 DEF JudgedInv
  <2> QED
    BY <2>7, <2>8 DEF SpeedingInv
<1> QED
  BY <1>7, <1>8

\* The first frames of the episodes: numbers of frames, in order.
LEMMA OnsetsInOrder ==
  ASSUME SpeedingBounds, GroupedInv
  PROVE  /\ \A k \in 1..Len(episodes) : E!Min(episodes[k]) \in 1..DriveFrames
         /\ \A j, k \in 1..Len(episodes) :
                j < k => E!Min(episodes[j]) < E!Min(episodes[k])
<1>1. /\ DOMAIN episodes = 1..Len(episodes) /\ MaxGap \in Nat /\ DriveFrames \in Nat
      /\ \A k \in 1..Len(episodes) : episodes[k] \in Episodes
  BY DEF GroupedInv, SpeedingBounds
<1>2. ASSUME NEW k \in 1..Len(episodes)
      PROVE  E!Min(episodes[k]) \in episodes[k] /\ E!Min(episodes[k]) \in 1..DriveFrames
  <2>1. E!Min(episodes[k]) \in episodes[k]
    BY <1>1, EpisodeEnds
  <2> QED
    BY <1>1, <2>1 DEF Episodes
<1>3. ASSUME NEW j \in 1..Len(episodes), NEW k \in 1..Len(episodes), j < k
      PROVE  E!Min(episodes[j]) < E!Min(episodes[k])
  <2>1. E!Min(episodes[k]) - E!Min(episodes[j]) > MaxGap + 1
    BY <1>1, <1>2, <1>3 DEF GroupedInv
  <2> QED
    BY <1>1, <1>2, <2>1
<1> QED
  BY <1>2, <1>3

\* Judging an episode reports it unless it is too short or the cooldown is on.
LEMMA JudgeStep ==
  ASSUME SpeedingBounds, SpeedingInv, E!Judge PROVE SpeedingInv'
<1>. DEFINE k == judged + 1
            ep == episodes[k]
            on == E!Min(ep)
            reports(m) == {E!Event(episodes[j]) : j \in 1..m}
            onsets(m) == {E!Min(episodes[j]) : j \in 1..m}
<1>1. /\ todo = {} /\ judged < Len(episodes) /\ judged' = k
      /\ UNCHANGED <<speedingSpeed, todo, episodes>>
      /\ \/ E!Cooling(on) /\ UNCHANGED <<lastOnset, events>>
         \/ /\ ~E!Cooling(on) /\ lastOnset' = on
            /\ events' = IF E!Cardinality(ep) < MinFramesOver THEN events
                         ELSE Append(events, E!Event(ep))
  BY DEF E!Judge
<1>2. /\ judged \in Nat /\ Len(episodes) \in Nat /\ k \in 1..Len(episodes)
      /\ 1..judged \subseteq 1..Len(episodes)
      /\ ReportCooldown \in Nat /\ DriveFrames \in Nat
      /\ events \in Seq(reports(judged)) /\ lastOnset \in {0} \cup onsets(judged)
  BY <1>1 DEF SpeedingInv, GroupedInv, JudgedInv, SpeedingBounds
<1>3. /\ on \in 1..DriveFrames
      /\ \A j \in 1..judged : /\ E!Min(episodes[j]) \in 1..DriveFrames
                              /\ E!Min(episodes[j]) < on
  <2>1. /\ \A j \in 1..Len(episodes) : E!Min(episodes[j]) \in 1..DriveFrames
        /\ \A i, j \in 1..Len(episodes) :
               i < j => E!Min(episodes[i]) < E!Min(episodes[j])
    BY OnsetsInOrder DEF SpeedingInv
  <2>2. \A j \in 1..judged : j \in 1..Len(episodes) /\ j < k
    BY <1>2
  <2>. HIDE DEF k
  <2> QED
    BY <1>2, <2>1, <2>2
<1>4. GroupedInv'
  BY <1>1 DEF SpeedingInv, GroupedInv, Episodes, E!IsOver
<1>5. /\ E!Event(ep).onset = on
      /\ \A i \in DOMAIN events : /\ events[i].onset \in 1..DriveFrames
                                  /\ lastOnset # 0 /\ events[i].onset <= lastOnset
  <2>1. \A q : E!Event(q).onset = E!Min(q)
    BY DEF E!Event
  <2>2. \A i \in DOMAIN events : events[i] \in reports(judged)
    BY <1>2
  <2>3. \A i \in DOMAIN events : events[i].onset \in 1..DriveFrames
    BY <1>3, <2>1, <2>2
  <2> QED
    BY <2>1, <2>3 DEF SpeedingInv, JudgedInv
<1>6. lastOnset # 0 => lastOnset \in 1..DriveFrames /\ lastOnset < on
                       /\ \E j \in 1..judged : lastOnset = E!Min(episodes[j])
  BY <1>2, <1>3
<1>7. reports(judged) \subseteq reports(k) /\ E!Event(ep) \in reports(k)
      /\ onsets(judged) \subseteq onsets(k) /\ on \in onsets(k)
  <2>1. 1..judged \subseteq 1..k /\ k \in 1..k
    BY <1>2
  <2> QED
    BY <2>1
<1>8. /\ \A i, j \in DOMAIN events :
             i < j => events[j].onset - events[i].onset > ReportCooldown
      /\ \A j \in 1..judged :
             \/ E!Cardinality(episodes[j]) < MinFramesOver
             \/ \E i \in DOMAIN events : events[i].onset = E!Min(episodes[j])
             \/ \E i \in 1..j - 1 :
                    E!Min(episodes[j]) - E!Min(episodes[i]) <= ReportCooldown
  BY DEF SpeedingInv, JudgedInv
<1>9. (reports(judged))' = reports(k) /\ (onsets(judged))' = onsets(k)
  <2>1. \A q : E!Event(q)' = E!Event(q)
    BY <1>1 DEF E!Event, E!Peak
  <2> QED
    BY <1>1, <2>1
<1>10. \A j : j \in 1..k <=> j \in 1..judged \/ j = k
  BY <1>2
<1>11. k - 1 = judged /\ k \in 0..Len(episodes)
  BY <1>2
<1>. HIDE DEF k, ep, on, reports, onsets
<1>12. CASE E!Cooling(on) /\ UNCHANGED <<lastOnset, events>>
  <2>1. lastOnset # 0 /\ on - lastOnset <= ReportCooldown
    BY <1>12 DEF E!Cooling
  <2>2. \E i \in 1..k - 1 : E!Min(episodes[k]) - E!Min(episodes[i]) <= ReportCooldown
    BY <1>6, <1>11, <2>1 DEF on, ep
  <2>3. events' \in Seq((reports(judged))') /\ lastOnset' \in {0} \cup (onsets(judged))'
    BY <1>2, <1>7, <1>9, <1>12
  <2>4. \A j \in 1..k :
            \/ E!Cardinality(episodes[j]) < MinFramesOver
            \/ \E i \in DOMAIN events : events[i].onset = E!Min(episodes[j])
            \/ \E i \in 1..j - 1 :
                   E!Min(episodes[j]) - E!Min(episodes[i]) <= ReportCooldown
    BY <1>8, <1>10, <2>2
  <2>5. JudgedInv'
    BY <1>1, <1>5, <1>8, <1>11, <1>12, <2>3, <2>4 DEF JudgedInv, reports, onsets
  <2> QED
    BY <1>4, <2>5 DEF SpeedingInv
<1>13. CASE /\ ~E!Cooling(on) /\ lastOnset' = on
            /\ E!Cardinality(ep) < MinFramesOver /\ events' = events
  <2>1. events' \in Seq((reports(judged))') /\ lastOnset' \in {0} \cup (onsets(judged))'
    BY <1>2, <1>7, <1>9, <1>13
  <2>2. \A j \in 1..k :
            \/ E!Cardinality(episodes[j]) < MinFramesOver
            \/ \E i \in DOMAIN events : events[i].onset = E!Min(episodes[j])
            \/ \E i \in 1..j - 1 :
                   E!Min(episodes[j]) - E!Min(episodes[i]) <= ReportCooldown
    BY <1>8, <1>10, <1>13 DEF ep
  <2>3. \A i \in DOMAIN events : lastOnset' # 0 /\ events[i].onset <= lastOnset'
    BY <1>2, <1>3, <1>5, <1>6, <1>13
  <2>4. JudgedInv'
    BY <1>1, <1>8, <1>11, <1>13, <2>1, <2>2, <2>3 DEF JudgedInv, reports, onsets
  <2> QED
    BY <1>4, <2>4 DEF SpeedingInv
<1>14. CASE /\ ~E!Cooling(on) /\ lastOnset' = on /\ events' = Append(events, E!Event(ep))
  <2>. DEFINE e == E!Event(ep)
              m == Len(events)
  <2>1. /\ m \in Nat /\ DOMAIN events = 1..m /\ DOMAIN events' = 1..m + 1
        /\ events'[m + 1] = e /\ \A i \in 1..m : events'[i] = events[i]
        /\ e.onset = on
    BY <1>2, <1>5, <1>14
  <2>2. events' \in Seq((reports(judged))') /\ lastOnset' \in {0} \cup (onsets(judged))'
    <3>1. events \in Seq(reports(k)) /\ e \in reports(k)
      BY <1>2, <1>7
    <3> QED
      BY <1>7, <1>9, <1>14, <3>1
  <2>. HIDE DEF e, m
  <2>3. \A i \in 1..m : events[i].onset \in 1..DriveFrames
                        /\ on - events[i].onset > ReportCooldown
    <3>1. \A i \in 1..m : /\ lastOnset # 0 /\ events[i].onset <= lastOnset
                          /\ events[i].onset \in 1..DriveFrames
      BY <1>5, <2>1
    <3>2. lastOnset # 0 => ~(on - lastOnset <= ReportCooldown)
      BY <1>14 DEF E!Cooling
    <3>3. ASSUME NEW i \in 1..m PROVE on - events[i].onset > ReportCooldown
      <4>1. events[i].onset \in Int /\ lastOnset \in Int /\ on \in Int
            /\ events[i].onset <= lastOnset
        BY <1>3, <1>6, <3>1
      <4>2. ~(on - lastOnset <= ReportCooldown)
        BY <3>1, <3>2
      <4> QED
        BY <1>2, <4>1, <4>2
    <3> QED
      BY <3>1, <3>3
  <2>4. \A i, j \in DOMAIN events' :
            i < j => events'[j].onset - events'[i].onset > ReportCooldown
    <3>. SUFFICES ASSUME NEW i \in 1..m + 1, NEW j \in 1..m + 1, i < j
                  PROVE  events'[j].onset - events'[i].onset > ReportCooldown
      BY <2>1
    <3>1. i \in 1..m /\ (j \in 1..m \/ j = m + 1)
      BY <2>1
    <3>2. CASE j \in 1..m
      BY <1>8, <2>1, <3>1, <3>2
    <3>3. CASE j = m + 1
      BY <2>1, <2>3, <3>1, <3>3
    <3> QED
      BY <3>1, <3>2, <3>3
  <2>5. \A i \in DOMAIN events' : lastOnset' # 0 /\ events'[i].onset <= lastOnset'
    <3>. SUFFICES ASSUME NEW i \in 1..m + 1
                  PROVE  on # 0 /\ events'[i].onset <= on
      BY <1>14, <2>1
    <3>1. CASE i \in 1..m
      BY <1>2, <1>3, <2>1, <2>3, <3>1
    <3>2. CASE i = m + 1
      BY <1>2, <1>3, <2>1, <3>2
    <3> QED
      BY <2>1, <3>1, <3>2
  <2>6. \A j \in 1..k :
            \/ E!Cardinality(episodes[j]) < MinFramesOver
            \/ \E i \in DOMAIN events' : events'[i].onset = E!Min(episodes[j])
            \/ \E i \in 1..j - 1 :
                   E!Min(episodes[j]) - E!Min(episodes[i]) <= ReportCooldown
    <3>1. m + 1 \in DOMAIN events' /\ events'[m + 1].onset = E!Min(episodes[k])
      BY <2>1 DEF on, ep
    <3>2. \A i \in DOMAIN events : i \in DOMAIN events' /\ events'[i] = events[i]
      BY <2>1
    <3> QED
      BY <1>8, <1>10, <3>1, <3>2
  <2>7. JudgedInv'
    BY <1>1, <1>11, <2>2, <2>4, <2>5, <2>6 DEF JudgedInv, reports, onsets
  <2> QED
    BY <1>4, <2>7 DEF SpeedingInv
<1> QED
  BY <1>1, <1>12, <1>13, <1>14

\* What a report says of its episode.
LEMMA EventHolds ==
  ASSUME SpeedingBounds, GroupedInv, todo = {}, NEW k \in 1..Len(episodes),
         NEW e, e = E!Event(episodes[k])
  PROVE  /\ E!IsOver(e.onset) /\ E!IsOver(e.end)
         /\ \A f \in e.onset..e.end - MaxGap - 1 :
                \E g \in f + 1..f + MaxGap + 1 : E!IsOver(g)
         /\ \A g \in (e.onset - MaxGap - 1..e.onset - 1) \cup (e.end + 1..e.end + MaxGap + 1) :
                g \in DOMAIN speedingSpeed => ~E!IsOver(g)
         /\ e.max \in E!SpeedsSeen(e.onset, e.end)
         /\ \A s \in E!SpeedsSeen(e.onset, e.end) : s <= e.max
<1>. DEFINE ep == episodes[k]
<1>1. /\ e.onset = E!Min(ep) /\ e.end = E!Max(ep) /\ e.max = E!Peak(ep)
  BY DEF E!Event
<1>2. ep \in Episodes /\ MaxGap \in Nat /\ DriveFrames \in Nat
  BY DEF GroupedInv, SpeedingBounds
<1>3. /\ e.onset \in ep /\ e.end \in ep /\ \A f \in ep : e.onset <= f /\ f <= e.end
  BY <1>1, <1>2, EpisodeEnds
<1>4. /\ ep \subseteq 1..DriveFrames /\ \A f \in ep : E!IsOver(f)
      /\ \A f, h \in ep : f < h => \E g \in ep : f < g /\ g <= f + MaxGap + 1
  BY <1>2 DEF Episodes
<1>5. /\ DOMAIN speedingSpeed = 1..DriveFrames
      /\ \A f \in 1..DriveFrames : speedingSpeed[f] # None => speedingSpeed[f] \in Int
      /\ \A f \in 1..DriveFrames : E!IsOver(f) =>
             \E j \in 1..Len(episodes) : f \in episodes[j]
      /\ \A j \in 1..Len(episodes) : episodes[j] \subseteq 1..DriveFrames
      /\ Len(episodes) \in Nat
  <2>1. /\ episodes \in Seq(Episodes) /\ DOMAIN episodes = 1..Len(episodes)
        /\ speedingSpeed \in [1..DriveFrames -> RoadSpeeds \cup {None}]
    BY DEF GroupedInv
  <2>2. \A f \in 1..DriveFrames : speedingSpeed[f] # None => speedingSpeed[f] \in Int
    BY <2>1 DEF SpeedingBounds
  <2>3. \A j \in 1..Len(episodes) : episodes[j] \subseteq 1..DriveFrames
    BY <2>1 DEF Episodes
  <2> QED
    BY <2>1, <2>2, <2>3 DEF GroupedInv
<1>. HIDE DEF ep
<1>6. ASSUME NEW f \in e.onset..e.end - MaxGap - 1
      PROVE  \E g \in f + 1..f + MaxGap + 1 : E!IsOver(g)
  <2>. DEFINE upto == {x \in ep : x <= f}
  <2>1. /\ e.onset \in 1..DriveFrames /\ e.end \in 1..DriveFrames
        /\ f \in Int /\ e.onset <= f /\ f < e.end
    <3>1. e.onset \in 1..DriveFrames /\ e.end \in 1..DriveFrames
      BY <1>3, <1>4
    <3> QED
      BY <1>2, <1>6, <3>1
  <2>2. upto # {} /\ upto \subseteq Int /\ \A x \in upto : x <= f
    <3>1. ep \subseteq Int
      BY <1>4
    <3>2. e.onset \in upto
      BY <1>3, <2>1
    <3> QED
      BY <3>1, <3>2
  <2>3. PICK h \in upto : \A x \in upto : x <= h
    <3>. HIDE DEF upto
    <3> QED
      BY <2>1, <2>2, LargestIs
  <2>4. h \in ep /\ h <= f /\ h \in 1..DriveFrames
    BY <1>4
  <2>5. PICK g \in ep : h < g /\ g <= h + MaxGap + 1
    BY <1>2, <1>3, <1>4, <2>1, <2>4
  <2>6. g \in 1..DriveFrames /\ E!IsOver(g) /\ ~(g <= f)
    <3>1. g \in 1..DriveFrames
      BY <1>4
    <3>2. g <= f => g <= h
      BY <2>3
    <3> QED
      BY <1>4, <2>4, <2>5, <3>1, <3>2
  <2>7. g \in f + 1..f + MaxGap + 1
    BY <1>2, <2>1, <2>4, <2>5, <2>6
  <2> QED
    BY <2>6, <2>7
<1>7. ASSUME NEW g \in (e.onset - MaxGap - 1..e.onset - 1) \cup (e.end + 1..e.end + MaxGap + 1),
             g \in 1..DriveFrames, E!IsOver(g)
      PROVE  FALSE
  <2>1. PICK j \in 1..Len(episodes) : g \in episodes[j]
    BY <1>5, <1>7
  <2>2. e.onset \in 1..DriveFrames /\ e.end \in 1..DriveFrames
    BY <1>3, <1>4
  <2>3. DOMAIN episodes = 1..Len(episodes)
    BY DEF GroupedInv
  <2>4. CASE j = k
    BY <1>2, <1>3, <1>7, <2>1, <2>2, <2>4 DEF ep
  <2>5. CASE j < k
    <3>1. e.onset - g > MaxGap + 1
      BY <1>3, <2>1, <2>3, <2>5 DEF GroupedInv, ep
    <3>2. e.end - g > MaxGap + 1
      BY <1>3, <2>1, <2>3, <2>5 DEF GroupedInv, ep
    <3> QED
      BY <1>2, <1>7, <2>2, <3>1, <3>2
  <2>6. CASE k < j
    <3>1. g - e.end > MaxGap + 1
      BY <1>3, <2>1, <2>3, <2>6 DEF GroupedInv, ep
    <3>2. g - e.onset > MaxGap + 1
      BY <1>3, <2>1, <2>3, <2>6 DEF GroupedInv, ep
    <3>3. g \in Int /\ e.onset \in Int /\ e.end \in Int /\ MaxGap \in Nat
      BY <1>2, <1>7, <2>2
    <3>4. g > e.end + MaxGap + 1 /\ g > e.onset
      BY <3>1, <3>2, <3>3
    <3>5. ~(g \in e.onset - MaxGap - 1..e.onset - 1)
      BY <3>3, <3>4
    <3>6. ~(g \in e.end + 1..e.end + MaxGap + 1)
      BY <3>3, <3>4
    <3> QED
      BY <1>7, <3>5, <3>6
  <2> QED
    BY <1>5, <2>4, <2>5, <2>6
<1>8. /\ e.max \in E!SpeedsSeen(e.onset, e.end)
      /\ \A s \in E!SpeedsSeen(e.onset, e.end) : s <= e.max
  <2>. DEFINE span == e.onset..e.end
              known == {g \in span : speedingSpeed[g] # None}
              seenSpeeds == E!SpeedsSeen(e.onset, e.end)
  <2>1. e.onset \in 1..DriveFrames /\ e.end \in 1..DriveFrames /\ e.onset <= e.end
    BY <1>3, <1>4
  <2>2. /\ e.onset \in known
        /\ \A g \in known : g \in 1..DriveFrames /\ speedingSpeed[g] \in Int
    <3>1. E!IsOver(e.onset)
      BY <1>3, <1>4
    <3> QED
      BY <1>2, <1>5, <2>1, <3>1 DEF E!IsOver
  <2>3. seenSpeeds = {speedingSpeed[g] : g \in known}
    BY DEF E!SpeedsSeen
  <2>4. e.max = Largest(seenSpeeds)
    <3>1. e.max = E!Max({speedingSpeed[f] : f \in known})
      BY <1>1 DEF E!Peak
    <3>2. \A ns : E!Max(ns) = Largest(ns)
      BY DEF E!Max, Largest
    <3>. HIDE DEF known, seenSpeeds
    <3> QED
      BY <2>3, <3>1, <3>2
  <2>5. IsFiniteSet(known)
    <3>1. e.onset \in Int /\ e.end \in Int
      BY <1>2, <2>1
    <3>2. IsFiniteSet(span)
      BY <3>1, FS_Interval
    <3>3. known \subseteq span
      OBVIOUS
    <3>. HIDE DEF known, span
    <3> QED
      BY <3>2, <3>3, FS_Subset
  <2>. HIDE DEF known, seenSpeeds, span
  <2>6. IsFiniteSet(seenSpeeds)
    <3>. DEFINE f == [g \in known |-> speedingSpeed[g]]
    <3>1. f \in Surjection(known, seenSpeeds)
      BY <2>3 DEF Surjection
    <3> QED
      BY <2>5, <3>1, FS_Surjection
  <2>7. seenSpeeds \subseteq Int /\ seenSpeeds # {}
    BY <2>2, <2>3
  <2>8. PICK m \in seenSpeeds : \A s \in seenSpeeds : s <= m
    BY <2>6, <2>7, FiniteLargest
  <2>9. Largest(seenSpeeds) \in seenSpeeds /\ \A s \in seenSpeeds : s <= Largest(seenSpeeds)
    <3>1. m \in Int
      BY <2>7
    <3> QED
      BY <2>7, <2>8, <3>1, LargestIs
  <2> QED
    BY <2>4, <2>9 DEF seenSpeeds
<1> QED
  BY <1>3, <1>4, <1>5, <1>6, <1>7, <1>8

\* MCDetect takes the steps of SpeedingEpisodes in its part, and no others.
LEMMA SpeedingPart ==
    /\ DriveInit /\ part = "speeding" => E!Init
    /\ [DriveNext]_DriveVars => part' = part /\ (part = "speeding" => [E!Next]_E!vars)
BY DEF DriveInit, DriveNext, DriveVars, speedingVars, E!vars

\* The invariant of the grouping of frames into episodes and of episodes into reports.
THEOREM SpeedingCorrect ==
    SpeedingBounds /\ DriveSpec => [](part = "speeding" => SpeedingInv)
<1>. SUFFICES ASSUME SpeedingBounds PROVE DriveSpec => [](part = "speeding" => SpeedingInv)
  OBVIOUS
<1>1. E!Init => SpeedingInv
  <2>. SUFFICES ASSUME E!Init PROVE SpeedingInv
    OBVIOUS
  <2>1. /\ episodes = <<>> /\ events = <<>> /\ judged = 0 /\ lastOnset = 0
        /\ todo = {f \in 1..DriveFrames : E!IsOver(f)}
        /\ speedingSpeed \in [1..DriveFrames -> RoadSpeeds \cup {None}]
    BY DEF E!Init
  <2>2. GroupedInv
    BY <2>1 DEF GroupedInv
  <2>3. JudgedInv
    BY <2>1 DEF JudgedInv
  <2> QED
    BY <2>2, <2>3 DEF SpeedingInv
<1>2. ASSUME SpeedingInv, UNCHANGED E!vars PROVE SpeedingInv'
  <2>1. UNCHANGED <<speedingSpeed, todo, episodes, judged, lastOnset, events>>
    BY <1>2 DEF E!vars
  <2>2. GroupedInv'
    BY <1>2, <2>1 DEF SpeedingInv, GroupedInv, Episodes, E!IsOver
  <2>3. JudgedInv'
    BY <1>2, <2>1 DEF SpeedingInv, JudgedInv, E!Event, E!Peak
  <2> QED
    BY <2>2, <2>3 DEF SpeedingInv
<1>3. DriveInit => (part = "speeding" => SpeedingInv)
  BY <1>1, SpeedingPart
<1>4. (part = "speeding" => SpeedingInv) /\ [DriveNext]_DriveVars
        => (part = "speeding" => SpeedingInv)'
  BY <1>2, SpeedingPart, GroupStep, JudgeStep DEF E!Next
<1> QED
  BY <1>3, <1>4, PTL DEF DriveSpec

\* Two reports of speeding are more than a cooldown apart, each covers exactly a spell over the
\* line and gives its fastest speed, and a spell goes unreported only when it is too short or
\* begins within the cooldown of one before, whatever speeds are measured.
THEOREM SpeedingIsToldOnce ==
    SpeedingBounds /\ DriveSpec => [](part = "speeding" => E!SpeedingToldOnce)
<1>. SUFFICES ASSUME SpeedingBounds
              PROVE  DriveSpec => [](part = "speeding" => E!SpeedingToldOnce)
  OBVIOUS
<1>1. ASSUME SpeedingInv, NEW i \in DOMAIN events
      PROVE  /\ todo = {}
             /\ \E k \in 1..Len(episodes) : events[i] = E!Event(episodes[k])
  <2>1. /\ events \in Seq({E!Event(episodes[k]) : k \in 1..judged})
        /\ judged \in 0..Len(episodes) /\ (judged > 0 => todo = {})
        /\ Len(episodes) \in Nat
    BY <1>1 DEF SpeedingInv, JudgedInv, GroupedInv
  <2>2. events[i] \in {E!Event(episodes[k]) : k \in 1..judged}
    BY <1>1, <2>1
  <2>3. PICK k \in 1..judged : events[i] = E!Event(episodes[k])
    BY <2>2
  <2>4. judged > 0 /\ k \in 1..Len(episodes)
    BY <2>1
  <2> QED
    BY <2>1, <2>3, <2>4
<1>2. SpeedingInv => E!ReportsApart
  <2>. SUFFICES ASSUME SpeedingInv PROVE E!ReportsApart
    OBVIOUS
  <2>1. \A i, j \in DOMAIN events :
            i < j => events[j].onset - events[i].onset > ReportCooldown
    BY DEF SpeedingInv, JudgedInv
  <2>2. GroupedInv
    BY DEF SpeedingInv
  <2>3. ASSUME NEW i \in DOMAIN events, NEW e, e = events[i]
        PROVE  /\ E!IsOver(e.onset) /\ E!IsOver(e.end)
               /\ \A f \in e.onset..e.end - MaxGap - 1 :
                      \E g \in f + 1..f + MaxGap + 1 : E!IsOver(g)
               /\ \A g \in (e.onset - MaxGap - 1..e.onset - 1)
                             \cup (e.end + 1..e.end + MaxGap + 1) :
                      g \in DOMAIN speedingSpeed => ~E!IsOver(g)
               /\ e.max \in E!SpeedsSeen(e.onset, e.end)
               /\ \A s \in E!SpeedsSeen(e.onset, e.end) : s <= e.max
    <3>1. PICK k \in 1..Len(episodes) : e = E!Event(episodes[k])
      BY <1>1, <2>3
    <3>2. todo = {}
      BY <1>1, <2>3
    <3> QED
      BY <2>2, <3>1, <3>2, EventHolds
  <2> QED
    BY <2>1, <2>3 DEF E!ReportsApart
<1>3. SpeedingInv => E!NoneForgotten
  <2>. SUFFICES ASSUME SpeedingInv, E!Done PROVE E!NoneForgotten
    BY DEF E!NoneForgotten
  <2>1. judged = Len(episodes) /\ DOMAIN episodes = 1..judged
    BY DEF E!Done, SpeedingInv, GroupedInv
  <2>2. \A k \in 1..judged :
            \/ E!Cardinality(episodes[k]) < MinFramesOver
            \/ \E i \in DOMAIN events : events[i].onset = E!Min(episodes[k])
            \/ \E j \in 1..k - 1 :
                   E!Min(episodes[k]) - E!Min(episodes[j]) <= ReportCooldown
    BY DEF SpeedingInv, JudgedInv
  <2> QED
    BY <2>1, <2>2 DEF E!NoneForgotten
<1>4. SpeedingInv => E!SpeedingToldOnce
  BY <1>2, <1>3 DEF E!SpeedingToldOnce
<1> QED
  BY <1>4, SpeedingCorrect, PTL

\* One manoeuvre or spell of speeding makes one report: of a line, unless the vehicle is wide
\* against its margin, of the channels that see a crossing, and of a speed limit.
THEOREM ReportsAreSingle ==
    LineBounds /\ ChannelBounds /\ SpeedingBounds /\ DriveSpec => []ReportedOnce
<1>. SUFFICES ASSUME LineBounds, ChannelBounds, SpeedingBounds
              PROVE  DriveSpec => []ReportedOnce
  OBVIOUS
<1>1. /\ part = "lines" => L!OneManoeuvre
      /\ part = "channels" => C!OneIncidentPerCooldown
      /\ part = "speeding" => E!SpeedingToldOnce
      => ReportedOnce
  BY DEF ReportedOnce
<1> QED
  BY <1>1, ManoeuvresToldOnce, CrossingsToldOnce, SpeedingIsToldOnce, PTL

-----------------------------------------------------------------------------
(* Cascade *)

\* A marking is painted and no wider than a vehicle, which is wider than one of its tires;
\* the margin of a box without wheels is the widest; the pipeline passes no heading rate.
CascadeBounds ==
    /\ K \in Int /\ M \in Int /\ GhostLen \in Int
    /\ Width \in Nat /\ Width > 2 /\ Places \subseteq Int
    /\ \A m \in Markings :
        /\ Paint[m].from \in Int /\ Paint[m].to \in Int
        /\ Paint[m].from < Paint[m].to /\ Paint[m].to - Paint[m].from <= Width
    /\ Margin \in Nat /\ ArmMargin \in Nat /\ NoTireMargin \in Nat /\ Margin <= NoTireMargin
    /\ Headings = {FALSE}

\* A point and its distance from an edge, by squares.
LEMMA SquareRoots ==
  ASSUME NEW a \in Int, NEW d \in Nat, NEW b \in Nat, a * a + d <= b * b
  PROVE  -b <= a /\ a <= b
OBVIOUS

\* Where the foot of a perpendicular falls.
LEMMA FootSides ==
  ASSUME NEW a \in Int, NEW b \in Int, b # 0
  PROVE  /\ a * b <= 0 => (b > 0 /\ a <= 0) \/ (b < 0 /\ a >= 0)
         /\ a * b >= b * b => (b > 0 /\ a >= b) \/ (b < 0 /\ a <= b)
<1>1. b > 0 \/ b < 0
  OBVIOUS
<1>2. CASE b > 0
  <2>1. a > 0 => a * b > 0
    BY <1>2
  <2>2. a < b => (b - a) * b > 0
    BY <1>2
  <2>3. (b - a) * b = b * b - a * b
    OBVIOUS
  <2> QED
    BY <1>2, <2>1, <2>2, <2>3
<1>3. CASE b < 0
  <2>1. a < 0 => a * b > 0
    BY <1>3
  <2>2. a > b => (b - a) * b > 0
    BY <1>3
  <2>3. (b - a) * b = b * b - a * b
    OBVIOUS
  <2> QED
    BY <1>3, <2>1, <2>2, <2>3
<1> QED
  BY <1>1, <1>2, <1>3

\* A point near a level segment is above or below it, or near one of its ends.
LEMMA NearLevel ==
  ASSUME NEW q \in Int, NEW y \in Int, NEW u \in Int, NEW w \in Int, NEW h \in Int, u # w,
         NEW margin \in Nat, Within(<<q, y>>, <<u, h>>, <<w, h>>, margin)
  PROVE  \/ u < q /\ q < w
         \/ w < q /\ q < u
         \/ -margin <= q - u /\ q - u <= margin
         \/ -margin <= q - w /\ q - w <= margin
<1>. DEFINE along == (q - u) * (w - u)
            len2 == (w - u) * (w - u)
<1>1. /\ Dist2(<<q, y>>, <<u, h>>) = (q - u) * (q - u) + (y - h) * (y - h)
      /\ Dist2(<<q, y>>, <<w, h>>) = (q - w) * (q - w) + (y - h) * (y - h)
      /\ Dist2(<<u, h>>, <<w, h>>) = len2
  BY DEF Dist2, Square
<1>2. (q - u) * (w - u) + (y - h) * (h - h) = along
  OBVIOUS
<1>3. /\ along <= 0 => (q - u) * (q - u) + (y - h) * (y - h) <= margin * margin
      /\ ~(along <= 0) /\ along >= len2 =>
             (q - w) * (q - w) + (y - h) * (y - h) <= margin * margin
  BY <1>1, <1>2 DEF Within, Less, SegmentDist2, Square
<1>4. (y - h) * (y - h) \in Nat
  OBVIOUS
<1>5. CASE along <= 0
  BY <1>3, <1>4, <1>5, SquareRoots
<1>6. CASE ~(along <= 0) /\ along >= len2
  BY <1>3, <1>4, <1>6, SquareRoots
<1>7. CASE ~(along <= 0) /\ ~(along >= len2)
  BY <1>7
<1> QED
  BY <1>5, <1>6, <1>7

\* A point of the row is as far from an upright edge as its column is.
LEMMA NearUpright ==
  ASSUME NEW q \in Int, NEW c \in Int, NEW u \in {0, 4}, NEW w \in {0, 4}, u # w,
         NEW margin \in Nat, Within(<<q, 2>>, <<c, u>>, <<c, w>>, margin)
  PROVE  -margin <= q - c /\ q - c <= margin
<1>1. /\ Dist2(<<c, u>>, <<c, w>>) = 16
      /\ (c - c) * (q - c) + (2 - u) * (w - u) = 8
      /\ (q - c) * (c - c) + (2 - u) * (w - u) = 8
      /\ Orient(<<c, u>>, <<c, w>>, <<q, 2>>) = (u - w) * (q - c)
      /\ (u - w = 4 \/ u - w = -4)
  <2>1. (u = 0 /\ w = 4) \/ (u = 4 /\ w = 0)
    OBVIOUS
  <2>2. CASE u = 0 /\ w = 4
    BY <2>2 DEF Dist2, Square, Orient
  <2>3. CASE u = 4 /\ w = 0
    BY <2>3 DEF Dist2, Square, Orient
  <2> QED
    BY <2>1, <2>2, <2>3
<1>2. SegmentDist2(<<q, 2>>, <<c, u>>, <<c, w>>) = <<16 * ((q - c) * (q - c)), 16>>
  <2>1. CASE u - w = 4
    BY <1>1, <2>1 DEF SegmentDist2, Square
  <2>2. CASE u - w = -4
    BY <1>1, <2>2 DEF SegmentDist2, Square
  <2> QED
    BY <1>1, <2>1, <2>2
<1>3. ~((margin * margin) * 16 < (16 * ((q - c) * (q - c))) * 1)
  BY <1>2 DEF Within, Less, Square
<1>4. (q - c) * (q - c) + 0 <= margin * margin
  BY <1>3
<1> QED
  BY <1>4, SquareRoots

\* The edges of a marking's contour: two across the lane at its ends, two along it.
LEMMA ContourEdges ==
  ASSUME NEW m \in Markings, NEW s, s = Paint[m].from, NEW t, t = Paint[m].to
  PROVE  /\ Len(Contour(m)) = 4
         /\ ToSet(Edges(Contour(m))) =
                {<<<<s, 0>>, <<t, 0>>>>, <<<<t, 0>>, <<t, 4>>>>,
                 <<<<t, 4>>, <<s, 4>>>>, <<<<s, 4>>, <<s, 0>>>>}
<1>. DEFINE c == Contour(m)
<1>1. c = <<<<s, 0>>, <<t, 0>>, <<t, 4>>, <<s, 4>>>>
  BY DEF Contour, Top, Bottom
<1>2. Len(c) = 4 /\ DOMAIN c = 1..4
  BY <1>1
<1>3. c[1] = <<s, 0>> /\ c[2] = <<t, 0>> /\ c[3] = <<t, 4>> /\ c[4] = <<s, 4>>
  BY <1>1
<1>. HIDE DEF c
<1>4. 1 % 4 = 1 /\ 2 % 4 = 2 /\ 3 % 4 = 3 /\ 4 % 4 = 0
  OBVIOUS
<1>5. DOMAIN Edges(c) = 1..4 /\ \A i \in 1..4 : Edges(c)[i] = <<c[i], c[(i % 4) + 1]>>
  BY <1>2 DEF Edges
<1>6. /\ Edges(c)[1] = <<c[1], c[2]>> /\ Edges(c)[2] = <<c[2], c[3]>>
      /\ Edges(c)[3] = <<c[3], c[4]>> /\ Edges(c)[4] = <<c[4], c[1]>>
  BY <1>4, <1>5
<1>7. ToSet(Edges(c)) = {Edges(c)[1], Edges(c)[2], Edges(c)[3], Edges(c)[4]}
  <2>1. ToSet(Edges(c)) = {Edges(c)[i] : i \in 1..4}
    BY <1>5 DEF ToSet
  <2>2. 1..4 = {1, 2, 3, 4}
    OBVIOUS
  <2> QED
    BY <2>1, <2>2
<1> QED
  BY <1>2, <1>3, <1>6, <1>7 DEF c

\* A stretch of the row meets a marking only if an edge of the paint is within its margin, or
\* it lies on the paint as a whole.
LEMMA StretchMeets ==
  ASSUME CascadeBounds, NEW m \in Markings, NEW l \in Int, NEW r \in Int, l < r,
         NEW margin \in Nat, SegmentHitsContour(<<l, 2>>, <<r, 2>>, Contour(m), margin)
  PROVE  \/ \E edge \in {Paint[m].from, Paint[m].to} : l - margin <= edge /\ edge <= r + margin
         \/ Paint[m].from < l /\ r < Paint[m].to
<1>. DEFINE s == Paint[m].from
            t == Paint[m].to
            Beside(edge) == l - margin <= edge /\ edge <= r + margin
            Inside == s < l /\ r < t
<1>1. s \in Int /\ t \in Int /\ s < t
  BY DEF CascadeBounds
<1>2. SUFFICES Beside(s) \/ Beside(t) \/ Inside
  OBVIOUS
<1>3. PICK e \in {<<<<s, 0>>, <<t, 0>>>>, <<<<t, 0>>, <<t, 4>>>>,
                  <<<<t, 4>>, <<s, 4>>>>, <<<<s, 4>>, <<s, 0>>>>} :
        \/ SegmentsIntersect(<<l, 2>>, <<r, 2>>, e[1], e[2])
        \/ /\ margin > 0
           /\ \/ Within(e[1], <<l, 2>>, <<r, 2>>, margin)
              \/ Within(e[2], <<l, 2>>, <<r, 2>>, margin)
              \/ Within(<<l, 2>>, e[1], e[2], margin)
              \/ Within(<<r, 2>>, e[1], e[2], margin)
  <2>. HIDE DEF s, t
  <2>1. ToSet(Edges(Contour(m))) =
            {<<<<s, 0>>, <<t, 0>>>>, <<<<t, 0>>, <<t, 4>>>>,
             <<<<t, 4>>, <<s, 4>>>>, <<<<s, 4>>, <<s, 0>>>>}
    BY ContourEdges DEF s, t
  <2> QED
    BY <2>1 DEF SegmentHitsContour
<1>. HIDE DEF s, t
<1>4. ASSUME NEW a \in {s, t}, NEW b \in {s, t}, NEW h \in {0, 4}, a # b,
             e = <<<<a, h>>, <<b, h>>>>
      PROVE  Beside(s) \/ Beside(t) \/ Inside
  <2>1. e[1] = <<a, h>> /\ e[2] = <<b, h>> /\ a \in Int /\ b \in Int /\ h \in Int
    BY <1>1, <1>4
  <2>2. ~SegmentsIntersect(<<l, 2>>, <<r, 2>>, <<a, h>>, <<b, h>>)
    <3>1. /\ Orient(<<a, h>>, <<b, h>>, <<l, 2>>) = (b - a) * (2 - h)
          /\ Orient(<<a, h>>, <<b, h>>, <<r, 2>>) = (b - a) * (2 - h)
          /\ Orient(<<l, 2>>, <<r, 2>>, <<a, h>>) = (r - l) * (h - 2)
          /\ Orient(<<l, 2>>, <<r, 2>>, <<b, h>>) = (r - l) * (h - 2)
      BY <2>1 DEF Orient
    <3>2. (2 - h = 2 /\ h - 2 = -2) \/ (2 - h = -2 /\ h - 2 = 2)
      OBVIOUS
    <3>3. (b - a) * (2 - h) # 0 /\ (r - l) * (h - 2) # 0
      BY <1>4, <2>1, <3>2
    <3> QED
      BY <3>1, <3>3 DEF SegmentsIntersect
  <2>3. \/ Within(<<a, h>>, <<l, 2>>, <<r, 2>>, margin)
        \/ Within(<<b, h>>, <<l, 2>>, <<r, 2>>, margin)
        \/ Within(<<l, 2>>, <<a, h>>, <<b, h>>, margin)
        \/ Within(<<r, 2>>, <<a, h>>, <<b, h>>, margin)
    BY <1>3, <2>1, <2>2
  <2>4. \A x \in {a, b} : Within(<<x, h>>, <<l, 2>>, <<r, 2>>, margin) => Beside(x)
    <3>. SUFFICES ASSUME NEW x \in {a, b}, Within(<<x, h>>, <<l, 2>>, <<r, 2>>, margin)
                  PROVE  Beside(x)
      OBVIOUS
    <3>1. x \in Int /\ l # r /\ 2 \in Int
      BY <2>1
    <3>2. \/ l < x /\ x < r
          \/ r < x /\ x < l
          \/ -margin <= x - l /\ x - l <= margin
          \/ -margin <= x - r /\ x - r <= margin
      BY <2>1, <3>1, NearLevel
    <3> QED
      BY <3>1, <3>2
  <2>5. \A x \in {l, r} : Within(<<x, 2>>, <<a, h>>, <<b, h>>, margin) =>
            (s < x /\ x < t) \/ Beside(s) \/ Beside(t)
    <3>. SUFFICES ASSUME NEW x \in {l, r}, Within(<<x, 2>>, <<a, h>>, <<b, h>>, margin)
                  PROVE  (s < x /\ x < t) \/ Beside(s) \/ Beside(t)
      OBVIOUS
    <3>1. x \in Int /\ 2 \in Int
      OBVIOUS
    <3>2. \/ a < x /\ x < b
          \/ b < x /\ x < a
          \/ -margin <= x - a /\ x - a <= margin
          \/ -margin <= x - b /\ x - b <= margin
      BY <1>4, <2>1, <3>1, NearLevel
    <3>3. (a = s /\ b = t) \/ (a = t /\ b = s)
      BY <1>4
    <3> QED
      BY <1>1, <3>1, <3>2, <3>3
  <2> QED
    BY <1>1, <2>3, <2>4, <2>5
<1>5. ASSUME NEW c \in {s, t}, NEW u \in {0, 4}, NEW w \in {0, 4}, u # w,
             e = <<<<c, u>>, <<c, w>>>>
      PROVE  Beside(c)
  <2>1. e[1] = <<c, u>> /\ e[2] = <<c, w>> /\ c \in Int /\ u \in Int /\ w \in Int
    BY <1>1, <1>5
  <2>2. SegmentsIntersect(<<l, 2>>, <<r, 2>>, <<c, u>>, <<c, w>>) => Beside(c)
    <3>1. /\ Orient(<<c, u>>, <<c, w>>, <<l, 2>>) = (u - w) * (l - c)
          /\ Orient(<<c, u>>, <<c, w>>, <<r, 2>>) = (u - w) * (r - c)
          /\ Orient(<<l, 2>>, <<r, 2>>, <<c, u>>) = (r - l) * (u - 2)
          /\ Orient(<<l, 2>>, <<r, 2>>, <<c, w>>) = (r - l) * (w - 2)
      BY <2>1 DEF Orient
    <3>2. (u - w = 4 \/ u - w = -4) /\ (u - 2 = 2 \/ u - 2 = -2) /\ (w - 2 = 2 \/ w - 2 = -2)
      BY <1>5
    <3>3. (r - l) * (u - 2) # 0 /\ (r - l) * (w - 2) # 0
      BY <3>2
    <3>4. \/ ((u - w) * (l - c) > 0) # ((u - w) * (r - c) > 0)
          \/ (u - w) * (l - c) = 0 \/ (u - w) * (r - c) = 0
          => l <= c /\ c <= r
      <4>1. CASE u - w = 4
        BY <2>1, <4>1
      <4>2. CASE u - w = -4
        BY <2>1, <4>2
      <4> QED
        BY <3>2, <4>1, <4>2
    <3> QED
      BY <2>1, <3>1, <3>3, <3>4 DEF SegmentsIntersect
  <2>3. \A h \in {0, 4} : Within(<<c, h>>, <<l, 2>>, <<r, 2>>, margin) => Beside(c)
    <3>. SUFFICES ASSUME NEW h \in {0, 4}, Within(<<c, h>>, <<l, 2>>, <<r, 2>>, margin)
                  PROVE  Beside(c)
      OBVIOUS
    <3>1. h \in Int /\ 2 \in Int /\ l # r
      OBVIOUS
    <3>2. \/ l < c /\ c < r
          \/ r < c /\ c < l
          \/ -margin <= c - l /\ c - l <= margin
          \/ -margin <= c - r /\ c - r <= margin
      BY <2>1, <3>1, NearLevel
    <3> QED
      BY <2>1, <3>2
  <2>4. \A x \in {l, r} : Within(<<x, 2>>, <<c, u>>, <<c, w>>, margin) => Beside(c)
    <3>. SUFFICES ASSUME NEW x \in {l, r}, Within(<<x, 2>>, <<c, u>>, <<c, w>>, margin)
                  PROVE  Beside(c)
      OBVIOUS
    <3>1. x \in Int
      OBVIOUS
    <3>2. -margin <= x - c /\ x - c <= margin
      BY <1>5, <2>1, <3>1, NearUpright
    <3> QED
      BY <2>1, <3>1, <3>2
  <2> QED
    BY <1>3, <1>5, <2>1, <2>2, <2>3, <2>4
<1> QED
  BY <1>1, <1>3, <1>4, <1>5

\* The axle: of two wheels that stand on the row, the one left of the other comes first.
LEMMA AxleIs ==
  ASSUME CascadeBounds, NEW x \in Places, NEW find \in Finds
  PROVE  /\ Len(Wheels(x, find)) >= 2 => find = "axle"
         /\ RearAxle(Wheels(x, "axle")) = <<<<x + 1, 2>>, <<x + Width - 1, 2>>>>
<1>1. x \in Int /\ Width \in Nat /\ Width > 2
  BY DEF CascadeBounds
<1>2. Len(Wheels(x, find)) >= 2 => find = "axle"
  BY DEF Wheels, Finds
<1>. DEFINE ws == Wheels(x, "axle")
            foot == [i \in DOMAIN ws |-> BottomCentre(ws[i])]
            Before(i, j) == foot[i][2] > foot[j][2] \/ (foot[i][2] = foot[j][2] /\ i < j)
            one == CHOOSE i \in DOMAIN ws : \A j \in DOMAIN ws \ {i} : Before(i, j)
            two == CHOOSE i \in DOMAIN ws \ {one} : \A j \in DOMAIN ws \ {one, i} : Before(i, j)
<1>3. /\ DOMAIN ws = {1, 2}
      /\ foot[1] = <<x + 1, 2>> /\ foot[2] = <<x + Width - 1, 2>>
  <2>1. ws = <<Tire(x), Tire(x + Width - 2)>>
    BY DEF Wheels
  <2>2. DOMAIN ws = {1, 2} /\ ws[1] = Tire(x) /\ ws[2] = Tire(x + Width - 2)
    BY <2>1
  <2>3. BottomCentre(Tire(x)) = <<x + 1, 2>>
    BY <1>1 DEF Tire, BottomCentre, Top, Row
  <2>4. BottomCentre(Tire(x + Width - 2)) = <<x + Width - 1, 2>>
    BY <1>1 DEF Tire, BottomCentre, Top, Row
  <2>. HIDE DEF ws
  <2> QED
    BY <2>2, <2>3, <2>4
<1>. HIDE DEF ws, foot
<1>4. Before(1, 2) /\ ~Before(2, 1)
  BY <1>3
<1>. HIDE DEF Before
<1>5. one = 1
  BY <1>3, <1>4
<1>6. two = 2
  BY <1>3, <1>5
<1>7. RearAxle(ws) = IF foot[one][1] <= foot[two][1] THEN <<foot[one], foot[two]>>
                                                      ELSE <<foot[two], foot[one]>>
  BY DEF RearAxle, foot, one, two, Before
<1>8. RearAxle(ws) = <<<<x + 1, 2>>, <<x + Width - 1, 2>>>>
  <2>1. foot[one] = <<x + 1, 2>> /\ foot[two] = <<x + Width - 1, 2>>
    BY <1>3, <1>5, <1>6
  <2>2. foot[one][1] <= foot[two][1]
    BY <1>1, <2>1
  <2>. HIDE DEF one, two
  <2> QED
    BY <1>7, <2>1, <2>2
<1> QED
  BY <1>2, <1>8 DEF ws

\* A box on a marking, judged by its base, has an edge of the paint within the margin.
LEMMA BaseReaches ==
  ASSUME CascadeBounds, NEW x \in Places, NEW m \in Markings, NEW margin \in Nat,
         m \in BaseOn(margin)[x]
  PROVE  \E edge \in {Paint[m].from, Paint[m].to} :
             x - margin <= edge /\ edge <= x + Width + margin
<1>1. /\ x \in Int /\ Width \in Nat /\ Width > 2 /\ Paint[m].from \in Int /\ Paint[m].to \in Int
      /\ Paint[m].from < Paint[m].to /\ Paint[m].to - Paint[m].from <= Width
  BY DEF CascadeBounds
<1>2. BottomHits(Box(x), {Contour(m)}, margin)
  BY DEF BaseOn
<1>3. BottomEdge(Box(x)) = <<<<x, 2>>, <<x + Width, 2>>>>
  BY DEF BottomEdge, Box, Row
<1>4. SegmentHitsContour(<<x, 2>>, <<x + Width, 2>>, Contour(m), margin)
  BY <1>2, <1>3 DEF BottomHits
<1>5. x + Width \in Int /\ x < x + Width
  BY <1>1
<1>6. \/ \E edge \in {Paint[m].from, Paint[m].to} :
             x - margin <= edge /\ edge <= x + Width + margin
      \/ Paint[m].from < x /\ x + Width < Paint[m].to
  BY <1>1, <1>4, <1>5, StretchMeets
<1> QED
  BY <1>1, <1>6

\* A tire that crosses a marking stands on an edge of the paint.
LEMMA TireStands ==
  ASSUME CascadeBounds, NEW q \in Int, NEW m \in Markings,
         TireCrosses(Tire(q), {Contour(m)}, Penetration)
  PROVE  \E edge \in {Paint[m].from, Paint[m].to} : q <= edge /\ edge <= q + 2
<1>. DEFINE s == Paint[m].from
            t == Paint[m].to
<1>1. s \in Int /\ t \in Int
  BY DEF CascadeBounds
<1>2. BottomEdge(Tire(q)) = <<<<q, 2>>, <<q + 2, 2>>>>
  BY DEF BottomEdge, Tire, Row
<1>. HIDE DEF s, t
<1>3. PICK e \in {<<<<s, 0>>, <<t, 0>>>>, <<<<t, 0>>, <<t, 4>>>>,
                  <<<<t, 4>>, <<s, 4>>>>, <<<<s, 4>>, <<s, 0>>>>} :
        CutsInside(<<<<q, 2>>, <<q + 2, 2>>>>, e, Penetration)
  <2>1. ToSet(Edges(Contour(m))) =
            {<<<<s, 0>>, <<t, 0>>>>, <<<<t, 0>>, <<t, 4>>>>,
             <<<<t, 4>>, <<s, 4>>>>, <<<<s, 4>>, <<s, 0>>>>}
    BY ContourEdges DEF s, t
  <2> QED
    BY <1>2, <2>1 DEF TireCrosses
<1>4. LET share == CutShare(<<<<q, 2>>, <<q + 2, 2>>>>, e)
      IN share[2] # 0 /\ 0 <= share[1] /\ share[1] <= share[2]
  BY <1>3 DEF CutsInside
<1>5. ASSUME NEW a \in {s, t}, NEW b \in {s, t}, NEW h \in {0, 4}, e = <<<<a, h>>, <<b, h>>>>
      PROVE  FALSE
  <2>1. a \in Int /\ b \in Int /\ h \in Int /\ (q + 2 - q) * (h - h) = 0
    BY <1>1
  <2>2. CutShare(<<<<q, 2>>, <<q + 2, 2>>>>, e)[2] = 0
    BY <1>5, <2>1 DEF CutShare
  <2> QED
    BY <1>4, <2>2
<1>6. ASSUME NEW c \in {s, t}, NEW u \in {0, 4}, NEW w \in {0, 4}, u # w,
             e = <<<<c, u>>, <<c, w>>>>
      PROVE  q <= c /\ c <= q + 2
  <2>1. c \in Int /\ u \in Int /\ w \in Int
    BY <1>1
  <2>2. /\ (q + 2 - q) * (w - u) = 2 * (w - u)
        /\ (c - q) * (w - u) - (u - 2) * (c - c) = (c - q) * (w - u)
    BY <2>1
  <2>3. CutShare(<<<<q, 2>>, <<q + 2, 2>>>>, e) =
            IF 2 * (w - u) < 0 THEN <<-((c - q) * (w - u)), -(2 * (w - u))>>
                               ELSE <<(c - q) * (w - u), 2 * (w - u)>>
    BY <1>6, <2>1, <2>2 DEF CutShare
  <2>4. CASE w - u = 4
    <3>1. CutShare(<<<<q, 2>>, <<q + 2, 2>>>>, e) = <<(c - q) * 4, 8>>
      BY <2>1, <2>3, <2>4
    <3> QED
      BY <1>4, <2>1, <3>1
  <2>5. CASE w - u = -4
    <3>1. CutShare(<<<<q, 2>>, <<q + 2, 2>>>>, e) = <<-((c - q) * (-4)), 8>>
      BY <2>1, <2>3, <2>5
    <3> QED
      BY <1>4, <2>1, <3>1
  <2> QED
    BY <1>6, <2>4, <2>5
<1>7. (q <= s /\ s <= q + 2) \/ (q <= t /\ t <= q + 2)
  <2>1. e # <<<<s, 0>>, <<t, 0>>>> /\ e # <<<<t, 4>>, <<s, 4>>>>
    BY <1>5
  <2>2. CASE e = <<<<t, 0>>, <<t, 4>>>>
    BY <1>6, <2>2
  <2>3. CASE e = <<<<s, 4>>, <<s, 0>>>>
    BY <1>6, <2>3
  <2> QED
    BY <1>3, <2>1, <2>2, <2>3
<1> QED
  BY <1>7 DEF s, t

\* Whatever of a vehicle crosses a marking, its box reaches an edge of that paint.
LEMMA ConfirmedReaches ==
  ASSUME CascadeBounds, NEW v, NEW x \in Places, NEW find \in Finds, NEW lines,
         lines \subseteq Markings, Confirms(v, x, find, lines)
  PROVE  \E m \in lines : Reaches(x, m)
<1>1. /\ x \in Int /\ Width \in Nat /\ Width > 2
      /\ Margin \in Nat /\ NoTireMargin \in Nat /\ Margin <= NoTireMargin
  BY DEF CascadeBounds
<1>2. PICK m \in lines : m \in Crossed[x][find] \/ m \in BaseNear[x]
  BY DEF Confirms
<1>3. /\ Paint[m].from \in Int /\ Paint[m].to \in Int
      /\ Paint[m].from < Paint[m].to /\ Paint[m].to - Paint[m].from <= Width
  BY DEF CascadeBounds
<1>4. CASE m \in BaseNear[x]
  <2>1. m \in BaseOn(NoTireMargin)[x]
    BY <1>4 DEF BaseNear
  <2> QED
    BY <1>1, <2>1, BaseReaches DEF Reaches
<1>5. CASE m \in Crossed[x][find]
  <2>1. \/ AxleStraddles(Wheels(x, find), {Contour(m)}, Margin)
        \/ \E i \in DOMAIN Wheels(x, find) :
               TireCrosses(Wheels(x, find)[i], {Contour(m)}, Penetration)
    <3>1. Crossed[x][find] = {n \in Markings :
              LET wheels == Wheels(x, find)
              IN \/ /\ AxleStraddles(wheels, {Contour(n)}, Margin)
                    /\ SameAxle => SameVehicle(wheels, Box(x), SepPercent)
                    /\ RequireBand => MidpointInBand(RearAxle(wheels), {Contour(n)}, Band)
                 \/ \E i \in DOMAIN wheels : TireCrosses(wheels[i], {Contour(n)}, Penetration)}
      BY DEF Crossed
    <3> QED
      BY <1>5, <3>1
  <2>2. ASSUME AxleStraddles(Wheels(x, find), {Contour(m)}, Margin)
        PROVE  Reaches(x, m)
    <3>1. find = "axle"
      BY <2>2, AxleIs DEF AxleStraddles
    <3>2. RearAxle(Wheels(x, find)) = <<<<x + 1, 2>>, <<x + Width - 1, 2>>>>
      BY <3>1, AxleIs
    <3>3. SegmentHitsContour(<<x + 1, 2>>, <<x + Width - 1, 2>>, Contour(m), Margin)
      BY <2>2, <3>2 DEF AxleStraddles
    <3>4. x + 1 \in Int /\ x + Width - 1 \in Int /\ x + 1 < x + Width - 1
      BY <1>1
    <3>5. \/ \E edge \in {Paint[m].from, Paint[m].to} :
                 x + 1 - Margin <= edge /\ edge <= x + Width - 1 + Margin
          \/ Paint[m].from < x + 1 /\ x + Width - 1 < Paint[m].to
      BY <1>1, <3>3, <3>4, StretchMeets
    <3> QED
      BY <1>1, <1>3, <3>5 DEF Reaches
  <2>3. ASSUME NEW i \in DOMAIN Wheels(x, find),
               TireCrosses(Wheels(x, find)[i], {Contour(m)}, Penetration)
        PROVE  Reaches(x, m)
    <3>1. PICK q \in {x, x + Width - 2} : Wheels(x, find)[i] = Tire(q)
      BY DEF Wheels, Finds
    <3>2. q \in Int /\ x <= q /\ q <= x + Width - 2
      BY <1>1
    <3>3. \E edge \in {Paint[m].from, Paint[m].to} : q <= edge /\ edge <= q + 2
      BY <2>3, <3>1, <3>2, TireStands
    <3> QED
      BY <1>1, <1>3, <3>2, <3>3 DEF Reaches
  <2>4. Reaches(x, m)
    BY <2>1, <2>2, <2>3
  <2> QED
    BY <2>4
<1> QED
  BY <1>2, <1>4, <1>5

\* The newest n entries, after another one.
LEMMA LatestIs ==
  ASSUME NEW ok, NEW s \in Seq(ok), NEW e \in ok, NEW n \in Int
  PROVE  /\ Latest(s, e, n) \in Seq(ok)
         /\ Len(Latest(s, e, n)) = IF Len(s) + 1 > n THEN Len(s) ELSE Len(s) + 1
         /\ \A i \in 1..Len(Latest(s, e, n)) : Latest(s, e, n)[i] =
                IF Len(s) + 1 > n THEN (IF i = Len(s) THEN e ELSE s[i + 1])
                                  ELSE (IF i = Len(s) + 1 THEN e ELSE s[i])
<1>. DEFINE t == Append(s, e)
<1>1. t \in Seq(ok) /\ Len(t) = Len(s) + 1 /\ Len(s) \in Nat
  OBVIOUS
<1>2. \A i \in 1..Len(s) + 1 : t[i] = IF i = Len(s) + 1 THEN e ELSE s[i]
  OBVIOUS
<1>. HIDE DEF t
<1>3. /\ Tail(t) \in Seq(ok) /\ Len(Tail(t)) = Len(s)
      /\ \A i \in 1..Len(s) : Tail(t)[i] = t[i + 1]
  BY <1>1
<1>4. Latest(s, e, n) = IF Len(s) + 1 > n THEN Tail(t) ELSE t
  BY <1>1 DEF Latest, t
<1>5. CASE Len(s) + 1 > n
  <2>1. \A i \in 1..Len(s) : Tail(t)[i] = IF i = Len(s) THEN e ELSE s[i + 1]
    <3>. SUFFICES ASSUME NEW i \in 1..Len(s)
                  PROVE  Tail(t)[i] = IF i = Len(s) THEN e ELSE s[i + 1]
      OBVIOUS
    <3>1. i + 1 \in 1..Len(s) + 1 /\ (i + 1 = Len(s) + 1 <=> i = Len(s))
      BY <1>1
    <3> QED
      BY <1>2, <1>3, <3>1
  <2> QED
    BY <1>3, <1>4, <1>5, <2>1
<1>6. CASE ~(Len(s) + 1 > n)
  BY <1>1, <1>2, <1>4, <1>6
<1> QED
  BY <1>5, <1>6

\* What a vehicle may be judged against was in view when its own box touched paint, and each
\* verdict that counts against it is of a frame in which it stood at an edge of such paint.
GhostInv == \A v \in Vehicles : \A i \in 1..Len(ghost[v]) : ghost[v][i] \subseteq met[v]
VerdictInv == \A v \in Vehicles :
    /\ Len(window[v]) = Len(contacts[v])
    /\ \A i \in 1..Len(window[v]) : window[v][i] => contacts[v][i]
    /\ fired[v] => Cardinality({i \in DOMAIN window[v] : window[v][i]}) >= K
CascadeInv ==
    /\ window \in [Vehicles -> Seq(BOOLEAN)] /\ contacts \in [Vehicles -> Seq(BOOLEAN)]
    /\ ghost \in [Vehicles -> Seq(SUBSET Markings)] /\ met \in [Vehicles -> SUBSET Markings]
    /\ fired \in [Vehicles -> BOOLEAN]
    /\ GhostInv /\ VerdictInv

\* A step of Stage 2 for one vehicle.
LEMMA ObserveStep == CascadeBounds /\ CascadeInv /\ Observe => CascadeInv'
<1>. SUFFICES ASSUME CascadeBounds, CascadeInv, Observe PROVE CascadeInv'
  OBVIOUS
<1>1. PICK v \in Vehicles, x \in Places, away \in 0..2, view \in SUBSET Markings,
              find \in Finds, oncoming \in Headings :
        LET far == away >= (IF gate.curved THEN 1 ELSE 2)
            near == IF ~far /\ \E m \in view : Touches(x, m) THEN met[v] \cup view ELSE met[v]
            known == IF view # {} THEN view ELSE near
        IN /\ Step(v, x, far, find, view, oncoming)
           /\ met' = [met EXCEPT ![v] = near]
           /\ contacts' = [contacts EXCEPT ![v] =
                               Latest(@, ~far /\ \E m \in known : Reaches(x, m), M)]
           /\ UNCHANGED gate
  BY DEF Observe
<1>. DEFINE far == away >= (IF gate.curved THEN 1 ELSE 2)
            near == IF ~far /\ \E m \in view : Touches(x, m) THEN met[v] \cup view ELSE met[v]
            known == IF view # {} THEN view ELSE near
            stood == ~far /\ \E m \in known : Reaches(x, m)
<1>2. /\ Step(v, x, far, find, view, oncoming) /\ oncoming = FALSE
      /\ met' = [met EXCEPT ![v] = near]
      /\ contacts' = [contacts EXCEPT ![v] = Latest(@, stood, M)]
  BY <1>1 DEF CascadeBounds
<1>. HIDE DEF far
<1>3. PICK memory, lines, on :
        /\ memory = IF far THEN ghost[v] ELSE Armed(v, x, view)
        /\ lines = IF view # {} THEN view ELSE UNION ToSet(memory)
        /\ on = (~far /\ Confirms(v, x, find, lines))
        /\ ghost' = [ghost EXCEPT ![v] = memory]
        /\ window' = [window EXCEPT ![v] = Latest(@, on, M)]
        /\ fired' = [fired EXCEPT ![v] =
                         Cardinality({i \in DOMAIN window'[v] : window'[v][i]}) >= K]
  <2>. DEFINE crossed(on, last) ==
                  on \/ (last /\ view # {} /\ sides'[v] = {"left", "right"})
              Done(memory, on, last) ==
                  /\ ghost' = [ghost EXCEPT ![v] = memory]
                  /\ sides' = [sides EXCEPT ![v] =
                         IF last THEN @ \cup UNION {SideOf[x, m] : m \in view} ELSE @]
                  /\ window' = [window EXCEPT ![v] = Latest(@, crossed(on, last), M)]
                  /\ fired' = [fired EXCEPT ![v] =
                         Cardinality({i \in DOMAIN window'[v] : window'[v][i]}) >= K]
  <2>1. \E memory \in {IF far THEN ghost[v] ELSE Armed(v, x, view)} :
        \E lines \in {IF view # {} THEN view ELSE UNION ToSet(memory)} :
        \E on \in {~far /\ Confirms(v, x, find, lines)} :
        \E last \in {~far /\ ~on /\ find = "none" /\ oncoming} : Done(memory, on, last)
    BY <1>2 DEF Step
  <2>. HIDE DEF Done
  <2>2. PICK memory, lines, on, last :
          /\ memory = IF far THEN ghost[v] ELSE Armed(v, x, view)
          /\ lines = IF view # {} THEN view ELSE UNION ToSet(memory)
          /\ on = (~far /\ Confirms(v, x, find, lines))
          /\ last = (~far /\ ~on /\ find = "none" /\ oncoming)
          /\ Done(memory, on, last)
    BY <2>1, Zenon
  <2>3. last = FALSE
    BY <1>2, <2>2
  <2>4. on \in BOOLEAN
    BY <2>2
  <2>5. crossed(on, last) = on
    BY <2>3, <2>4
  <2>. HIDE DEF crossed
  <2>6. /\ ghost' = [ghost EXCEPT ![v] = memory]
        /\ window' = [window EXCEPT ![v] = Latest(@, on, M)]
        /\ fired' = [fired EXCEPT ![v] =
                Cardinality({i \in DOMAIN window'[v] : window'[v][i]}) >= K]
    BY <2>2, <2>5, Zenon DEF Done
  <2> QED
    BY <2>2, <2>6, Zenon
<1>4. /\ v \in Vehicles /\ near \in SUBSET Markings /\ met[v] \subseteq near
      /\ met[v] \in SUBSET Markings /\ ghost[v] \in Seq(SUBSET Markings)
      /\ window[v] \in Seq(BOOLEAN) /\ contacts[v] \in Seq(BOOLEAN)
      /\ Len(window[v]) = Len(contacts[v])
      /\ \A i \in 1..Len(window[v]) : window[v][i] => contacts[v][i]
      /\ \A i \in 1..Len(ghost[v]) : ghost[v][i] \subseteq met[v]
  BY <1>1 DEF CascadeInv, GhostInv, VerdictInv
<1>5. /\ memory \in Seq(SUBSET Markings) /\ \A i \in 1..Len(memory) : memory[i] \subseteq near
      /\ view = {} => \A i \in 1..Len(memory) : memory[i] \subseteq met[v]
  <2>1. CASE memory = ghost[v]
    BY <1>4, <2>1
  <2>2. CASE memory # ghost[v]
    <3>1. ~far /\ ArmedBy[x] \cap view # {} /\ memory = Latest(ghost[v], view, GhostLen)
      BY <1>3, <2>2 DEF Armed
    <3>2. PICK m \in view : m \in BaseOn(ArmMargin)[x]
      BY <3>1 DEF ArmedBy
    <3>3. Touches(x, m)
      <4>1. ArmMargin \in Nat /\ m \in Markings
        BY <1>1 DEF CascadeBounds
      <4> QED
        BY <1>1, <3>2, <4>1, BaseReaches DEF Touches
    <3>4. near = met[v] \cup view
      BY <3>1, <3>3
    <3>5. GhostLen \in Int
      BY DEF CascadeBounds
    <3>6. /\ memory \in Seq(SUBSET Markings)
          /\ Len(memory) = IF Len(ghost[v]) + 1 > GhostLen THEN Len(ghost[v])
                                                           ELSE Len(ghost[v]) + 1
          /\ \A i \in 1..Len(memory) : memory[i] =
                IF Len(ghost[v]) + 1 > GhostLen
                THEN (IF i = Len(ghost[v]) THEN view ELSE ghost[v][i + 1])
                ELSE (IF i = Len(ghost[v]) + 1 THEN view ELSE ghost[v][i])
      <4>. DEFINE newest == Latest(ghost[v], view, GhostLen)
                  old == ghost[v]
                  views == SUBSET Markings
      <4>1. view \in views /\ old \in Seq(views)
        BY <1>1, <1>4
      <4>. HIDE DEF old, views
      <4>2. /\ newest \in Seq(views)
            /\ Len(newest) = IF Len(old) + 1 > GhostLen THEN Len(old) ELSE Len(old) + 1
            /\ \A i \in 1..Len(newest) : newest[i] =
                  IF Len(old) + 1 > GhostLen
                  THEN (IF i = Len(old) THEN view ELSE old[i + 1])
                  ELSE (IF i = Len(old) + 1 THEN view ELSE old[i])
        BY <3>5, <4>1, LatestIs DEF old
      <4>3. memory = newest
        BY <3>1
      <4>. HIDE DEF newest
      <4> QED
        BY <4>2, <4>3 DEF old, views
    <3>7. \A i \in 1..Len(memory) :
              memory[i] = view \/ \E j \in 1..Len(ghost[v]) : memory[i] = ghost[v][j]
      <4>. SUFFICES ASSUME NEW i \in 1..Len(memory)
                    PROVE  memory[i] = view \/ \E j \in 1..Len(ghost[v]) : memory[i] = ghost[v][j]
        OBVIOUS
      <4>1. Len(ghost[v]) \in Nat /\ i \in Int /\ i >= 1
        BY <1>4, <3>6
      <4>2. CASE Len(ghost[v]) + 1 > GhostLen
        <5>1. i <= Len(ghost[v])
          BY <3>6, <4>2
        <5>2. i # Len(ghost[v]) => i + 1 \in 1..Len(ghost[v])
          BY <4>1, <5>1
        <5> QED
          BY <3>6, <4>2, <5>2
      <4>3. CASE ~(Len(ghost[v]) + 1 > GhostLen)
        <5>1. i <= Len(ghost[v]) + 1
          BY <3>6, <4>3
        <5>2. i # Len(ghost[v]) + 1 => i \in 1..Len(ghost[v])
          BY <4>1, <5>1
        <5> QED
          BY <3>6, <4>3, <5>2
      <4> QED
        BY <4>2, <4>3
    <3>8. view # {}
      BY <3>1
    <3>. HIDE DEF near
    <3>9. \A i \in 1..Len(memory) : memory[i] \subseteq met[v] \cup view
      BY <1>4, <3>7
    <3> QED
      BY <3>4, <3>6, <3>8, <3>9
  <2> QED
    BY <2>1, <2>2
<1>6. lines \subseteq Markings /\ lines \subseteq known
  <2>1. CASE view # {}
    BY <1>1, <1>3, <2>1
  <2>2. CASE view = {}
    <3>1. lines = UNION ToSet(memory) /\ known = near
      BY <1>3, <2>2
    <3>2. ToSet(memory) = {memory[i] : i \in 1..Len(memory)}
      BY <1>5 DEF ToSet
    <3>. HIDE DEF near, known
    <3> QED
      BY <1>4, <1>5, <3>1, <3>2
  <2> QED
    BY <2>1, <2>2
<1>7. on \in BOOLEAN /\ stood \in BOOLEAN /\ (on => stood)
  <2>1. on => \E m \in lines : Reaches(x, m)
    BY <1>1, <1>3, <1>6, ConfirmedReaches
  <2>2. on => ~far
    BY <1>3
  <2>. HIDE DEF known
  <2> QED
    BY <1>3, <1>6, <2>1, <2>2
<1>8. /\ window' \in [Vehicles -> Seq(BOOLEAN)] /\ contacts' \in [Vehicles -> Seq(BOOLEAN)]
      /\ Len(window'[v]) = Len(contacts'[v])
      /\ \A i \in 1..Len(window'[v]) : window'[v][i] => contacts'[v][i]
      /\ \A u \in Vehicles \ {v} : window'[u] = window[u] /\ contacts'[u] = contacts[u]
  <2>. DEFINE w == Latest(window[v], on, M)
              c == Latest(contacts[v], stood, M)
  <2>. HIDE DEF stood
  <2>1. M \in Int
    BY DEF CascadeBounds
  <2>2. /\ w \in Seq(BOOLEAN)
        /\ Len(w) = IF Len(window[v]) + 1 > M THEN Len(window[v]) ELSE Len(window[v]) + 1
        /\ \A i \in 1..Len(w) : w[i] =
                IF Len(window[v]) + 1 > M THEN (IF i = Len(window[v]) THEN on ELSE window[v][i + 1])
                ELSE (IF i = Len(window[v]) + 1 THEN on ELSE window[v][i])
    BY <1>4, <1>7, <2>1, LatestIs
  <2>3. /\ c \in Seq(BOOLEAN)
        /\ Len(c) = IF Len(contacts[v]) + 1 > M THEN Len(contacts[v]) ELSE Len(contacts[v]) + 1
        /\ \A i \in 1..Len(c) : c[i] =
                IF Len(contacts[v]) + 1 > M
                THEN (IF i = Len(contacts[v]) THEN stood ELSE contacts[v][i + 1])
                ELSE (IF i = Len(contacts[v]) + 1 THEN stood ELSE contacts[v][i])
    BY <1>4, <1>7, <2>1, LatestIs
  <2>4. Len(window[v]) \in Nat
    BY <1>4
  <2>. HIDE DEF w, c
  <2>5. Len(w) = Len(c)
    BY <1>4, <2>2, <2>3
  <2>6. ASSUME NEW i \in 1..Len(w), w[i] PROVE c[i]
    <3>1. CASE Len(window[v]) + 1 > M
      <4>1. i <= Len(window[v])
        BY <2>2, <2>4, <3>1
      <4>2. CASE i = Len(window[v])
        BY <1>4, <1>7, <2>2, <2>3, <2>5, <2>6, <3>1, <4>2
      <4>3. CASE i # Len(window[v])
        <5>1. i + 1 \in 1..Len(window[v])
          BY <2>4, <4>1, <4>3
        <5>2. w[i] = window[v][i + 1] /\ c[i] = contacts[v][i + 1]
          BY <1>4, <2>2, <2>3, <2>5, <3>1, <4>3
        <5> QED
          BY <1>4, <2>6, <5>1, <5>2
      <4> QED
        BY <4>2, <4>3
    <3>2. CASE ~(Len(window[v]) + 1 > M)
      <4>1. i <= Len(window[v]) + 1
        BY <2>2, <2>4, <3>2
      <4>2. CASE i = Len(window[v]) + 1
        BY <1>4, <1>7, <2>2, <2>3, <2>5, <2>6, <3>2, <4>2
      <4>3. CASE i # Len(window[v]) + 1
        <5>1. i \in 1..Len(window[v])
          BY <2>4, <4>1, <4>3
        <5>2. w[i] = window[v][i] /\ c[i] = contacts[v][i]
          BY <1>4, <2>2, <2>3, <2>5, <3>2, <4>3
        <5> QED
          BY <1>4, <2>6, <5>1, <5>2
      <4> QED
        BY <4>2, <4>3
    <3> QED
      BY <3>1, <3>2
  <2>7. window' = [window EXCEPT ![v] = w] /\ contacts' = [contacts EXCEPT ![v] = c]
    BY <1>2, <1>3 DEF w, c
  <2>8. window \in [Vehicles -> Seq(BOOLEAN)] /\ contacts \in [Vehicles -> Seq(BOOLEAN)]
    BY DEF CascadeInv
  <2>9. window'[v] = w /\ contacts'[v] = c
    BY <1>4, <2>7, <2>8
  <2> QED
    BY <1>4, <2>2, <2>3, <2>5, <2>6, <2>7, <2>8, <2>9
<1>9. /\ ghost' \in [Vehicles -> Seq(SUBSET Markings)] /\ met' \in [Vehicles -> SUBSET Markings]
      /\ GhostInv'
  <2>1. ghost \in [Vehicles -> Seq(SUBSET Markings)] /\ met \in [Vehicles -> SUBSET Markings]
    BY DEF CascadeInv
  <2>. HIDE DEF near
  <2>2. /\ ghost'[v] = memory /\ met'[v] = near
        /\ \A u \in Vehicles \ {v} : ghost'[u] = ghost[u] /\ met'[u] = met[u]
    BY <1>2, <1>3, <1>4, <2>1
  <2>3. \A u \in Vehicles : \A i \in 1..Len(ghost'[u]) : ghost'[u][i] \subseteq met'[u]
    BY <1>5, <2>2 DEF CascadeInv, GhostInv
  <2> QED
    BY <1>2, <1>3, <1>4, <1>5, <2>1, <2>3 DEF GhostInv
<1>10. /\ fired' \in [Vehicles -> BOOLEAN]
       /\ fired'[v] = (Cardinality({i \in DOMAIN window'[v] : window'[v][i]}) >= K)
       /\ \A u \in Vehicles \ {v} : fired'[u] = fired[u]
  <2>1. fired \in [Vehicles -> BOOLEAN]
    BY DEF CascadeInv
  <2>. DEFINE over == Cardinality({i \in DOMAIN window'[v] : window'[v][i]}) >= K
  <2>2. fired' = [fired EXCEPT ![v] = over] /\ over \in BOOLEAN
    BY <1>3
  <2>. HIDE DEF over
  <2>3. fired' \in [Vehicles -> BOOLEAN] /\ fired'[v] = over
        /\ \A u \in Vehicles \ {v} : fired'[u] = fired[u]
    BY <1>4, <2>1, <2>2
  <2> QED
    BY <2>3 DEF over
<1>11. VerdictInv'
  <2>1. ASSUME NEW u \in Vehicles
        PROVE  /\ Len(window'[u]) = Len(contacts'[u])
               /\ \A i \in 1..Len(window'[u]) : window'[u][i] => contacts'[u][i]
               /\ fired'[u] => Cardinality({i \in DOMAIN window'[u] : window'[u][i]}) >= K
    <3>1. CASE u = v
      BY <1>8, <1>10, <3>1
    <3>2. CASE u # v
      <4>1. window'[u] = window[u] /\ contacts'[u] = contacts[u] /\ fired'[u] = fired[u]
        BY <1>8, <1>10, <3>2
      <4> QED
        BY <4>1 DEF CascadeInv, VerdictInv
    <3> QED
      BY <3>1, <3>2
  <2> QED
    BY <2>1 DEF VerdictInv
<1> QED
  BY <1>8, <1>9, <1>10, <1>11 DEF CascadeInv

\* The invariant of Stage 2, whatever it sees of whichever vehicles.
THEOREM CascadeCorrect == CascadeBounds /\ DriveSpec => []CascadeInv
<1>. SUFFICES ASSUME CascadeBounds PROVE DriveSpec => []CascadeInv
  OBVIOUS
<1>1. Init => CascadeInv
  BY DEF Init, CascadeInv, GhostInv, VerdictInv
<1>2. CascadeInv /\ Curve => CascadeInv'
  BY DEF Curve, CascadeInv, GhostInv, VerdictInv
<1>3. CascadeInv /\ UNCHANGED vars => CascadeInv'
  BY DEF vars, CascadeInv, GhostInv, VerdictInv
<1>4. DriveInit => Init
  BY DEF DriveInit
<1>5. [DriveNext]_DriveVars => Next \/ UNCHANGED vars
  BY DEF DriveNext, DriveVars
<1>6. CascadeInv /\ [DriveNext]_DriveVars => CascadeInv'
  BY <1>2, <1>3, <1>5, ObserveStep DEF Next
<1> QED
  BY <1>1, <1>4, <1>6, PTL DEF DriveSpec

\* A crossing that Stage 2 confirms rests on K frames in which that vehicle stood at paint that
\* was in view, or was when the vehicle's own box touched some.
THEOREM CrossingIsProven == CascadeBounds /\ DriveSpec => []CrossingProven
<1>. SUFFICES ASSUME CascadeBounds PROVE DriveSpec => []CrossingProven
  OBVIOUS
<1>1. CascadeInv => CrossingProven
  <2>. SUFFICES ASSUME CascadeInv, NEW v \in Vehicles, fired[v]
                PROVE  Cardinality({i \in DOMAIN contacts[v] : contacts[v][i]}) >= K
    BY DEF CrossingProven
  <2>. DEFINE hits == {i \in DOMAIN window[v] : window[v][i]}
              stands == {i \in DOMAIN contacts[v] : contacts[v][i]}
  <2>1. /\ DOMAIN window[v] = 1..Len(window[v]) /\ DOMAIN contacts[v] = 1..Len(window[v])
        /\ Len(window[v]) \in Nat
    <3>1. window[v] \in Seq(BOOLEAN) /\ contacts[v] \in Seq(BOOLEAN)
      BY DEF CascadeInv
    <3>2. Len(window[v]) = Len(contacts[v])
      BY DEF CascadeInv, VerdictInv
    <3> QED
      BY <3>1, <3>2
  <2>2. hits \subseteq stands /\ stands \subseteq 1..Len(window[v])
    BY <2>1 DEF CascadeInv, VerdictInv
  <2>3. Cardinality(hits) >= K /\ K \in Int
    BY DEF CascadeInv, VerdictInv, CascadeBounds
  <2>4. IsFiniteSet(1..Len(window[v]))
    <3>1. 1 \in Int /\ Len(window[v]) \in Int
      BY <2>1
    <3> QED
      BY <3>1, FS_Interval
  <2>. HIDE DEF hits, stands
  <2>5. IsFiniteSet(stands)
    BY <2>2, <2>4, FS_Subset
  <2>6. Cardinality(hits) <= Cardinality(stands) /\ IsFiniteSet(hits)
    BY <2>2, <2>5, FS_Subset
  <2>7. Cardinality(hits) \in Int /\ Cardinality(stands) \in Int
    BY <2>5, <2>6, FS_CardinalityType
  <2> QED
    BY <2>3, <2>6, <2>7 DEF stands
<1> QED
  BY <1>1, CascadeCorrect, PTL
===============================================================================
