---------------------------- MODULE JourneyProofs ----------------------------
(***************************************************************************)
(* Theorems about the components that MCJourney puts side by side: the review *)
(* of a violation, the evidence clip, the frame loop, the offline batch, the  *)
(* recording of a drive, the screens of the phone, signing in and the list of *)
(* violations, for any values of their constants within the bounds each       *)
(* theorem names.  Each part has a section with its invariant, one lemma per  *)
(* step or group of steps, and its theorems.                                  *)
(***************************************************************************)
EXTENDS MCJourney, TLAPS, SequenceTheorems, FiniteSetTheorems

-----------------------------------------------------------------------------
(* Review *)

\* A decision on record was saved by a click, and a verify that saved has told its driver,
\* will, or was cut off; who was told, or found a decision, was told of one on record then.
AnnouncedInv ==
    /\ status # "pending" => \E c \in Clicks : R!Saved(c) /\ action[c] = status
    /\ \A c \in Clicks : action[c] = "verified" /\ at[c] \in {"answer", "ok"} => c \in notes
    /\ \A c \in Clicks : at[c] = "notify" => action[c] = "verified"
    /\ \A c \in Clicks : at[c] # "unused" => who[c] \in Authorities
    /\ \A c \in notes : R!Saved(c) /\ action[c] = "verified"
    /\ \A c \in Clicks : R!Saved(c) \/ seen[c][1] # "pending" => status # "pending"
    /\ \A a \in Authorities : page[a] \in R!Decisions => status # "pending"

ReviewInv == R!TypeOK /\ AnnouncedInv /\ R!ToldTrue

\* The first state.
LEMMA ReviewInit == MaxFaults \in Nat /\ R!Init => ReviewInv
<1>. SUFFICES ASSUME MaxFaults \in Nat, R!Init PROVE ReviewInv
  OBVIOUS
<1>. USE DEF R!Init
<1>1. R!TypeOK
  BY DEF R!TypeOK, R!Statuses, R!Decisions
<1>2. AnnouncedInv /\ R!ToldTrue
  BY DEF AnnouncedInv, R!ToldTrue, R!Saved, R!Decisions
<1> QED
  BY <1>1, <1>2 DEF ReviewInv

\* A step keeps the types ...
LEMMA ReviewTypes == MaxFaults \in Nat /\ ReviewInv /\ [R!Next]_R!vars => R!TypeOK'
<1>. SUFFICES ASSUME MaxFaults \in Nat, ReviewInv, [R!Next]_R!vars PROVE R!TypeOK'
  OBVIOUS
<1>. USE DEF ReviewInv, R!TypeOK, R!Statuses, R!Decisions, R!document, R!pages, R!clicks
<1>1. ASSUME NEW a \in Authorities, R!Open(a) PROVE R!TypeOK'
  BY <1>1 DEF R!Open
<1>2. ASSUME NEW a \in Authorities, NEW d \in {"verified", "dismissed"}, R!Click(a, d)
      PROVE  R!TypeOK'
  BY <1>2 DEF R!Click
<1>3. ASSUME NEW c \in Clicks, R!Find(c) PROVE R!TypeOK'
  BY <1>3 DEF R!Find
<1>4. ASSUME NEW c \in Clicks, R!Save(c) PROVE R!TypeOK'
  <2>1. who[c] \in Authorities
    BY <1>4 DEF R!Save, AnnouncedInv
  <2>2. status' \in R!Statuses /\ reviewedBy' \in Authorities \cup {NoOne}
    BY <1>4, <2>1 DEF R!Save, R!SavedStatus, R!SavedReviewer
  <2> QED
    BY <1>4, <2>1, <2>2, SMTT(30) DEF R!Save
<1>5. ASSUME NEW c \in Clicks, R!Notify(c) PROVE R!TypeOK'
  BY <1>5 DEF R!Notify
<1>6. ASSUME NEW c \in Clicks, R!Answer(c) PROVE R!TypeOK'
  BY <1>6 DEF R!Answer, AnnouncedInv
<1>7. ASSUME NEW c \in Clicks, R!Fail(c) PROVE R!TypeOK'
  BY <1>7 DEF R!Fail
<1>8. CASE UNCHANGED R!vars
  BY <1>8 DEF R!vars
<1> QED
  BY <1>1, <1>2, <1>3, <1>4, <1>5, <1>6, <1>7, <1>8 DEF R!Next

\* ... and what has been announced.
LEMMA ReviewStep == ReviewInv /\ [R!Next]_R!vars => AnnouncedInv' /\ R!ToldTrue'
<1>. SUFFICES ASSUME ReviewInv, [R!Next]_R!vars PROVE AnnouncedInv' /\ R!ToldTrue'
  OBVIOUS
<1>. USE DEF ReviewInv, R!TypeOK, AnnouncedInv, R!ToldTrue, R!Decisions, R!Statuses, R!Saved,
   R!document, R!pages, R!clicks
<1>1. ASSUME NEW a \in Authorities, R!Open(a) PROVE AnnouncedInv' /\ R!ToldTrue'
  BY <1>1 DEF R!Open
<1>2. ASSUME NEW a \in Authorities, NEW d \in {"verified", "dismissed"}, R!Click(a, d)
      PROVE  AnnouncedInv' /\ R!ToldTrue'
  <2>. PICK c \in Clicks : /\ at[c] = "unused" /\ at' = [at EXCEPT ![c] = "sent"]
                           /\ who' = [who EXCEPT ![c] = a]
                           /\ action' = [action EXCEPT ![c] = d]
    BY <1>2 DEF R!Click
  <2>1. UNCHANGED <<status, reviewedBy, notes, page, message, seen, faults>>
    BY <1>2 DEF R!Click
  <2>2. c \notin notes
    OBVIOUS
  <2>3. AnnouncedInv'
    BY <2>1, <2>2
  <2>4. R!ToldTrue'
    BY <2>1, <2>2
  <2> QED
    BY <2>3, <2>4
<1>3. ASSUME NEW c \in Clicks, R!Find(c) PROVE AnnouncedInv' /\ R!ToldTrue'
  BY <1>3 DEF R!Find
<1>4. ASSUME NEW c \in Clicks, R!Save(c) PROVE AnnouncedInv' /\ R!ToldTrue'
  <2>1. /\ at[c] = "save" /\ action[c] \in {"verified", "dismissed"}
        /\ at' = [at EXCEPT ![c] = IF action[c] = "verified" THEN "notify" ELSE "answer"]
        /\ UNCHANGED <<notes, page, message, who, action, seen, faults>>
    BY <1>4 DEF R!Save
  <2>2. status' = action[c] \/ (seen[c][1] = action[c] /\ status' = status)
    BY <1>4 DEF R!Save, R!SavedStatus
  <2>3. status' # "pending"
    BY <2>1, <2>2
  <2>4. R!Saved(c)' /\ \A b \in Clicks : R!Saved(b) => R!Saved(b)'
    BY <2>1
  <2>5. \E b \in Clicks : R!Saved(b)' /\ action'[b] = status'
    BY <2>1, <2>2, <2>3, <2>4
  <2>6. \A b \in Clicks : b # c => at'[b] = at[b]
    BY <2>1
  <2>7. \A b \in Clicks : action'[b] = "verified" /\ at'[b] \in {"answer", "ok"} => b \in notes'
    BY <2>1, <2>6
  <2>8. \A b \in Clicks : at'[b] # "unused" => who'[b] \in Authorities
    BY <2>1, <2>6
  <2>9. \A b \in notes' : R!Saved(b)' /\ action'[b] = "verified"
    BY <2>1, <2>4
  <2>10. \A b \in Clicks : R!Saved(b)' \/ seen'[b][1] # "pending" => status' # "pending"
    BY <2>3
  <2>11. \A a \in Authorities : page'[a] \in R!Decisions => status' # "pending"
    BY <2>3
  <2>12. AnnouncedInv'
    <3>1. \A b \in Clicks : at'[b] = "notify" => action'[b] = "verified"
      BY <2>1, <2>6
    <3> QED
      BY <2>3, <2>5, <2>7, <2>8, <2>9, <2>10, <2>11, <3>1
  <2>13. R!ToldTrue'
    BY <2>1
  <2> QED
    BY ONLY <2>12, <2>13
<1>5. ASSUME NEW c \in Clicks, R!Notify(c) PROVE AnnouncedInv' /\ R!ToldTrue'
  <2>1. /\ at[c] = "notify" /\ notes' = notes \cup {c}
        /\ at' = [at EXCEPT ![c] = "answer"]
        /\ UNCHANGED <<status, reviewedBy, page, message, who, action, seen, faults>>
    BY <1>5 DEF R!Notify, R!Notifies
  <2>2. action[c] = "verified"
    BY <2>1
  <2>3. \A b \in Clicks : b # c => at'[b] = at[b]
    BY <2>1
  <2>4. AnnouncedInv'
    BY <2>1, <2>2, <2>3
  <2>5. R!ToldTrue'
    BY <2>1
  <2> QED
    BY ONLY <2>4, <2>5
<1>6. ASSUME NEW c \in Clicks, R!Answer(c) PROVE AnnouncedInv' /\ R!ToldTrue'
  BY <1>6 DEF R!Answer
<1>7. ASSUME NEW c \in Clicks, R!Fail(c) PROVE AnnouncedInv' /\ R!ToldTrue'
  BY <1>7 DEF R!Fail
<1>8. CASE UNCHANGED R!vars
  BY <1>8 DEF R!vars
<1> QED
  BY <1>1, <1>2, <1>3, <1>4, <1>5, <1>6, <1>7, <1>8 DEF R!Next

\* MCJourney takes the steps of Review in its part, and no others.
LEMMA ReviewPart ==
    /\ Init /\ part = "review" => R!Init
    /\ [Next]_vars => part' = part /\ (part = "review" => [R!Next]_R!vars)
BY DEF Init, Next, vars, reviewVars, R!vars

\* The invariant of the review, however many authorities click how often.
THEOREM ReviewCorrect == MaxFaults \in Nat /\ Spec => [](part = "review" => ReviewInv)
<1>. SUFFICES ASSUME MaxFaults \in Nat PROVE Spec => [](part = "review" => ReviewInv)
  OBVIOUS
<1>1. Init => (part = "review" => ReviewInv)
  BY ReviewPart, ReviewInit
<1>2. (part = "review" => ReviewInv) /\ [Next]_vars => (part = "review" => ReviewInv)'
  BY ReviewPart, ReviewTypes, ReviewStep DEF ReviewInv
<1> QED
  BY <1>1, <1>2, PTL DEF Spec

\* A violation that is verified has been announced or is about to be, unless its verifies
\* were cut off half-way; no page claims an announcement that was not made; and what a
\* driver or a page was told and is no longer on record was overruled by a saved review.
THEOREM ReviewersAreTold == MaxFaults \in Nat /\ Spec => []ReviewTold
<1>. SUFFICES ASSUME MaxFaults \in Nat PROVE Spec => []ReviewTold
  OBVIOUS
<1>1. (part = "review" => ReviewInv) => ReviewTold
  <2>. SUFFICES ASSUME ReviewInv PROVE R!ReviewTold
    BY DEF ReviewTold
  <2>. USE DEF ReviewInv, AnnouncedInv, R!TypeOK, R!Statuses, R!Decisions
  <2>1. R!VerifiedAnnounced
    BY DEF R!VerifiedAnnounced, R!Saved
  <2>2. R!Overruled
    <3>1. notes # {} => status # "pending"
      OBVIOUS
    <3> QED
      BY <3>1 DEF R!Overruled
  <2> QED
    BY <2>1, <2>2 DEF R!ReviewTold
<1> QED
  BY <1>1, ReviewCorrect, PTL

-----------------------------------------------------------------------------
(* EvidenceClip *)

ClipBounds == N \in Nat \ {0} /\ Total \in Nat \ {0} /\ Pre \in Nat /\ Post \in Nat

\* A clip is of a violation that has been rendered and is what its writer left; clips are
\* sent in turn.
ClipInv ==
    /\ phase \in {"open", "render", "release", "unpack", "ship", "shipped", "failed"}
    /\ now \in 1..N
    /\ key \in [C!Ids -> 0..Total-1]
    /\ writer \in {"ffmpeg", "broken", "cv2", "none"}
    /\ file \in [C!Ids -> {"none", "h264", "mp4v", "cut"}]
    /\ sent \in [C!Ids -> C!Kinds]
    /\ clip \subseteq C!Ids
    /\ phase \in {"open", "render", "release"} => \A v \in clip : v < now
    /\ phase \in {"open", "render", "release", "unpack"} => \A v \in C!Ids : sent[v] = "none"
    /\ phase = "unpack" => now = 1
    /\ phase = "ship" => \A v \in 1..now-1 : sent[v] # "none"
    /\ C!NeverWithoutClip
    /\ \A v \in clip : file[v] \in {"h264", "mp4v"}
    /\ C!RenderedGoesUp

\* The window of a clip holds its key frame, at either end of the video.
LEMMA KeyInWindow ==
  ASSUME ClipBounds, NEW v \in C!Ids, key \in [C!Ids -> 0..Total-1]
  PROVE  key[v] \in C!Window(v)
<1>1. \A a, b \in Int : /\ C!Min({a, b}) \in {a, b} /\ C!Min({a, b}) <= a /\ C!Min({a, b}) <= b
                        /\ C!Max({a, b}) \in {a, b} /\ C!Max({a, b}) >= a /\ C!Max({a, b}) >= b
  <2>. TAKE a, b \in Int
  <2>1. \E x \in {a, b} : \A y \in {a, b} : x <= y
    OBVIOUS
  <2>2. \E x \in {a, b} : \A y \in {a, b} : x >= y
    OBVIOUS
  <2>3. /\ C!Min({a, b}) \in {a, b} /\ \A y \in {a, b} : C!Min({a, b}) <= y
    BY <2>1 DEF C!Min
  <2>4. /\ C!Max({a, b}) \in {a, b} /\ \A y \in {a, b} : C!Max({a, b}) >= y
    BY <2>2 DEF C!Max
  <2> QED
    BY <2>3, <2>4
<1>2. key[v] \in 0..Total-1 /\ key[v] \in Int
  BY DEF ClipBounds
<1>3. C!LastFrame(v) \in Int /\ key[v] <= C!LastFrame(v)
  <2>1. key[v] + Post \in Int /\ Total - 1 \in Int
    BY <1>2 DEF ClipBounds
  <2>2. C!LastFrame(v) \in {key[v] + Post, Total - 1}
    BY <1>1, <2>1 DEF C!LastFrame
  <2> QED
    BY <1>2, <2>1, <2>2 DEF ClipBounds
<1>4. C!FirstFrame(v) \in Int /\ C!FirstFrame(v) <= key[v]
  <2>. DEFINE m == C!Max({0, key[v] - Pre})
  <2>1. key[v] - Pre \in Int
    BY <1>2 DEF ClipBounds
  <2>2. m \in {0, key[v] - Pre}
    <3>1. 0 \in Int
      OBVIOUS
    <3>2. \A b \in Int : C!Max({0, b}) \in {0, b}
      BY <1>1, <3>1, Zenon
    <3> QED
      BY <2>1, <3>2, Zenon
  <2>3. m \in Int /\ m <= key[v]
    BY <1>2, <2>1, <2>2 DEF ClipBounds
  <2>4. C!FirstFrame(v) = C!Min({m, C!LastFrame(v)})
    BY DEF C!FirstFrame
  <2>. HIDE DEF m
  <2>5. C!FirstFrame(v) \in {m, C!LastFrame(v)} /\ C!FirstFrame(v) <= m
    BY <1>1, <1>3, <2>3, <2>4
  <2> QED
    BY <1>2, <1>3, <2>3, <2>5
<1> QED
  BY <1>2, <1>3, <1>4 DEF C!Window

\* The first state.
LEMMA ClipInit == ClipBounds /\ C!Init => ClipInv
  BY DEF ClipBounds, C!Init, ClipInv, C!Ids, C!Kinds, C!NeverWithoutClip, C!RenderedGoesUp

\* A step keeps clips with their files, and the files on their way.
LEMMA ClipStep == ClipBounds /\ ClipInv /\ [C!Next]_C!vars => ClipInv'
<1>. SUFFICES ASSUME ClipBounds, ClipInv, [C!Next]_C!vars PROVE ClipInv'
  OBVIOUS
<1>. USE DEF ClipBounds, ClipInv, C!Ids, C!Kinds, C!NeverWithoutClip, C!RenderedGoesUp
<1>1. ASSUME C!RenderFailsAtOnce PROVE ClipInv'
  BY <1>1 DEF C!RenderFailsAtOnce, C!Continue
<1>2. ASSUME C!OpenWriter PROVE ClipInv'
  BY <1>2 DEF C!OpenWriter
<1>3. ASSUME C!WriteFrame PROVE ClipInv'
  BY <1>3 DEF C!WriteFrame
<1>4. ASSUME C!EndOfFrames PROVE ClipInv'
  BY <1>4 DEF C!EndOfFrames
<1>5. ASSUME C!Release PROVE ClipInv'
  BY <1>5 DEF C!Release, C!Continue
<1>6. ASSUME C!Unpack PROVE ClipInv'
  BY <1>6 DEF C!Unpack
<1>7. ASSUME C!ShipClip PROVE ClipInv'
  <2>1. CASE C!Moved(now)
    <3>1. PICK kind \in C!Uploaded(file[now]) : sent' = [sent EXCEPT ![now] = kind]
      BY <1>7, <2>1 DEF C!ShipClip
    <3>2. kind \in {"h264", file[now]} /\ file[now] # "none"
      BY <2>1, <3>1 DEF C!Uploaded, C!Moved
    <3> QED
      BY <1>7, <3>1, <3>2, SMTT(30) DEF C!ShipClip
  <2>2. CASE ~C!Moved(now)
    BY <1>7, <2>2, SMTT(30) DEF C!ShipClip, C!Moved, C!Fallback
  <2> QED
    BY <2>1, <2>2
<1>8. ASSUME C!ShipFails PROVE ClipInv'
  BY <1>8 DEF C!ShipFails
<1>9. CASE UNCHANGED C!vars
  BY <1>9 DEF C!vars
<1> QED
  BY <1>1, <1>2, <1>3, <1>4, <1>5, <1>6, <1>7, <1>8, <1>9 DEF C!Next

\* MCJourney takes the steps of EvidenceClip in its part, and no others.
LEMMA ClipPart ==
    /\ Init /\ part = "clip" => C!Init
    /\ [Next]_vars => part' = part /\ (part = "clip" => [C!Next]_C!vars)
BY DEF Init, Next, vars, clipVars, C!vars

\* Every violation that is reported has something to open; one that was rendered whole
\* has its own clip, whose frames include the key frame.
THEOREM ClipsReachReviewer == ClipBounds /\ Spec => []ClipReachesReviewer
<1>. SUFFICES ASSUME ClipBounds PROVE Spec => []ClipReachesReviewer
  OBVIOUS
<1>1. (part = "clip" => ClipInv) => ClipReachesReviewer
  <2>. SUFFICES ASSUME ClipInv PROVE C!ShowsKeyFrame
    BY DEF ClipInv, ClipReachesReviewer, C!ClipReachesReviewer
  <2> QED
    BY KeyInWindow DEF ClipInv, C!ShowsKeyFrame
<1>2. Init => (part = "clip" => ClipInv)
  BY ClipPart, ClipInit
<1>3. (part = "clip" => ClipInv) /\ [Next]_vars => (part = "clip" => ClipInv)'
  BY ClipPart, ClipStep
<1> QED
  BY <1>1, <1>2, <1>3, PTL DEF Spec

-----------------------------------------------------------------------------
(* FrameLoop *)

LoopBounds == Length \in Nat /\ MaxGap \in Nat

\* A track has a box in every frame since its first, a real one in the last; a box is
\* only filled in the end.
LoopInv ==
    /\ loopPc \in {"open", "loop", "read", "fill", "filled", "raised"}
    /\ frame \in Nat
    /\ start \in [Vehicles -> {F!Absent} \cup Nat] /\ end \in [Vehicles -> {F!Absent} \cup Nat]
    /\ DOMAIN box = Vehicles
    /\ \A v \in Vehicles :
         /\ start[v] = F!Absent <=> end[v] = F!Absent
         /\ end[v] < frame /\ start[v] <= end[v]
    /\ F!TracksHaveNoHoles
    /\ loopPc # "filled" => \A v \in Vehicles : \A f \in DOMAIN box[v] : box[v][f] # "filled"
    /\ F!FilledBetweenSightings

\* The first state.
LEMMA LoopInit == LoopBounds /\ F!Init => LoopInv
<1>. SUFFICES ASSUME F!Init PROVE LoopInv
  OBVIOUS
<1>. USE DEF F!Init, F!Absent
<1>1. \A v \in Vehicles : DOMAIN box[v] = {}
  OBVIOUS
<1>2. F!TracksHaveNoHoles /\ F!FilledBetweenSightings
  BY <1>1 DEF F!TracksHaveNoHoles, F!FilledBetweenSightings
<1> QED
  BY <1>1, <1>2 DEF LoopInv

\* A frame gives each vehicle in it a box, and zeros since its last one.
LEMMA FrameKeepsTracks == LoopInv /\ F!ProcessFrame => LoopInv'
<1>. SUFFICES ASSUME LoopInv, F!ProcessFrame PROVE LoopInv'
  OBVIOUS
<1>. USE DEF LoopInv, F!Absent
<1>1. PICK here \in SUBSET Vehicles :
        /\ start' = [v \in Vehicles |-> IF v \in here /\ start[v] = F!Absent THEN frame
                                        ELSE start[v]]
        /\ box' = [v \in Vehicles |-> IF v \in here THEN F!WithBox(v) ELSE box[v]]
        /\ end' = [v \in Vehicles |-> IF v \in here THEN frame ELSE end[v]]
  BY DEF F!ProcessFrame
<1>2. /\ loopPc = "loop" /\ frame' = frame + 1 /\ loopPc' \in {"fill", "read"}
  BY DEF F!ProcessFrame
<1>3. ASSUME NEW v \in Vehicles, v \in here
      PROVE  /\ DOMAIN box'[v] = start'[v] .. end'[v]
             /\ \A f \in DOMAIN box'[v] : box'[v][f] # "filled"
  <2>1. box'[v] = [f \in DOMAIN box[v] \cup F!Missing(v) \cup {frame} |->
           IF f = frame THEN "real" ELSE IF f \in DOMAIN box[v] THEN box[v][f] ELSE "zero"]
    BY <1>1, <1>3 DEF F!WithBox
  <2>2. \A f \in DOMAIN box[v] : box[v][f] # "filled"
    BY <1>2
  <2>3. DOMAIN box[v] = IF start[v] = F!Absent THEN {} ELSE start[v] .. end[v]
    BY DEF F!TracksHaveNoHoles
  <2>4. end'[v] = frame /\ start'[v] = IF start[v] = F!Absent THEN frame ELSE start[v]
    BY <1>1, <1>3
  <2>5. DOMAIN box'[v] = DOMAIN box[v] \cup F!Missing(v) \cup {frame}
    BY <2>1
  <2>6. DOMAIN box'[v] = start'[v] .. end'[v]
    <3>1. CASE start[v] = F!Absent
      BY <2>3, <2>4, <2>5, <3>1 DEF F!Missing
    <3>2. CASE start[v] # F!Absent
      <4>1. start[v] \in Nat /\ end[v] \in Nat /\ start[v] <= end[v] /\ end[v] < frame
        BY <3>2
      <4>2. DOMAIN box'[v] = start[v] .. end[v] \cup (end[v] + 1) .. (frame - 1) \cup {frame}
        BY <2>3, <2>5, <3>2, <4>1 DEF F!Missing
      <4> QED
        BY <2>4, <3>2, <4>1, <4>2
    <3> QED
      BY <3>1, <3>2
  <2> QED
    BY <2>1, <2>2, <2>6
<1>4. ASSUME NEW v \in Vehicles, v \notin here
      PROVE  box'[v] = box[v] /\ start'[v] = start[v] /\ end'[v] = end[v]
  BY <1>1, <1>4
<1>5. \A v \in Vehicles : \A f \in DOMAIN box'[v] : box'[v][f] # "filled"
  BY <1>2, <1>3, <1>4
<1>6. F!FilledBetweenSightings'
  BY <1>5 DEF F!FilledBetweenSightings
<1>7. /\ start' \in [Vehicles -> {F!Absent} \cup Nat] /\ end' \in [Vehicles -> {F!Absent} \cup Nat]
      /\ DOMAIN box' = Vehicles /\ frame' \in Nat
  BY <1>1, <1>2
<1>8. ASSUME NEW v \in Vehicles
      PROVE  /\ start'[v] = F!Absent <=> end'[v] = F!Absent
             /\ end'[v] < frame' /\ start'[v] <= end'[v]
  BY <1>1, <1>2
<1>9. F!TracksHaveNoHoles'
  <2>1. ASSUME NEW v \in Vehicles
        PROVE  DOMAIN box'[v] = IF start'[v] = F!Absent THEN {} ELSE start'[v] .. end'[v]
    <3>1. CASE v \in here
      <4>1. start'[v] # F!Absent
        BY <1>1, <3>1
      <4> QED
        BY <1>3, <3>1, <4>1
    <3>2. CASE v \notin here
      BY <1>4, <3>2 DEF F!TracksHaveNoHoles
    <3> QED
      BY <3>1, <3>2
  <2> QED
    BY <2>1 DEF F!TracksHaveNoHoles
<1> QED
  BY <1>2, <1>5, <1>6, <1>7, <1>8, <1>9

\* Filling keeps the boxes and what is real, and fills only next to two real ones.
LEMMA FillKeepsTracks == LoopBounds /\ LoopInv /\ F!FillGaps => LoopInv'
<1>. SUFFICES ASSUME LoopBounds, LoopInv, F!FillGaps PROVE LoopInv'
  OBVIOUS
<1>. USE DEF LoopInv, LoopBounds, F!Absent
<1>1. /\ box' = [v \in Vehicles |-> [f \in DOMAIN box[v] |->
                  IF F!InShortGap(v, f) THEN "filled" ELSE box[v][f]]]
      /\ loopPc = "fill" /\ loopPc' = "filled" /\ UNCHANGED <<frame, start, end>>
  BY DEF F!FillGaps
<1>2. \A v \in Vehicles : DOMAIN box'[v] = DOMAIN box[v]
  BY <1>1
<1>3. F!TracksHaveNoHoles'
  BY <1>1, <1>2 DEF F!TracksHaveNoHoles
<1>4. ASSUME NEW v \in Vehicles, NEW f \in F!RealFrames(v) PROVE f \in F!RealFrames(v)'
  <2>1. f \in DOMAIN box[v] /\ box[v][f] = "real" /\ f \in Int
    BY DEF F!RealFrames, F!TracksHaveNoHoles
  <2>2. \A a, b \in F!RealFrames(v) : a \in Int /\ b \in Int
    BY DEF F!RealFrames, F!TracksHaveNoHoles
  <2>3. ~F!InShortGap(v, f)
    BY <2>1, <2>2 DEF F!InShortGap
  <2>4. box'[v][f] = "real"
    BY <1>1, <2>1, <2>3
  <2> QED
    BY <1>2, <2>1, <2>4 DEF F!RealFrames
<1>5. ASSUME NEW v \in Vehicles, NEW f \in DOMAIN box'[v], box'[v][f] = "filled"
      PROVE  /\ \E a \in F!RealFrames(v)' : f - MaxGap <= a /\ a < f
             /\ \E b \in F!RealFrames(v)' : f < b /\ b <= f + MaxGap
  <2>1. F!InShortGap(v, f) /\ f \in Int
    BY <1>1, <1>2, <1>5 DEF F!TracksHaveNoHoles
  <2>2. PICK a \in F!RealFrames(v), b \in F!RealFrames(v) :
           a < f /\ f < b /\ b - a - 1 <= MaxGap
    BY <2>1 DEF F!InShortGap, F!Fills
  <2>3. a \in Int /\ b \in Int
    BY DEF F!RealFrames, F!TracksHaveNoHoles
  <2>4. f - MaxGap <= a /\ b <= f + MaxGap
    BY <2>1, <2>2, <2>3
  <2> QED
    BY <1>4, <2>2, <2>4
<1>6. F!FilledBetweenSightings'
  BY <1>5 DEF F!FilledBetweenSightings
<1> QED
  BY <1>1, <1>2, <1>3, <1>6

\* MCJourney takes the steps of FrameLoop in its part, and no others.
LEMMA LoopPart ==
    /\ Init /\ part = "loop" => F!Init
    /\ [Next]_vars => part' = part /\ (part = "loop" => [F!Next]_F!vars)
BY DEF Init, Next, vars, loopVars, F!vars

\* Every track is an unbroken series of boxes from its first sighting to its last, and a
\* box is made up only near a sighting on either side, for a video of any length.
THEOREM TracksAreWhole == LoopBounds /\ Spec => []TracksWhole
<1>. SUFFICES ASSUME LoopBounds PROVE Spec => []TracksWhole
  OBVIOUS
<1>1. LoopInv /\ [F!Next]_F!vars => LoopInv'
  <2>. SUFFICES ASSUME LoopInv, [F!Next]_F!vars PROVE LoopInv'
    OBVIOUS
  <2>1. CASE F!Open \/ F!ReadNext \/ UNCHANGED F!vars
    <3>1. /\ UNCHANGED <<frame, start, end, box>>
          /\ \/ UNCHANGED loopPc
             \/ loopPc # "filled" /\ loopPc' \in {"loop", "fill", "raised"}
      BY <2>1 DEF F!Open, F!ReadNext, F!vars, F!tracks, F!file
    <3> QED
      BY <3>1 DEF LoopInv, F!TracksHaveNoHoles, F!FilledBetweenSightings, F!RealFrames
  <2> QED
    BY <2>1, FrameKeepsTracks, FillKeepsTracks DEF F!Next
<1>2. (part = "loop" => LoopInv) => TracksWhole
  BY DEF LoopInv, TracksWhole, F!TracksWhole
<1>3. Init => (part = "loop" => LoopInv)
  BY LoopPart, LoopInit
<1>4. (part = "loop" => LoopInv) /\ [Next]_vars => (part = "loop" => LoopInv)'
  BY <1>1, LoopPart
<1> QED
  BY <1>2, <1>3, <1>4, PTL DEF Spec

-----------------------------------------------------------------------------
(* OfflineBatch *)

\* What sessions owe each other, with todo among the sessions.
BatchInv ==
    /\ B!RunsApart /\ todo \subseteq Sessions /\ whole \subseteq Sessions
    /\ session \in Sessions /\ DOMAIN drive = Sessions

\* MCJourney takes the steps of OfflineBatch in its part, and no others.
LEMMA BatchPart ==
    /\ Init /\ part = "batch" => B!Init
    /\ [Next]_vars => part' = part /\ (part = "batch" => [B!Next]_B!vars)
BY DEF Init, Next, vars, batchVars, B!vars

\* A session's pipeline starts with an empty collector and a closed breaker, whatever the
\* sessions before it left; a session is left out only after a run that went through.
THEOREM SessionsStayApart == Spec => []RunsApart
<1>1. B!Init => BatchInv
  BY DEF B!Init, BatchInv, B!RunsApart, B!FreshPipeline, B!SkippedOnlyWhole,
         B!AlreadyProcessed, B!Nothing
<1>2. BatchInv /\ [B!Next]_B!vars => BatchInv'
  <2>. SUFFICES ASSUME BatchInv, [B!Next]_B!vars PROVE BatchInv'
    OBVIOUS
  <2>. USE DEF BatchInv, B!RunsApart, B!FreshPipeline, B!SkippedOnlyWhole,
               B!AlreadyProcessed, B!process, B!output
  <2>1. CASE B!StartBatch \/ B!Unpack \/ B!WriteViolations \/ B!EndBatch \/ B!Kill
             \/ UNCHANGED B!vars
    BY <2>1 DEF B!StartBatch, B!Unpack, B!WriteViolations, B!EndBatch, B!Kill, B!vars
  <2>2. ASSUME B!Attach PROVE BatchInv'
    <3>1. crops' = {} /\ breaker' = FALSE /\ UNCHANGED <<drive, whole>>
      BY <2>2 DEF B!Attach, B!FreshCollector
    <3>2. session' \in Sessions /\ todo' \subseteq Sessions
      BY <2>2 DEF B!Attach
    <3> QED
      BY <3>1, <3>2
  <2>3. CASE B!Pipeline
    BY <2>3 DEF B!Pipeline
  <2>4. CASE B!SessionFails
    BY <2>4 DEF B!SessionFails
  <2>5. CASE B!WriteDrive
    BY <2>5 DEF B!WriteDrive
  <2> QED
    BY <2>1, <2>2, <2>3, <2>4, <2>5 DEF B!Next
<1>3. (part = "batch" => BatchInv) => RunsApart
  BY DEF BatchInv, RunsApart
<1>4. Init => (part = "batch" => BatchInv)
  BY <1>1, BatchPart
<1>5. (part = "batch" => BatchInv) /\ [Next]_vars => (part = "batch" => BatchInv)'
  BY <1>2, BatchPart
<1> QED
  BY <1>3, <1>4, <1>5, PTL DEF Spec

-----------------------------------------------------------------------------
(* Recording *)

\* Until the files are written, of a drive whose driver has not left the app: the camera
\* and the recorder run in step with the window in which frames are logged, ...
Logging == main \in {"asking", "running", "stopping", "writing"}

WindowInv ==
    /\ "capturing" \in flags => main = "running" /\ recorder = "on" /\ ~started
    /\ "capturing" \in flags => "screen" \in flags
    /\ camera \in {"off", "opening"} => recorder = "none" /\ ~started
    /\ recorder = "starting" => ~started
    /\ main = "running" => \/ camera = "opening"
                           \/ camera = "bound" /\ recorder = "starting"
                           \/ camera = "bound" /\ recorder = "on" /\ started
                           \/ camera = "bound" /\ "capturing" \in flags
    /\ main \in {"stopping", "writing"} => camera \in {"opening", "bound"}
    /\ main = "asking" => camera = "off"
    /\ camera = "bound" \/ (rows = <<>> /\ held = None /\ image = None)
    /\ main = "running" /\ "capturing" \notin flags => rows = <<>> /\ held = None

\* ... a frame on its way is later than the rows and exposed while the phone was awake ...
FrameOK(f) ==
    /\ f.number \in 1..taken /\ f.awake = f.number /\ f.boot = f.number + clock.slept
    /\ \A i \in DOMAIN rows : rows[i].of < f.number

FramesInv ==
    /\ image # None => FrameOK(image)
    /\ held # None => FrameOK(held)
    /\ image # None /\ held # None => held.number < image.number
    /\ held # None => rows = <<>> \/ held.number \in video
    /\ image # None /\ "capturing" \in flags /\ ~(rows = <<>> /\ held = None)
         => image.number \in video

\* ... and the rows are as they shall be in the file.
RowsInv ==
    /\ rows \in Seq([frame : Nat, of : Nat, off : Int])
    /\ \A i \in DOMAIN rows :
         /\ i = 1 \/ rows[i].of \in video
         /\ \A j \in 1..i-1 : rows[j].of < rows[i].of
         /\ rows[i].of <= taken
         /\ rows[i].off = IF clock.source = "realtime" THEN 0 ELSE -clock.slept

RecordingInv ==
    /\ taken \in Nat
    /\ clock \in [source : {"realtime", "monotonic"}, offset : {0}, slept : Nat]
    /\ main \in {"asking", "running", "stopping", "writing", "post", "finishing", "destroyed"}
    /\ ~left /\ Logging => WindowInv /\ FramesInv /\ RowsInv
    /\ G!RecordingWhole

\* The first state.
LEMMA RecordingInit == G!Init => RecordingInv
<1>. SUFFICES ASSUME G!Init PROVE RecordingInv
  OBVIOUS
<1>. USE DEF G!Init
<1>1. WindowInv
  BY DEF WindowInv
<1>2. FramesInv /\ RowsInv
  BY DEF FramesInv, RowsInv
<1>3. G!RecordingWhole
  BY DEF G!RecordingWhole
<1> QED
  BY <1>1, <1>2, <1>3 DEF RecordingInv

\* Who is not logging any more does not begin again, and nobody comes back.
LEMMA LoggedBefore ==
  ASSUME RecordingInv, [G!Next]_G!vars, ~left', Logging'
  PROVE  ~left /\ Logging /\ WindowInv /\ FramesInv /\ RowsInv
<1>1. ~left /\ Logging
  BY DEF RecordingInv, Logging, G!Next, G!PermissionsAnswered, G!CameraOpened, G!StartEvent,
         G!StopClicked, G!StopRecorder, G!WriteFiles, G!BackPressed, G!Destroy,
         G!RecorderStarts, G!Finalized, G!Frame, G!Analyze, G!AddFrame, G!Leave, G!TimesOut,
         G!Hidden, G!Return, G!Sleep, G!activity, G!vars
<1> QED
  BY <1>1 DEF RecordingInv

\* The rows are numbered from 1 and of a frame each.
LEMMA RowTypes ==
  ASSUME RowsInv
  PROVE  \A i \in DOMAIN rows : i \in Nat /\ rows[i].of \in Nat
<1>1. rows \in Seq([frame : Nat, of : Nat, off : Int])
  BY DEF RowsInv
<1>2. ASSUME NEW R0, NEW list \in Seq(R0), NEW i \in DOMAIN list
      PROVE  i \in Nat /\ list[i] \in R0
  OBVIOUS
<1>3. \A i \in DOMAIN rows : i \in Nat /\ rows[i] \in [frame : Nat, of : Nat, off : Int]
  BY <1>1, <1>2
<1> QED
  BY <1>3

\* A frame that is logged is the next row.
LEMMA RowAppended ==
  ASSUME RecordingInv, WindowInv, FramesInv, RowsInv, G!AddFrame
  PROVE  /\ RowsInv'
         /\ Len(rows') > 0 /\ rows' # <<>>
         /\ \A i \in DOMAIN rows' : rows'[i].of \in Nat /\ rows'[i].of <= held.number
<1>. DEFINE row == [frame |-> Len(rows), of |-> held.number, off |-> G!Stamp(held) - held.boot]
<1>1. held # None /\ rows' = Append(rows, row) /\ UNCHANGED <<clock, taken, video>>
  BY DEF G!AddFrame
<1>2. FrameOK(held) /\ held.number \in 1..taken /\ taken \in Nat /\ clock.slept \in Nat
  BY <1>1 DEF FramesInv, FrameOK, RecordingInv
<1>3. row.off = IF clock.source = "realtime" THEN 0 ELSE -clock.slept
  BY <1>2 DEF G!Stamp, FrameOK, RecordingInv
<1>4. row \in [frame : Nat, of : Nat, off : Int] /\ row.of = held.number
  <2>1. Len(rows) \in Nat
    BY DEF RowsInv
  <2>2. G!Stamp(held) - held.boot \in Int
    BY <1>2, <1>3
  <2> QED
    BY <1>2, <2>1, <2>2
<1>. HIDE DEF row
<1>5. /\ rows' \in Seq([frame : Nat, of : Nat, off : Int])
      /\ Len(rows') = Len(rows) + 1 /\ rows'[Len(rows) + 1] = row
      /\ \A i \in 1..Len(rows) : rows'[i] = rows[i]
      /\ DOMAIN rows = 1..Len(rows) /\ DOMAIN rows' = 1..Len(rows) + 1 /\ Len(rows) \in Nat
  BY <1>1, <1>4 DEF RowsInv
<1>6. ASSUME NEW i \in DOMAIN rows'
      PROVE  /\ i = 1 \/ rows'[i].of \in video'
             /\ \A j \in 1..i-1 : rows'[j].of < rows'[i].of
             /\ rows'[i].of <= taken' /\ rows'[i].of <= held.number /\ rows'[i].of \in Nat
             /\ rows'[i].off = IF clock'.source = "realtime" THEN 0 ELSE -clock'.slept
  <2>1. CASE i \in 1..Len(rows)
    <3>. \A j \in 1..i-1 : j \in 1..Len(rows)
      BY <1>5, <2>1
    <3>1. rows'[i] = rows[i] /\ i \in DOMAIN rows /\ \A j \in 1..i-1 : rows'[j] = rows[j]
      BY <1>5, <2>1, Zenon
    <3>2. rows[i].of < held.number /\ rows[i].of \in Nat
      BY <1>2, <3>1, RowTypes DEF FrameOK
    <3>3. /\ i = 1 \/ rows[i].of \in video
          /\ \A j \in 1..i-1 : rows[j].of < rows[i].of
          /\ rows[i].of <= taken
          /\ rows[i].off = IF clock.source = "realtime" THEN 0 ELSE -clock.slept
      BY <3>1 DEF RowsInv
    <3> QED
      BY <1>1, <1>2, <3>1, <3>2, <3>3
  <2>2. CASE i = Len(rows) + 1
    <3>. \A j \in 1..i-1 : j \in 1..Len(rows)
      BY <1>5, <2>2
    <3>1. rows'[i] = row /\ \A j \in 1..i-1 : rows'[j] = rows[j] /\ j \in DOMAIN rows
      BY <1>5, <2>2, Zenon
    <3>2. i = 1 \/ held.number \in video
      BY <1>1, <1>5, <2>2 DEF FramesInv
    <3>3. \A j \in 1..i-1 : rows'[j].of < held.number
      BY <1>2, <3>1 DEF FrameOK
    <3> QED
      BY <1>1, <1>2, <1>3, <1>4, <3>1, <3>2, <3>3
  <2> QED
    BY <1>5, <2>1, <2>2
<1> QED
  BY <1>5, <1>6 DEF RowsInv

\* A step keeps the window of the log in step with camera and recorder, and the frames
\* and rows in order.
LEMMA RecordingStep ==
  ASSUME RecordingInv, ~left, Logging, WindowInv, FramesInv, RowsInv, G!Next, ~left', Logging'
  PROVE  WindowInv' /\ FramesInv' /\ RowsInv'
<1>. taken \in Nat /\ clock \in [source : {"realtime", "monotonic"}, offset : {0}, slept : Nat]
  BY DEF RecordingInv
<1>. USE DEF Logging, G!activity, G!frames, WindowInv, FramesInv, FrameOK, G!Stopped, G!Closed,
     G!Opened
<1>1. ASSUME G!PermissionsAnswered PROVE WindowInv' /\ FramesInv' /\ RowsInv'
  BY <1>1 DEF G!PermissionsAnswered, RowsInv, G!Idle, G!Alive
<1>2. ASSUME G!CameraOpened PROVE WindowInv' /\ FramesInv' /\ RowsInv'
  BY <1>2 DEF G!CameraOpened, RowsInv, G!Idle, G!Alive
<1>3. ASSUME G!StartEvent PROVE WindowInv' /\ FramesInv' /\ RowsInv'
  BY <1>3 DEF G!StartEvent, RowsInv, G!Idle, G!Alive
<1>4. ASSUME G!StopClicked PROVE WindowInv' /\ FramesInv' /\ RowsInv'
  BY <1>4 DEF G!StopClicked, RowsInv, G!Idle, G!Alive
<1>5. ASSUME G!StopRecorder PROVE WindowInv' /\ FramesInv' /\ RowsInv'
  BY <1>5 DEF G!StopRecorder, RowsInv, G!Idle, G!Alive
<1>6. ASSUME G!RecorderStarts PROVE WindowInv' /\ FramesInv' /\ RowsInv'
  BY <1>6 DEF G!RecorderStarts, RowsInv, G!Idle, G!Alive
<1>7. ASSUME G!Finalized PROVE WindowInv' /\ FramesInv' /\ RowsInv'
  BY <1>7 DEF G!Finalized, RowsInv, G!Idle, G!Alive
<1>8. ASSUME G!Analyze PROVE WindowInv' /\ FramesInv' /\ RowsInv'
  BY <1>8 DEF G!Analyze, RowsInv, G!Idle, G!Alive
<1>9. ASSUME G!Sleep PROVE WindowInv' /\ FramesInv' /\ RowsInv'
  BY <1>9 DEF G!Sleep, RowsInv, G!Idle, G!Alive
<1>10. ASSUME G!WriteFiles \/ G!BackPressed \/ G!Destroy \/ G!Leave \/ G!TimesOut \/ G!Return
       PROVE  FALSE
  BY <1>10 DEF G!WriteFiles, G!BackPressed, G!Destroy, G!Leave, G!TimesOut, G!Hidden, G!Return
<1>11. ASSUME G!Frame PROVE WindowInv' /\ FramesInv' /\ RowsInv'
  <2>. DEFINE f == [number |-> taken + 1, awake |-> taken + 1, boot |-> taken + 1 + clock.slept]
  <2>1. /\ camera = "bound" /\ taken' = taken + 1 /\ image' = f
        /\ video' = IF recorder = "on" THEN video \cup {taken + 1} ELSE video
        /\ UNCHANGED <<main, started, flags, camera, recorder, clock, held, rows>>
    BY <1>11 DEF G!Frame
  <2>2. f.number = taken + 1 /\ f.awake = taken + 1 /\ f.boot = taken + 1 + clock.slept
    OBVIOUS
  <2>. HIDE DEF f
  <2>3. RowsInv'
    <3>1. /\ rows' \in Seq([frame : Nat, of : Nat, off : Int])
          /\ UNCHANGED <<rows, clock>> /\ taken' = taken + 1 /\ video \subseteq video'
      BY <2>1 DEF RowsInv
    <3>2. \A i \in DOMAIN rows : rows[i].of <= taken /\ rows[i].of \in Nat
      BY RowTypes DEF RowsInv
    <3>3. \A i \in DOMAIN rows : rows[i].of <= taken + 1
      BY <3>2
    <3> QED
      BY <3>1, <3>3 DEF RowsInv
  <2>4. WindowInv'
    BY <2>1
  <2>5. \A i \in DOMAIN rows : rows[i].of < taken + 1
    <3>1. \A i \in DOMAIN rows : rows[i].of <= taken /\ rows[i].of \in Nat
      BY RowTypes DEF RowsInv
    <3> QED
      BY <3>1
  <2>6. FramesInv'
    BY <2>1, <2>2, <2>5
  <2> QED
    BY <2>3, <2>4, <2>6
<1>12. ASSUME G!AddFrame PROVE WindowInv' /\ FramesInv' /\ RowsInv'
  <2>1. /\ held # None /\ held' = None
        /\ UNCHANGED <<main, started, flags, camera, recorder, clock, taken, image, video>>
    BY <1>12 DEF G!AddFrame
  <2>2. /\ RowsInv' /\ rows' # <<>>
        /\ \A i \in DOMAIN rows' : rows'[i].of \in Nat /\ rows'[i].of <= held.number
    BY <1>12, RowAppended
  <2>3. WindowInv'
    BY <2>1, <2>2
  <2>4. image # None => \A i \in DOMAIN rows' : rows'[i].of < image.number
    <3>1. image # None => held.number < image.number /\ held.number \in Int /\ image.number \in Int
      BY <2>1
    <3> QED
      BY <2>2, <3>1
  <2>5. FramesInv'
    BY <2>1, <2>2, <2>4
  <2> QED
    BY <2>2, <2>3, <2>5
<1> QED
  BY <1>1, <1>2, <1>3, <1>4, <1>5, <1>6, <1>7, <1>8, <1>9, <1>10, <1>11, <1>12 DEF G!Next

\* MCJourney takes the steps of Recording in its part, and no others.
LEMMA RecordingPart ==
    /\ Init /\ part = "recording" => G!Init
    /\ [Next]_vars => part' = part /\ (part = "recording" => [G!Next]_G!vars)
BY DEF Init, Next, vars, recordingVars, G!vars

\* What the phone hands over is the recording: the rows of frames.csv are frames of the
\* video in its order, but for the first, and their clock is off by as much in every row.
THEOREM RecordingsAreWhole == Spec => []RecordingWhole
<1>1. RecordingInv /\ [G!Next]_G!vars => RecordingInv'
  <2>. SUFFICES ASSUME RecordingInv, [G!Next]_G!vars PROVE RecordingInv'
    OBVIOUS
  <2>1. ~left' /\ Logging' => WindowInv' /\ FramesInv' /\ RowsInv'
    <3>. SUFFICES ASSUME ~left', Logging' PROVE WindowInv' /\ FramesInv' /\ RowsInv'
      OBVIOUS
    <3>1. ~left /\ Logging /\ WindowInv /\ FramesInv /\ RowsInv
      BY LoggedBefore
    <3>2. CASE UNCHANGED G!vars
      BY <3>1, <3>2 DEF G!vars, WindowInv, FramesInv, FrameOK, RowsInv
    <3> QED
      BY <3>1, <3>2, RecordingStep
  <2>2. /\ taken' \in Nat
        /\ clock' \in [source : {"realtime", "monotonic"}, offset : {0}, slept : Nat]
        /\ main' \in {"asking", "running", "stopping", "writing", "post", "finishing", "destroyed"}
        /\ video \subseteq video' /\ (left => left')
        /\ \/ UNCHANGED files
           \/ G!WriteFiles
    BY DEF RecordingInv, G!Next, G!PermissionsAnswered, G!CameraOpened, G!StartEvent,
         G!StopClicked, G!StopRecorder, G!BackPressed, G!Destroy,
         G!RecorderStarts, G!Finalized, G!Frame, G!Analyze, G!AddFrame, G!Leave, G!TimesOut,
         G!Hidden, G!Return, G!Sleep, G!activity, G!frames, G!vars, G!WriteFiles
  <2>3. G!RecordingWhole'
    <3>. SUFFICES ASSUME files' # None, ~left' PROVE G!RowsAreVideoFrames' /\ G!ClockSteady'
      BY DEF G!RecordingWhole
    <3>1. CASE UNCHANGED files
      BY <2>2, <3>1 DEF RecordingInv, G!RecordingWhole, G!RowsAreVideoFrames, G!ClockSteady
    <3>2. CASE G!WriteFiles
      <4>1. ~left /\ Logging /\ files' = rows /\ UNCHANGED <<rows, video, clock>>
        BY <3>2 DEF G!WriteFiles, Logging, G!frames
      <4>2. RowsInv
        BY <4>1 DEF RecordingInv
      <4> QED
        BY <4>1, <4>2 DEF RowsInv, G!RowsAreVideoFrames, G!ClockSteady
    <3> QED
      BY <2>2, <3>1, <3>2
  <2> QED
    BY <2>1, <2>2, <2>3 DEF RecordingInv
<1>2. (part = "recording" => RecordingInv) => RecordingWhole
  BY DEF RecordingInv, RecordingWhole
<1>3. Init => (part = "recording" => RecordingInv)
  BY RecordingPart, RecordingInit
<1>4. (part = "recording" => RecordingInv) /\ [Next]_vars => (part = "recording" => RecordingInv)'
  BY <1>1, RecordingPart
<1> QED
  BY <1>2, <1>3, <1>4, PTL DEF Spec

-----------------------------------------------------------------------------
(***************************************************************************)
(* The screens of the phone: DriveScreens tells the driver the truth about    *)
(* the uploads (UploadsTold), for any drives, any number of upload screens on *)
(* top of each other, of messages that wait for the main thread and of kills  *)
(* of the process.  ScreensInv adds to the one upload there is (OneInv) what  *)
(* the messages that wait will say (PostsInv): one that says that an upload   *)
(* goes on which has ended is followed by its end; and what the screens show  *)
(* until then.                                                                *)
(***************************************************************************)

Going == {"uploading", "finalizing"}
Ended == {"succeeded", "failed", "expired"}
Threads == [of : Sessions, at : {"sending", "finalizing"}, cancelled : BOOLEAN]
States == [kind : {"state"}, of : Sessions, is : Going \cup Ended]
Messages == States \cup [kind : {"start"}, of : Sessions, is : {None}]
                   \cup [kind : {"finish"}, of : Sessions, is : Ended]
                   \cup [kind : {"observe"}, of : {None}, is : Nat]
Views == [of : Sessions, watching : BOOLEAN, shows : {"question", "progress", "done"},
          hid : BOOLEAN, asking : BOOLEAN]

\* The values of what is not a session, a thread or a state.
ScreensOK == None \notin Sessions /\ None \notin Threads /\ None \notin States

ScreensTypes ==
    /\ onDisk \subseteq Sessions
    /\ active \in Sessions \cup {None} /\ current \in States \cup {None}
    /\ thread \in Threads \cup {None} /\ prompt \in Sessions \cup {None}
    /\ posts \in Seq(Messages) /\ screens \in Seq(Views)

\* The one upload there is is about to start, runs, or is about to be said to have ended.
OneInv ==
    /\ thread # None => active = thread.of
    /\ \A i \in DOMAIN posts : posts[i].kind \in {"start", "finish"} =>
         /\ active = posts[i].of /\ thread = None
         /\ \A j \in DOMAIN posts : posts[j].kind \in {"start", "finish"} => j = i
    /\ active # None => \/ thread # None
                        \/ \E i \in DOMAIN posts : posts[i].kind \in {"start", "finish"}
    /\ active # None => active \in onDisk

\* Whatever still says that an upload goes on that does not is followed by its end.
EndFollows(i) == \E j \in DOMAIN posts :
    j > i /\ posts[j].kind = "state" /\ posts[j].of = posts[i].of /\ posts[j].is \in Ended
EndPosted(s) == \E j \in DOMAIN posts :
    posts[j].kind = "state" /\ posts[j].of = s /\ posts[j].is \in Ended

PostsInv ==
    /\ current # None /\ current.is \in Going => active = current.of
    /\ \A i \in DOMAIN posts :
         posts[i].kind = "state" /\ posts[i].is \in Going /\ posts[i].of # active => EndFollows(i)

\* A screen that shows progress is told the end; the ones below it have been hidden.
ViewsInv ==
    /\ \A k \in DOMAIN screens :
         /\ screens[k].shows = "progress" /\ ~screens[k].hid => screens[k].watching
         /\ k < Len(screens) => (screens[k].hid \/ screens[k].shows # "progress")
                                /\ ~screens[k].asking
    /\ D!Visible /\ D!Top.shows = "progress" /\ ~D!Top.hid /\ active # D!Top.of
         => EndPosted(D!Top.of)
    /\ D!Visible /\ D!Top.asking => ~notifies /\ active \in {None, D!Top.of} /\ D!Top.of \in onDisk

ScreensInv == ScreensTypes /\ OneInv /\ PostsInv /\ ViewsInv

\* The last element of a list taken away, ...
LEMMA LastRemoved ==
  ASSUME NEW S, NEW list \in Seq(S), list # <<>>
  PROVE  /\ D!Front(list) \in Seq(S) /\ Len(D!Front(list)) = Len(list) - 1
         /\ Len(list) \in Nat \ {0}
         /\ \A k \in 1..Len(list)-1 : D!Front(list)[k] = list[k]
<1>1. Len(list) \in Nat \ {0} /\ \A i \in 1..Len(list)-1 : list[i] \in S
  OBVIOUS
<1>2. Len(list) - 1 \in Int /\ 1 \in Int
  BY <1>1
<1>3. /\ SubSeq(list, 1, Len(list) - 1) \in Seq(S)
      /\ Len(SubSeq(list, 1, Len(list) - 1))
           = IF 1 <= Len(list) - 1 THEN (Len(list) - 1) - 1 + 1 ELSE 0
      /\ \A i \in 1..(Len(list) - 1) - 1 + 1 : SubSeq(list, 1, Len(list) - 1)[i] = list[1+i-1]
  BY <1>1, <1>2, SubSeqProperties
<1>4. (Len(list) - 1) - 1 + 1 = Len(list) - 1 /\ (~(1 <= Len(list) - 1) => Len(list) - 1 = 0)
  <2>. PICK n \in Nat \ {0} : n = Len(list)
    BY <1>1
  <2>1. (n - 1) - 1 + 1 = n - 1 /\ (~(1 <= n - 1) => n - 1 = 0)
    OBVIOUS
  <2> QED
    BY <2>1
<1>5. \A i \in 1..Len(list)-1 : SubSeq(list, 1, Len(list) - 1)[i] = list[i]
  <2>. TAKE i \in 1..Len(list)-1
  <2>1. SubSeq(list, 1, Len(list) - 1)[i] = list[1+i-1]
    BY <1>3, <1>4
  <2>2. 1+i-1 = i
    BY <1>1
  <2> QED
    BY <2>1, <2>2
<1>6. Len(SubSeq(list, 1, Len(list) - 1)) = Len(list) - 1
  BY <1>1, <1>3, <1>4
<1>7. D!Front(list) = SubSeq(list, 1, Len(list) - 1)
  BY DEF D!Front
<1> HIDE DEF D!Front
<1> QED
  BY <1>1, <1>3, <1>5, <1>6, <1>7

\* ... or replaced.
LEMMA LastReplaced ==
  ASSUME NEW S, NEW list \in Seq(S), list # <<>>, NEW x \in S
  PROVE  /\ Append(D!Front(list), x) \in Seq(S) /\ Append(D!Front(list), x) # <<>>
         /\ Len(Append(D!Front(list), x)) = Len(list) /\ Len(list) \in Nat \ {0}
         /\ Append(D!Front(list), x)[Len(list)] = x
         /\ \A k \in 1..Len(list)-1 : Append(D!Front(list), x)[k] = list[k]
<1>1. /\ D!Front(list) \in Seq(S) /\ Len(D!Front(list)) = Len(list) - 1 /\ Len(list) \in Nat \ {0}
      /\ \A k \in 1..Len(list)-1 : D!Front(list)[k] = list[k]
  BY LastRemoved
<1> QED
  BY <1>1

\* One element more at the end of a list, or one less at its head.
LEMMA ListSteps ==
  ASSUME NEW S, NEW list \in Seq(S)
  PROVE  /\ Len(list) \in Nat /\ DOMAIN list = 1..Len(list)
         /\ \A k \in 1..Len(list) : list[k] \in S
         /\ \A x \in S : /\ Append(list, x) \in Seq(S) /\ Len(Append(list, x)) = Len(list) + 1
                         /\ Append(list, x)[Len(list) + 1] = x
                         /\ \A k \in 1..Len(list) : Append(list, x)[k] = list[k]
         /\ list # <<>> => /\ Tail(list) \in Seq(S) /\ Len(Tail(list)) = Len(list) - 1
                           /\ Head(list) = list[1] /\ Len(list) > 0
                           /\ \A k \in 1..Len(list)-1 : Tail(list)[k] = list[k + 1]
  OBVIOUS

\* Two elements more.
LEMMA TwoMore ==
  ASSUME NEW S, NEW list \in Seq(S), NEW x \in S, NEW y \in S
  PROVE  list \o <<x, y>> = Append(Append(list, x), y)
  OBVIOUS

\* The visible screen is one of the screens.
LEMMA TopView ==
  ASSUME ScreensTypes, D!Visible
  PROVE  /\ D!Top \in Views /\ D!Top = screens[Len(screens)] /\ Len(screens) \in Nat \ {0}
         /\ Len(screens) \in DOMAIN screens /\ screens \in Seq(Views) /\ screens # <<>>
  BY DEF ScreensTypes, D!Visible, D!Top, D!Last

\* What StartService does, from a screen whose drive may be uploaded.
LEMMA Starts ==
  ASSUME ScreensTypes, D!Visible, active \in {None, D!Top.of}, D!StartService
  PROVE  /\ screens' = Append(D!Front(screens), [D!Top EXCEPT !.watching = TRUE,
               !.shows = "progress", !.hid = FALSE, !.asking = FALSE])
         /\ D!State(D!Top.of, "uploading") \in States /\ D!State(D!Top.of, "failed") \in States
         /\ D!Msg("start", D!Top.of, None) \in Messages /\ D!Top.of \in Sessions
         /\ \/ UNCHANGED <<active, current, posts>> /\ active = D!Top.of
            \/ /\ active = None /\ active' = D!Top.of
               /\ current' = D!State(D!Top.of, "uploading")
               /\ posts' = Append(Append(posts, D!State(D!Top.of, "uploading")),
                                  D!Msg("start", D!Top.of, None))
            \/ /\ active = None /\ active' = None
               /\ current' = D!State(D!Top.of, "failed")
               /\ posts' = Append(Append(posts, D!State(D!Top.of, "uploading")),
                                  D!State(D!Top.of, "failed"))
<1>1. /\ D!State(D!Top.of, "uploading") \in States /\ D!State(D!Top.of, "failed") \in States
      /\ D!Msg("start", D!Top.of, None) \in Messages /\ D!Top.of \in Sessions
  BY TopView DEF Views, States, Going, Ended, Messages, D!State, D!Msg
<1>2. posts \in Seq(Messages) /\ States \subseteq Messages
  BY DEF ScreensTypes, Messages
<1> QED
  BY <1>1, <1>2, TwoMore DEF D!StartService, D!SetTop

-----------------------------------------------------------------------------
\* A state reaches the visible screen, or sends the driver to the login screen.
LEMMA Delivers ==
  ASSUME ScreensTypes, NEW st \in States, D!Deliver(st)
  PROVE  \/ ~D!Visible /\ UNCHANGED screens
         \/ D!Visible /\ screens' = <<>>
         \/ /\ D!Visible /\ D!Rendered(D!Top, st) \in Views
            /\ screens' = Append(D!Front(screens), D!Rendered(D!Top, st))
<1>1. D!Visible => D!Rendered(D!Top, st) \in Views
  BY TopView DEF D!Rendered, Views
<1> QED
  BY <1>1 DEF D!Deliver, D!SetTop

\* What the message at the head is.
LEMMA HeadMessage ==
  ASSUME ScreensTypes, posts # <<>>
  PROVE  /\ Head(posts) \in Messages /\ Head(posts) = posts[1] /\ 1 \in DOMAIN posts
         /\ Head(posts).kind = "state" => Head(posts) \in States
         /\ Head(posts).kind \in {"start", "finish"} => Head(posts).of \in Sessions
         /\ Head(posts).kind = "finish" => D!State(Head(posts).of, Head(posts).is) \in States
<1>1. Head(posts) \in Messages /\ Head(posts) = posts[1] /\ 1 \in DOMAIN posts
  BY DEF ScreensTypes
<1> QED
  BY <1>1 DEF Messages, States, D!State

\* A screen built anew.
LEMMA NewView == ASSUME NEW s \in Sessions PROVE D!Screen(s) \in Views
  BY DEF D!Screen, Views

\* Another screen opens.
LEMMA Opens ==
  ASSUME ScreensTypes, NEW s \in Sessions, D!Open(s)
  PROVE  /\ screens' \in Seq(Views) /\ screens' # <<>> /\ screens'[Len(screens')] = D!Screen(s)
         /\ Len(screens') \in Nat
         /\ \A k \in 1..Len(screens')-1 : D!Visible /\ k \in DOMAIN screens
              /\ \/ k < Len(screens) /\ screens'[k] = screens[k]
                 \/ k = Len(screens) /\ screens'[k] = [screens[k] EXCEPT !.hid = TRUE]
         /\ posts' = Append(posts, D!Msg("observe", None, Len(screens')))
         /\ D!Msg("observe", None, Len(screens')) \in Messages
<1>. screens \in Seq(Views) /\ D!Screen(s) \in Views
  BY NewView DEF ScreensTypes
<1>1. posts' = Append(posts, D!Msg("observe", None, Len(screens')))
  BY DEF D!Open, D!Observed
<1>2. CASE ~D!Visible
  <2>1. screens' = <<D!Screen(s)>>
    BY <1>2 DEF D!Open
  <2> QED
    BY <1>1, <2>1 DEF D!Msg, Messages
<1>3. CASE D!Visible
  <2>0. PICK hidden : hidden = Append(D!Front(screens), [D!Top EXCEPT !.hid = TRUE])
    OBVIOUS
  <2>1. [D!Top EXCEPT !.hid = TRUE] \in Views /\ screens # <<>>
    BY <1>3, TopView DEF Views
  <2>2. /\ hidden \in Seq(Views) /\ Len(hidden) = Len(screens) /\ Len(screens) \in Nat \ {0}
        /\ hidden[Len(screens)] = [D!Top EXCEPT !.hid = TRUE]
        /\ \A k \in 1..Len(screens)-1 : hidden[k] = screens[k]
    <3>. [D!Top EXCEPT !.hid = TRUE] \in Views /\ screens # <<>>
      BY <2>1
    <3>1. PICK x \in Views : x = [D!Top EXCEPT !.hid = TRUE]
      OBVIOUS
    <3>2. /\ hidden = Append(D!Front(screens), x) /\ screens # <<>> /\ screens \in Seq(Views)
          /\ x \in Views
      BY <2>0, <3>1
    <3>3. /\ hidden \in Seq(Views) /\ hidden # <<>> /\ Len(hidden) = Len(screens)
          /\ Len(screens) \in Nat \ {0} /\ hidden[Len(screens)] = x
          /\ \A k \in 1..Len(screens)-1 : hidden[k] = screens[k]
      BY <3>2, LastReplaced
    <3> QED
      BY <3>1, <3>3
  <2>3. screens' = hidden \o <<D!Screen(s)>>
    BY <1>3, <2>0 DEF D!Open
  <2>4. D!Top = screens[Len(screens)] /\ D!Top \in Views
    BY <1>3, TopView
  <2>6. /\ screens' \in Seq(Views) /\ Len(screens') = Len(screens) + 1
        /\ screens'[Len(screens) + 1] = D!Screen(s)
        /\ \A k \in 1..Len(screens) : screens'[k] = hidden[k]
    <3>1. hidden \o <<D!Screen(s)>> = Append(hidden, D!Screen(s))
      BY <2>2
    <3> QED
      BY <2>2, <2>3, <3>1, ListSteps
  <2>7. /\ Len(screens') \in Nat /\ screens' # <<>> /\ Len(screens') - 1 = Len(screens)
        /\ screens'[Len(screens')] = D!Screen(s)
    BY <2>2, <2>6
  <2>8. ASSUME NEW k \in 1..Len(screens')-1
        PROVE  /\ k \in DOMAIN screens
               /\ \/ k < Len(screens) /\ screens'[k] = screens[k]
                  \/ k = Len(screens) /\ screens'[k] = [screens[k] EXCEPT !.hid = TRUE]
    <3>1. k \in 1..Len(screens) /\ screens'[k] = hidden[k] /\ DOMAIN screens = 1..Len(screens)
      BY <2>2, <2>6, <2>7, ListSteps
    <3>2. CASE k = Len(screens)
      BY <2>2, <2>4, <3>1, <3>2
    <3>3. CASE k # Len(screens)
      BY <3>1, <3>3, <2>2
    <3> QED
      BY <3>2, <3>3
  <2> QED
    BY <1>1, <1>3, <2>6, <2>7, <2>8 DEF D!Msg, Messages
<1> QED
  BY <1>2, <1>3

-----------------------------------------------------------------------------
\* The steps that touch neither the uploads nor the screens.
LEMMA Aside ==
  ASSUME ScreensInv, UNCHANGED <<active, current, posts, thread, screens, notifies>>,
         prompt' \in Sessions \cup {None}, onDisk' \subseteq Sessions,
         active # None => active \in onDisk', D!Visible => onDisk' = onDisk
  PROVE  ScreensInv'
<1>1. ScreensTypes' /\ OneInv'
  BY DEF ScreensInv, ScreensTypes, OneInv
<1>2. PostsInv'
  BY DEF ScreensInv, PostsInv, EndFollows
<1>3. ViewsInv'
  BY DEF ScreensInv, ViewsInv, EndPosted, D!Visible, D!Top, D!Last
<1> QED
  BY <1>1, <1>2, <1>3 DEF ScreensInv

\* The messages before a step are still there after it, at their places.
Extended == Len(posts') \in Nat /\ Len(posts') >= Len(posts) /\ posts' \in Seq(Messages)
            /\ \A i \in 1..Len(posts) : posts'[i] = posts[i]

\* Each message posted leaves the others where they are.
LEMMA Posting ==
  ASSUME ScreensTypes, NEW m \in Messages, posts' = Append(posts, m)
  PROVE  Extended /\ Len(posts') = Len(posts) + 1 /\ posts'[Len(posts) + 1] = m
         /\ Len(posts) \in Nat
  BY ListSteps DEF Extended, ScreensTypes

\* So do two.
LEMMA PostingTwo ==
  ASSUME ScreensTypes, NEW m \in Messages, NEW n \in Messages,
         posts' = Append(Append(posts, m), n)
  PROVE  Extended /\ Len(posts') = Len(posts) + 2 /\ posts'[Len(posts) + 1] = m
         /\ posts'[Len(posts) + 2] = n /\ Len(posts) \in Nat
<1>1. posts \in Seq(Messages)
  BY DEF ScreensTypes
<1>2. Append(posts, m) \in Seq(Messages)
  BY <1>1
<1>. PICK mid : mid = Append(posts, m)
  OBVIOUS
<1>3. /\ Len(mid) = Len(posts) + 1 /\ mid[Len(posts) + 1] = m /\ Len(posts) \in Nat
      /\ \A i \in 1..Len(posts) : mid[i] = posts[i]
      /\ mid \in Seq(Messages)
  BY <1>1, <1>2, ListSteps
<1>4. /\ posts' \in Seq(Messages) /\ Len(posts') = Len(mid) + 1 /\ posts'[Len(mid) + 1] = n
      /\ \A i \in 1..Len(mid) : posts'[i] = mid[i]
  BY <1>3, ListSteps
<1> QED
  BY <1>3, <1>4 DEF Extended

\* The end of an upload that was posted stays posted.
LEMMA EndsStay ==
  ASSUME ScreensTypes, Extended
  PROVE  /\ \A s : EndPosted(s) => EndPosted(s)'
         /\ \A i \in DOMAIN posts : EndFollows(i) => EndFollows(i)'
<1>1. DOMAIN posts = 1..Len(posts) /\ DOMAIN posts' = 1..Len(posts') /\ Len(posts) \in Nat
  BY DEF ScreensTypes, Extended
<1> QED
  BY <1>1 DEF Extended, EndPosted, EndFollows

\* Posting keeps PostsInv when what is posted is true, or followed by the end.
LEMMA PostsAdded ==
  ASSUME ScreensTypes, PostsInv, Extended,
         current' # None /\ current'.is \in Going => active' = current'.of,
         \A i \in 1..Len(posts) : posts[i].kind = "state" /\ posts[i].is \in Going
              /\ posts[i].of = active => active' = active,
         \A i \in 1..Len(posts') : i > Len(posts) /\ posts'[i].kind = "state"
              /\ posts'[i].is \in Going /\ posts'[i].of # active' => EndFollows(i)'
  PROVE  PostsInv'
<1>1. DOMAIN posts = 1..Len(posts) /\ DOMAIN posts' = 1..Len(posts') /\ Len(posts) \in Nat
  BY DEF ScreensTypes, Extended
<1>2. ASSUME NEW i \in DOMAIN posts', posts'[i].kind = "state", posts'[i].is \in Going,
             posts'[i].of # active'
      PROVE  EndFollows(i)'
  <2>1. CASE i > Len(posts)
    BY <1>1, <1>2, <2>1
  <2>2. CASE ~(i > Len(posts))
    <3>1. i \in 1..Len(posts) /\ posts'[i] = posts[i]
      BY <1>1, <2>2 DEF Extended
    <3>2. posts[i].of # active
      BY <1>2, <3>1
    <3>3. EndFollows(i)
      BY <1>1, <1>2, <3>1, <3>2 DEF PostsInv
    <3> QED
      BY <1>1, <3>1, <3>3, EndsStay
  <2> QED
    BY <2>1, <2>2
<1> QED
  BY <1>2 DEF PostsInv

\* So does taking the first message.
LEMMA PostsTaken ==
  ASSUME ScreensTypes, PostsInv, posts # <<>>, posts' = Tail(posts), UNCHANGED <<active, current>>
  PROVE  PostsInv'
<1>1. /\ DOMAIN posts = 1..Len(posts) /\ Len(posts') = Len(posts) - 1 /\ Len(posts) \in Nat
      /\ DOMAIN posts' = 1..Len(posts')
      /\ \A k \in 1..Len(posts)-1 : posts'[k] = posts[k + 1]
  BY ListSteps DEF ScreensTypes
<1>2. ASSUME NEW i \in DOMAIN posts', posts'[i].kind = "state", posts'[i].is \in Going,
             posts'[i].of # active
      PROVE  EndFollows(i)'
  <2>1. i + 1 \in DOMAIN posts /\ posts'[i] = posts[i + 1] /\ i \in Nat
    BY <1>1
  <2>2. PICK j \in DOMAIN posts : j > i + 1 /\ posts[j].kind = "state"
                /\ posts[j].of = posts[i + 1].of /\ posts[j].is \in Ended
    BY <1>2, <2>1 DEF PostsInv, EndFollows
  <2>3. j - 1 \in DOMAIN posts' /\ j - 1 > i /\ posts'[j - 1] = posts[j]
    BY <1>1, <2>1, <2>2
  <2> QED
    BY <2>1, <2>2, <2>3 DEF EndFollows
<1> QED
  BY <1>2 DEF PostsInv

-----------------------------------------------------------------------------
\* The screens stay, and what the visible one shows stays true.
LEMMA ViewsStay ==
  ASSUME ScreensTypes, ViewsInv, screens' = screens, notifies' = notifies, onDisk' = onDisk,
         active' \in {None, active},
         D!Visible /\ D!Top.shows = "progress" /\ ~D!Top.hid /\ active' # D!Top.of
           => \A s : s = D!Top.of => EndPosted(s)'
  PROVE  ViewsInv'
  BY DEF ViewsInv, D!Visible, D!Top, D!Last

\* The visible screen changes.
LEMMA ViewsTop ==
  ASSUME ScreensTypes, ViewsInv, D!Visible, NEW v \in Views,
         screens' = Append(D!Front(screens), v),
         v.shows = "progress" /\ ~v.hid => v.watching,
         v.shows = "progress" /\ ~v.hid /\ active' # v.of => EndPosted(v.of)',
         v.asking => ~notifies' /\ active' \in {None, v.of} /\ v.of \in onDisk'
  PROVE  ViewsInv' /\ screens' \in Seq(Views)
<1>1. screens \in Seq(Views) /\ screens # <<>>
  BY TopView
<1>2. /\ screens' \in Seq(Views) /\ screens' # <<>> /\ Len(screens') = Len(screens)
      /\ Len(screens) \in Nat \ {0} /\ screens'[Len(screens)] = v
      /\ \A k \in 1..Len(screens)-1 : screens'[k] = screens[k]
  BY <1>1, LastReplaced
<1>3. DOMAIN screens = 1..Len(screens) /\ DOMAIN screens' = 1..Len(screens) /\ D!Top' = v
  BY <1>1, <1>2 DEF D!Top, D!Last
<1>4. ASSUME NEW k \in DOMAIN screens'
      PROVE  /\ screens'[k].shows = "progress" /\ ~screens'[k].hid => screens'[k].watching
             /\ k < Len(screens') => /\ screens'[k].hid \/ screens'[k].shows # "progress"
                                     /\ ~screens'[k].asking
  <2>1. CASE k = Len(screens)
    BY <1>2, <2>1
  <2>2. CASE k # Len(screens)
    BY <1>2, <1>3, <2>2 DEF ViewsInv
  <2> QED
    BY <2>1, <2>2
<1> QED
  BY <1>2, <1>3, <1>4 DEF ViewsInv

\* A state is delivered to it.
LEMMA ViewsDelivered ==
  ASSUME ScreensTypes, ViewsInv, NEW st \in States, D!Deliver(st),
         UNCHANGED <<active, notifies, onDisk>>,
         D!Visible /\ D!Top.shows = "progress" /\ ~D!Top.hid /\ active # D!Top.of
           /\ ~D!Concerns(D!Top, st) => \A s : s = D!Top.of => EndPosted(s)',
         st.is \in Going /\ st.of # active => EndPosted(st.of)'
  PROVE  ViewsInv' /\ screens' \in Seq(Views)
<1>1. CASE ~D!Visible /\ UNCHANGED screens
  BY <1>1 DEF ViewsInv, D!Visible, ScreensTypes
<1>2. CASE D!Visible /\ screens' = <<>>
  BY <1>2 DEF ViewsInv, D!Visible
<1>3. CASE /\ D!Visible /\ D!Rendered(D!Top, st) \in Views
           /\ screens' = Append(D!Front(screens), D!Rendered(D!Top, st))
  <2>1. /\ D!Top \in Views /\ D!Top = screens[Len(screens)] /\ Len(screens) \in DOMAIN screens
    BY <1>3, TopView
  <2>2. /\ D!Top.shows = "progress" /\ ~D!Top.hid => D!Top.watching
        /\ D!Top.asking => ~notifies /\ active \in {None, D!Top.of} /\ D!Top.of \in onDisk
    BY <1>3, <2>1 DEF ViewsInv
  <2>3. PICK v \in Views : v = D!Rendered(D!Top, st)
    BY <1>3
  <2>4. CASE ~D!Concerns(D!Top, st)
    <3>1. v = D!Top
      BY <2>3, <2>4 DEF D!Rendered
    <3> QED
      BY <1>3, <2>1, <2>2, <2>3, <2>4, <3>1, ViewsTop
  <2>5. CASE D!Concerns(D!Top, st) /\ st.is \in Going
    <3>1. /\ v.watching /\ v.of = D!Top.of /\ v.asking = D!Top.asking /\ st.of = v.of
      BY <2>1, <2>3, <2>5 DEF D!Rendered, D!Concerns, Going, Views
    <3> QED
      BY <1>3, <2>2, <2>3, <2>5, <3>1, ViewsTop
  <2>6. CASE D!Concerns(D!Top, st) /\ st.is \notin Going
    <3>1. /\ v.shows # "progress" /\ v.of = D!Top.of /\ v.asking = D!Top.asking
      BY <2>1, <2>3, <2>6 DEF D!Rendered, Going, Views
    <3> QED
      BY <1>3, <2>2, <2>3, <3>1, ViewsTop
  <2> QED
    BY <2>4, <2>5, <2>6
<1> QED
  BY <1>1, <1>2, <1>3, Delivers

-----------------------------------------------------------------------------
Calls == {"start", "finish"}

\* The upload there is, after a step that posts no call of the service.
LEMMA OneKept ==
  ASSUME ScreensTypes, OneInv, Extended, UNCHANGED <<active, onDisk>>,
         thread' # None => thread # None /\ thread'.of = thread.of,
         thread # None => thread' # None,
         \A i \in 1..Len(posts') : i > Len(posts) => posts'[i].kind \notin Calls
  PROVE  OneInv'
<1>1. DOMAIN posts = 1..Len(posts) /\ DOMAIN posts' = 1..Len(posts') /\ Len(posts) \in Nat
  BY DEF ScreensTypes, Extended
<1>2. \A i \in DOMAIN posts' : posts'[i].kind \in Calls
        => i \in DOMAIN posts /\ posts'[i] = posts[i]
  BY <1>1 DEF Extended
<1>3. \A i \in DOMAIN posts : i \in DOMAIN posts' /\ posts'[i] = posts[i]
  BY <1>1 DEF Extended
<1>4. thread' # None => active' = thread'.of
  BY DEF OneInv
<1>5. \A i \in DOMAIN posts' : posts'[i].kind \in Calls =>
        /\ active' = posts'[i].of /\ thread' = None
        /\ \A j \in DOMAIN posts' : posts'[j].kind \in Calls => j = i
  BY <1>2 DEF OneInv, Calls
<1>6. active' # None => \/ thread' # None
                        \/ \E i \in DOMAIN posts' : posts'[i].kind \in Calls
  BY <1>3 DEF OneInv, Calls
<1> QED
  BY <1>4, <1>5, <1>6 DEF OneInv, Calls

\* After one that posts the first.
LEMMA OneCalled ==
  ASSUME ScreensTypes, OneInv, Extended, UNCHANGED onDisk, active' \in onDisk, thread' = None,
         \A i \in 1..Len(posts) : posts[i].kind \notin Calls,
         NEW n \in 1..Len(posts'), n > Len(posts),
         posts'[n].kind \in Calls, posts'[n].of = active',
         \A i \in 1..Len(posts') : i > Len(posts) /\ i # n => posts'[i].kind \notin Calls
  PROVE  OneInv'
<1>1. DOMAIN posts = 1..Len(posts) /\ DOMAIN posts' = 1..Len(posts') /\ Len(posts) \in Nat
  BY DEF ScreensTypes, Extended
<1>2. \A i \in DOMAIN posts' : posts'[i].kind \in Calls => i = n
  BY <1>1 DEF Extended
<1> QED
  BY <1>1, <1>2 DEF OneInv, Calls

\* Nothing waits for the service while no session counts as uploading, or a thread runs.
LEMMA NoCalls ==
  ASSUME ScreensOK, ScreensTypes, OneInv, active = None \/ thread # None
  PROVE  \A i \in 1..Len(posts) : posts[i].kind \notin Calls
<1>1. ASSUME NEW i \in 1..Len(posts), posts[i].kind \in Calls PROVE FALSE
  <2>1. i \in DOMAIN posts /\ posts[i] \in Messages
    BY ListSteps DEF ScreensTypes
  <2>2. active = posts[i].of /\ thread = None
    BY <1>1, <2>1 DEF OneInv, Calls
  <2>3. posts[i].of \in Sessions
    BY <1>1, <2>1 DEF Messages, States, Calls
  <2> QED
    BY <2>2, <2>3 DEF ScreensOK
<1> QED
  BY <1>1

\* The upload of a thread is the one that counts.
LEMMA ThreadCounts ==
  ASSUME ScreensOK, ScreensTypes, OneInv, thread # None
  PROVE  thread \in Threads /\ active = thread.of /\ active \in Sessions /\ active \in onDisk
<1>1. thread \in Threads /\ active = thread.of
  BY DEF ScreensTypes, OneInv
<1> QED
  BY <1>1 DEF ScreensTypes, OneInv, Threads, ScreensOK

-----------------------------------------------------------------------------
(* One step of each kind *)

\* A screen opens, from a start of the app, the dialog or a notification.
LEMMA OpenStep ==
  ASSUME ScreensInv, NEW s \in Sessions, D!Open(s), D!Visible => notifies,
         UNCHANGED <<onDisk, active, current, thread, notifies>>,
         prompt' \in Sessions \cup {None}
  PROVE  ScreensInv'
<1>. ScreensTypes /\ OneInv /\ PostsInv /\ ViewsInv
  BY DEF ScreensInv
<1>1. PICK n : n = Len(screens')
  OBVIOUS
<1>2. /\ screens' \in Seq(Views) /\ screens' # <<>> /\ screens'[n] = D!Screen(s) /\ n \in Nat
      /\ \A k \in 1..n-1 : D!Visible /\ k \in DOMAIN screens
           /\ \/ k < Len(screens) /\ screens'[k] = screens[k]
              \/ k = Len(screens) /\ screens'[k] = [screens[k] EXCEPT !.hid = TRUE]
      /\ posts' = Append(posts, D!Msg("observe", None, n))
      /\ D!Msg("observe", None, n) \in Messages
  BY <1>1, Opens
<1>3. PICK m : m = D!Msg("observe", None, n)
  OBVIOUS
<1>4. m \in Messages /\ m.kind = "observe" /\ posts' = Append(posts, m)
  BY <1>2, <1>3 DEF D!Msg
<1>5. Extended /\ Len(posts') = Len(posts) + 1 /\ posts'[Len(posts) + 1] = m /\ Len(posts) \in Nat
  BY <1>4, Posting
<1>6. \A i \in 1..Len(posts') : i > Len(posts) => posts'[i].kind = "observe"
  BY <1>4, <1>5
<1>7. OneInv'
  BY <1>5, <1>6, OneKept DEF Calls
<1>8. PostsInv'
  BY <1>5, <1>6, PostsAdded DEF PostsInv
<1>9. ScreensTypes'
  BY <1>2, <1>5 DEF ScreensTypes, Extended
<1>10. /\ D!Screen(s).shows = "question" /\ ~D!Screen(s).asking
  BY DEF D!Screen
<1>11. ASSUME NEW k \in DOMAIN screens'
       PROVE  /\ screens'[k].shows = "progress" /\ ~screens'[k].hid => screens'[k].watching
              /\ k < n => /\ screens'[k].hid \/ screens'[k].shows # "progress"
                          /\ ~screens'[k].asking
  <2>1. CASE k = n
    BY <1>2, <1>10, <2>1
  <2>2. CASE k # n
    <3>0. k \in 1..n-1
      <4>1. DOMAIN screens' = 1..n
        BY <1>1, <1>2
      <4> QED
        BY <1>2, <2>2, <4>1
    <3>1. k \in 1..n-1 /\ D!Visible /\ k \in DOMAIN screens
      BY <1>2, <3>0
    <3>2. CASE k < Len(screens) /\ screens'[k] = screens[k]
      BY <3>1, <3>2 DEF ViewsInv
    <3>3. CASE k = Len(screens) /\ screens'[k] = [screens[k] EXCEPT !.hid = TRUE]
      <4>1. D!Top \in Views /\ D!Top = screens[k] /\ ~D!Top.asking
        BY <3>1, <3>3, TopView DEF ViewsInv
      <4> QED
        BY <3>3, <4>1 DEF Views
    <3> QED
      BY <1>2, <3>1, <3>2, <3>3
  <2> QED
    BY <2>1, <2>2
<1>12. D!Top' = D!Screen(s)
  BY <1>1, <1>2 DEF D!Top, D!Last
<1>13. ViewsInv'
  BY <1>1, <1>10, <1>11, <1>12 DEF ViewsInv
<1> QED
  BY <1>7, <1>8, <1>9, <1>13 DEF ScreensInv

\* A screen closes.
LEMMA LeaveStep ==
  ASSUME ScreensInv, D!Visible, D!Leave,
         UNCHANGED <<onDisk, active, current, thread, prompt, notifies>>
  PROVE  ScreensInv'
<1>. ScreensTypes /\ OneInv /\ PostsInv /\ ViewsInv
  BY DEF ScreensInv
<1>1. /\ screens' \in Seq(Views) /\ Len(screens') = Len(screens) - 1 /\ Len(screens) \in Nat \ {0}
      /\ \A k \in 1..Len(screens)-1 : screens'[k] = screens[k]
  BY TopView, LastRemoved DEF D!Leave
<1>2. ViewsInv'
  <2>1. DOMAIN screens = 1..Len(screens) /\ DOMAIN screens' = 1..Len(screens)-1
    BY <1>1, TopView
  <2>3. \A k \in 1..Len(screens)-1 : k \in DOMAIN screens /\ k < Len(screens)
    BY <1>1, <2>1
  <2>4. ASSUME NEW k \in DOMAIN screens'
        PROVE  /\ k \in DOMAIN screens /\ screens'[k] = screens[k] /\ k < Len(screens)
               /\ screens'[k].shows = "progress" /\ ~screens'[k].hid => screens'[k].watching
               /\ screens'[k].hid \/ screens'[k].shows # "progress"
               /\ ~screens'[k].asking
    BY <1>1, <2>1, <2>3 DEF ViewsInv
  <2>5. screens' # <<>> => D!Top' = screens'[Len(screens')] /\ Len(screens') \in DOMAIN screens'
    BY <1>1, <2>1 DEF D!Top, D!Last
  <2>6. screens' # <<>> => ~(D!Top'.shows = "progress" /\ ~D!Top'.hid) /\ ~D!Top'.asking
    BY <2>4, <2>5
  <2> QED
    BY <2>4, <2>6 DEF ViewsInv, D!Visible
<1>3. CASE posts' = posts
  <2>1. ScreensTypes' /\ OneInv'
    BY <1>1, <1>3 DEF ScreensTypes, OneInv
  <2>2. PostsInv'
    BY <1>3 DEF PostsInv, EndFollows
  <2> QED
    BY <1>2, <2>1, <2>2 DEF ScreensInv
<1>4. CASE posts' = Append(posts, D!Msg("observe", None, Len(screens')))
  <2>1. PICK m : m = D!Msg("observe", None, Len(screens'))
    OBVIOUS
  <2>2. m \in Messages /\ m.kind = "observe" /\ posts' = Append(posts, m)
    BY <1>1, <1>4, <2>1 DEF D!Msg, Messages
  <2>3. Extended /\ Len(posts') = Len(posts) + 1 /\ posts'[Len(posts) + 1] = m
        /\ Len(posts) \in Nat
    BY <2>2, Posting
  <2>4. \A i \in 1..Len(posts') : i > Len(posts) => posts'[i].kind = "observe"
    BY <2>2, <2>3
  <2>5. OneInv'
    BY <2>3, <2>4, OneKept DEF Calls
  <2>6. PostsInv'
    BY <2>3, <2>4, PostsAdded DEF PostsInv
  <2>7. ScreensTypes'
    BY <1>1, <2>3 DEF ScreensTypes, Extended
  <2> QED
    BY <1>2, <2>5, <2>6, <2>7 DEF ScreensInv
<1> QED
  BY <1>3, <1>4 DEF D!Leave, D!Observed

\* The visible screen starts the service, or finds that it runs, or is refused.
LEMMA StartStep ==
  ASSUME ScreensOK, ScreensInv, D!Visible, active \in {None, D!Top.of}, D!Top.of \in onDisk,
         D!StartService, UNCHANGED <<onDisk, thread, prompt>>
  PROVE  ScreensInv'
<1>. ScreensTypes /\ OneInv /\ PostsInv /\ ViewsInv
  BY DEF ScreensInv
<1>1. PICK s : s = D!Top.of
  OBVIOUS
<1>2. PICK v : v = [D!Top EXCEPT !.watching = TRUE, !.shows = "progress", !.hid = FALSE,
                                 !.asking = FALSE]
  OBVIOUS
<1>3. v \in Views /\ v.of = s /\ v.watching /\ ~v.asking
  BY <1>1, <1>2, TopView DEF Views
<1>4. PICK going \in States, failed \in States, call \in Messages :
        /\ going = D!State(s, "uploading") /\ failed = D!State(s, "failed")
        /\ call = D!Msg("start", s, None)
  BY <1>1, Starts
<1>5. /\ going.kind = "state" /\ going.of = s /\ going.is = "uploading"
      /\ failed.kind = "state" /\ failed.of = s /\ failed.is = "failed"
      /\ call.kind = "start" /\ call.of = s
  BY <1>4 DEF D!State, D!Msg
<1>6. /\ screens' = Append(D!Front(screens), v)
      /\ \/ UNCHANGED <<active, current, posts>> /\ active = s
         \/ /\ active = None /\ active' = s /\ current' = going
            /\ posts' = Append(Append(posts, going), call)
         \/ /\ active = None /\ active' = None /\ current' = failed
            /\ posts' = Append(Append(posts, going), failed)
  BY <1>1, <1>2, <1>4, Starts
<1>7. s \in Sessions /\ s \in onDisk /\ going \in Messages /\ failed \in Messages
  BY <1>1, <1>3, TopView DEF Views, Messages
<1>8. CASE UNCHANGED <<active, current, posts>> /\ active = s
  <2>1. ViewsInv' /\ screens' \in Seq(Views)
    BY <1>3, <1>6, <1>8, ViewsTop
  <2>2. OneInv'
    BY <1>8 DEF OneInv
  <2>3. PostsInv'
    BY <1>8 DEF PostsInv, EndFollows
  <2>4. ScreensTypes'
    BY <1>8, <2>1 DEF ScreensTypes
  <2> QED
    BY <2>1, <2>2, <2>3, <2>4 DEF ScreensInv
<1>9. CASE active = None
  <2>1. thread = None /\ \A i \in 1..Len(posts) : posts[i].kind \notin Calls
    BY <1>9, NoCalls, ThreadCounts DEF ScreensOK
  <2>2. CASE /\ active' = s /\ current' = going
             /\ posts' = Append(Append(posts, going), call)
    <3>1. /\ Extended /\ Len(posts') = Len(posts) + 2 /\ posts'[Len(posts) + 1] = going
          /\ posts'[Len(posts) + 2] = call /\ Len(posts) \in Nat
      BY <1>7, <2>2, PostingTwo
    <3>2. PICK n \in 1..Len(posts') : n = Len(posts) + 2
      BY <3>1
    <3>3. \A i \in 1..Len(posts') : i > Len(posts) =>
            posts'[i] = going \/ i = n
      BY <3>1, <3>2
    <3>4. OneInv'
      BY <1>5, <1>7, <2>1, <2>2, <3>1, <3>2, <3>3, OneCalled DEF Calls
    <3>5. PostsInv'
      <4>1. \A i \in 1..Len(posts') : i > Len(posts) /\ posts'[i].kind = "state"
              => posts'[i].of = active'
        BY <1>5, <2>2, <3>1, <3>2, <3>3
      <4>2. current'.of = active'
        BY <1>5, <2>2
      <4>3. \A i \in 1..Len(posts) : posts[i].kind = "state" => posts[i].of # active
        BY <1>9, ListSteps DEF ScreensTypes, Messages, States, ScreensOK
      <4> QED
        BY <3>1, <4>1, <4>2, <4>3, PostsAdded
    <3>6. ViewsInv' /\ screens' \in Seq(Views)
      BY <1>3, <1>6, <2>2, ViewsTop
    <3>7. ScreensTypes'
      BY <1>7, <2>2, <3>1, <3>6 DEF ScreensTypes, Extended
    <3> QED
      BY <3>4, <3>5, <3>6, <3>7 DEF ScreensInv
  <2>3. CASE /\ active' = None /\ current' = failed
             /\ posts' = Append(Append(posts, going), failed)
    <3>1. /\ Extended /\ Len(posts') = Len(posts) + 2 /\ posts'[Len(posts) + 1] = going
          /\ posts'[Len(posts) + 2] = failed /\ Len(posts) \in Nat
      BY <1>7, <2>3, PostingTwo
    <3>2. \A i \in 1..Len(posts') : i > Len(posts) => i = Len(posts) + 1 \/ posts'[i] = failed
      BY <3>1
    <3>3. OneInv'
      <4>1. \A i \in 1..Len(posts') : i > Len(posts) => posts'[i].kind \notin Calls
        BY <1>5, <3>1, <3>2 DEF Calls
      <4> QED
        BY <1>9, <2>1, <2>3, <3>1, <4>1, OneKept
    <3>4. Len(posts) + 2 \in DOMAIN posts' /\ DOMAIN posts' = 1..Len(posts')
      BY <3>1 DEF Extended
    <3>5. EndPosted(s)'
      BY <1>5, <3>1, <3>4 DEF EndPosted, Ended
    <3>6. PostsInv'
      <4>1. \A i \in 1..Len(posts') : i > Len(posts) /\ posts'[i].kind = "state"
              /\ posts'[i].is \in Going => EndFollows(i)'
        <5>. PICK n \in Nat : n = Len(posts) + 1
          BY <3>1
        <5>1. posts'[n].of = s /\ failed.is \in Ended /\ failed.is \notin Going
          BY <1>5, <3>1 DEF Ended, Going
        <5>2. n + 1 \in DOMAIN posts' /\ n + 1 > n /\ posts'[n + 1] = failed
          BY <3>1, <3>4
        <5>3. EndFollows(n)'
          BY <1>5, <5>1, <5>2 DEF EndFollows
        <5> QED
          BY <3>1, <3>2, <5>1, <5>3
      <4>2. current'.is \notin Going
        BY <1>5, <2>3 DEF Going
      <4> QED
        BY <1>9, <2>3, <3>1, <4>1, <4>2, PostsAdded
    <3>7. ViewsInv' /\ screens' \in Seq(Views)
      BY <1>3, <1>6, <3>5, ViewsTop
    <3>8. ScreensTypes'
      BY <1>7, <2>3, <3>1, <3>7 DEF ScreensTypes, Extended
    <3> QED
      BY <3>3, <3>6, <3>7, <3>8 DEF ScreensInv
  <2> QED
    BY <1>6, <1>9, <2>2, <2>3, <1>7 DEF ScreensOK
<1> QED
  BY <1>6, <1>8, <1>9

\* The driver says yes, ...
LEMMA ClickYesStep == ScreensOK /\ ScreensInv /\ D!ClickYes => ScreensInv'
<1> SUFFICES ASSUME ScreensOK, ScreensInv, D!ClickYes PROVE ScreensInv'
  OBVIOUS
<1>. ScreensTypes /\ OneInv /\ PostsInv /\ ViewsInv
  BY DEF ScreensInv
<1>1. /\ D!Visible /\ D!Top.of \in onDisk /\ active \in {None, D!Top.of}
      /\ D!Top.shows = "question" /\ UNCHANGED <<onDisk, thread, prompt, notifies>>
  BY DEF D!ClickYes, D!disk, D!account
<1>2. CASE D!StartService
  BY <1>1, <1>2, StartStep
<1>3. CASE /\ ~notifies /\ UNCHANGED <<active, current, posts>>
           /\ screens' = Append(D!Front(screens), [D!Top EXCEPT !.asking = TRUE])
  <2>1. PICK v : v = [D!Top EXCEPT !.asking = TRUE]
    OBVIOUS
  <2>2. v \in Views /\ v.shows = "question" /\ v.of = D!Top.of
    BY <1>1, <2>1, TopView DEF Views
  <2>3. ViewsInv' /\ screens' \in Seq(Views)
    <3>1. ~notifies' /\ active' \in {None, v.of} /\ v.of \in onDisk' /\ v.shows # "progress"
      BY <1>1, <1>3, <2>2
    <3>2. screens' = Append(D!Front(screens), v)
      BY <1>3, <2>1
    <3> QED
      BY <1>1, <2>2, <3>1, <3>2, ViewsTop
  <2>4. ScreensTypes' /\ OneInv'
    BY <1>1, <1>3, <2>3 DEF ScreensTypes, OneInv
  <2>5. PostsInv'
    BY <1>3 DEF PostsInv, EndFollows
  <2> QED
    BY <2>3, <2>4, <2>5 DEF ScreensInv
<1> QED
  BY <1>2, <1>3 DEF D!ClickYes, D!SetTop

\* ... and has been asked for the permission to notify.
LEMMA AnsweredStep == ScreensOK /\ ScreensInv /\ D!Answered => ScreensInv'
<1> SUFFICES ASSUME ScreensOK, ScreensInv, D!Answered PROVE ScreensInv'
  OBVIOUS
<1>1. D!Visible /\ D!Top.asking /\ D!StartService /\ UNCHANGED <<onDisk, thread, prompt>>
  BY DEF D!Answered, D!disk
<1>2. active \in {None, D!Top.of} /\ D!Top.of \in onDisk
  BY <1>1 DEF ScreensInv, ViewsInv
<1> QED
  BY <1>1, <1>2, StartStep

\* The upload thread posts how far it is, ...
LEMMA ProgressStep == ScreensOK /\ ScreensInv /\ D!Progress => ScreensInv'
<1> SUFFICES ASSUME ScreensOK, ScreensInv, D!Progress PROVE ScreensInv'
  OBVIOUS
<1>. ScreensTypes /\ OneInv /\ PostsInv /\ ViewsInv
  BY DEF ScreensInv
<1>1. /\ thread # None /\ UNCHANGED <<onDisk, active, screens, prompt, notifies>>
      /\ \/ D!Posted("uploading") /\ UNCHANGED thread
         \/ D!Posted("finalizing") /\ thread' = [thread EXCEPT !.at = "finalizing"]
  BY DEF D!Progress, D!disk, D!account
<1>2. thread \in Threads /\ active = thread.of /\ active \in Sessions
  BY <1>1, ThreadCounts
<1>3. thread' \in Threads /\ thread'.of = thread.of /\ thread' # None
  BY <1>1, <1>2 DEF Threads, ScreensOK
<1>4. PICK m : m = current'
  OBVIOUS
<1>5. m \in States /\ m \in Messages /\ posts' = Append(posts, m) /\ m.kind = "state"
      /\ m.of = active
  BY <1>1, <1>2, <1>4 DEF D!Posted, D!State, States, Messages, Going
<1>6. Extended /\ Len(posts') = Len(posts) + 1 /\ posts'[Len(posts) + 1] = m /\ Len(posts) \in Nat
  BY <1>5, Posting
<1>7. \A i \in 1..Len(posts') : i > Len(posts) => posts'[i] = m
  BY <1>6
<1>8. OneInv'
  BY <1>1, <1>3, <1>5, <1>6, <1>7, OneKept DEF Calls
<1>9. PostsInv'
  BY <1>1, <1>4, <1>5, <1>6, <1>7, PostsAdded
<1>10. ViewsInv'
  BY <1>1, <1>6, EndsStay, ViewsStay DEF ViewsInv
<1>11. ScreensTypes'
  BY <1>1, <1>3, <1>4, <1>5, <1>6 DEF ScreensTypes, Extended
<1> QED
  BY <1>8, <1>9, <1>10, <1>11 DEF ScreensInv

\* ... and ends.
LEMMA EndsStep ==
  ASSUME ScreensOK, ScreensInv, thread # None, NEW is \in Ended, D!Ends(is),
         UNCHANGED <<onDisk, active, current, screens, prompt, notifies>>
  PROVE  ScreensInv'
<1>. ScreensTypes /\ OneInv /\ PostsInv /\ ViewsInv
  BY DEF ScreensInv
<1>1. thread \in Threads /\ active = thread.of /\ active \in Sessions /\ active \in onDisk
  BY ThreadCounts
<1>2. PICK m : m = D!Msg("finish", thread.of, is)
  OBVIOUS
<1>3. m \in Messages /\ m.kind = "finish" /\ m.of = active /\ posts' = Append(posts, m)
      /\ thread' = None
  BY <1>1, <1>2 DEF D!Ends, D!Msg, Messages
<1>4. Extended /\ Len(posts') = Len(posts) + 1 /\ posts'[Len(posts) + 1] = m /\ Len(posts) \in Nat
  BY <1>3, Posting
<1>5. PICK n \in 1..Len(posts') : n = Len(posts) + 1
  BY <1>4
<1>6. \A i \in 1..Len(posts') : i > Len(posts) => i = n
  BY <1>4, <1>5
<1>7. OneInv'
  BY <1>1, <1>3, <1>4, <1>5, <1>6, NoCalls, OneCalled DEF Calls
<1>8. PostsInv'
  BY <1>3, <1>4, <1>5, <1>6, PostsAdded DEF PostsInv
<1>9. ViewsInv'
  BY <1>4, EndsStay, ViewsStay DEF ViewsInv
<1>10. ScreensTypes'
  BY <1>3, <1>4 DEF ScreensTypes, Extended
<1> QED
  BY <1>7, <1>8, <1>9, <1>10 DEF ScreensInv

\* What is posted, without the message at the head, ...
Taken == posts # <<>> /\ Len(posts') = Len(posts) - 1 /\ posts' \in Seq(Messages)
         /\ \A i \in 1..Len(posts)-1 : posts'[i] = posts[i + 1]

\* ... is what remains when it is taken.
LEMMA Taking == ASSUME ScreensTypes, posts # <<>>, posts' = Tail(posts) PROVE Taken
  BY ListSteps DEF ScreensTypes, Taken

\* The end of an upload stays posted unless it is the message taken.
LEMMA EndTaken ==
  ASSUME ScreensTypes, posts # <<>>, posts' = Tail(posts)
  PROVE  /\ \A s : EndPosted(s) /\ ~(Head(posts).kind = "state" /\ Head(posts).of = s
                                     /\ Head(posts).is \in Ended) => EndPosted(s)'
         /\ EndFollows(1) => \A s : s = Head(posts).of => EndPosted(s)'
<1>1. /\ DOMAIN posts = 1..Len(posts) /\ Len(posts) \in Nat /\ Head(posts) = posts[1]
      /\ DOMAIN posts' = 1..Len(posts)-1 /\ \A k \in 1..Len(posts)-1 : posts'[k] = posts[k + 1]
  BY ListSteps DEF ScreensTypes
<1>2. \A j \in DOMAIN posts : j # 1 => j - 1 \in DOMAIN posts' /\ posts'[j - 1] = posts[j]
  BY <1>1
<1>3. \A j \in DOMAIN posts : j > 1 => j # 1
  BY <1>1
<1>4. ASSUME NEW s, EndPosted(s),
             ~(Head(posts).kind = "state" /\ Head(posts).of = s /\ Head(posts).is \in Ended)
      PROVE  EndPosted(s)'
  <2>1. PICK j \in DOMAIN posts : /\ posts[j].kind = "state" /\ posts[j].of = s
                                  /\ posts[j].is \in Ended
    BY <1>4 DEF EndPosted
  <2>2. j - 1 \in DOMAIN posts' /\ posts'[j - 1] = posts[j]
    BY <1>1, <1>2, <1>4, <2>1
  <2> QED
    BY <2>1, <2>2 DEF EndPosted
<1>5. ASSUME EndFollows(1), NEW s, s = Head(posts).of PROVE EndPosted(s)'
  <2>1. PICK j \in DOMAIN posts : j > 1 /\ posts[j].kind = "state" /\ posts[j].of = s
                                 /\ posts[j].is \in Ended
    BY <1>1, <1>5 DEF EndFollows
  <2>2. j - 1 \in DOMAIN posts' /\ posts'[j - 1] = posts[j]
    BY <1>2, <1>3, <2>1
  <2> QED
    BY <2>1, <2>2 DEF EndPosted
<1> QED
  BY <1>4, <1>5

\* The upload there is, after a message that is no call.
LEMMA OneTaken ==
  ASSUME ScreensTypes, OneInv, posts # <<>>, posts' = Tail(posts), Head(posts).kind \notin Calls,
         UNCHANGED <<active, onDisk, thread>>
  PROVE  OneInv'
<1>1. /\ DOMAIN posts = 1..Len(posts) /\ Len(posts) \in Nat /\ Head(posts) = posts[1]
      /\ DOMAIN posts' = 1..Len(posts)-1 /\ \A k \in 1..Len(posts)-1 : posts'[k] = posts[k + 1]
  BY ListSteps DEF ScreensTypes
<1>2. \A i \in DOMAIN posts' : i + 1 \in DOMAIN posts /\ posts'[i] = posts[i + 1]
  BY <1>1
<1>3. \A i, j \in DOMAIN posts' : i + 1 = j + 1 => i = j
  BY <1>1
<1>4. \A j \in DOMAIN posts : posts[j].kind \in Calls
        => j - 1 \in DOMAIN posts' /\ posts'[j - 1] = posts[j]
  <2>1. \A j \in DOMAIN posts : j # 1 => j - 1 \in DOMAIN posts' /\ posts'[j - 1] = posts[j]
    BY <1>1
  <2> QED
    BY <1>1, <2>1
<1>5. \A i \in DOMAIN posts' : posts'[i].kind \in Calls =>
        /\ active' = posts'[i].of /\ thread' = None
        /\ \A j \in DOMAIN posts' : posts'[j].kind \in Calls => j = i
  BY <1>2, <1>3 DEF OneInv, Calls
<1>6. active' # None => \/ thread' # None
                        \/ \E i \in DOMAIN posts' : posts'[i].kind \in Calls
  BY <1>4 DEF OneInv, Calls
<1> QED
  BY <1>5, <1>6 DEF OneInv, Calls

\* A state reaches the visible screen.
LEMMA StateStep ==
  ASSUME ScreensInv, posts # <<>>, Head(posts).kind = "state", D!Deliver(Head(posts)),
         posts' = Tail(posts), UNCHANGED <<onDisk, active, current, thread, prompt, notifies>>
  PROVE  ScreensInv'
<1>. ScreensTypes /\ OneInv /\ PostsInv /\ ViewsInv
  BY DEF ScreensInv
<1>1. PICK m \in States : m = Head(posts)
  BY HeadMessage
<1>2. m.kind = "state" /\ m.is \in Going \cup Ended /\ m = posts[1] /\ 1 \in DOMAIN posts
  BY <1>1, HeadMessage DEF States
<1>3. D!Visible /\ D!Top.shows = "progress" /\ ~D!Top.hid /\ active # D!Top.of
        /\ ~D!Concerns(D!Top, m) => \A s : s = D!Top.of => EndPosted(s)'
  <2>. SUFFICES ASSUME D!Visible, D!Top.shows = "progress", ~D!Top.hid, active # D!Top.of,
                       ~D!Concerns(D!Top, m), NEW s, s = D!Top.of
                PROVE  EndPosted(s)'
    OBVIOUS
  <2>1. D!Top.watching
    BY TopView DEF ViewsInv
  <2>2. m.of # s
    BY <1>2, <2>1 DEF D!Concerns
  <2>3. EndPosted(s)
    BY DEF ViewsInv
  <2> QED
    BY <1>1, <2>2, <2>3, EndTaken
<1>4. m.is \in Going /\ m.of # active => EndPosted(m.of)'
  <2>1. m.is \in Going /\ m.of # active => EndFollows(1)
    BY <1>2 DEF PostsInv
  <2> QED
    BY <1>1, <2>1, EndTaken
<1>5. ViewsInv' /\ screens' \in Seq(Views)
  BY <1>1, <1>3, <1>4, ViewsDelivered
<1>6. OneInv' /\ PostsInv'
  BY <1>1, <1>2, OneTaken, PostsTaken DEF Calls
<1>7. ScreensTypes'
  BY <1>5, Taking DEF ScreensTypes, Taken
<1> QED
  BY <1>5, <1>6, <1>7 DEF ScreensInv

\* A screen observes the current state.
LEMMA ObserveStep ==
  ASSUME ScreensInv, posts # <<>>, Head(posts).kind = "observe",
         UNCHANGED screens \/ (current # None /\ D!Deliver(current)),
         posts' = Tail(posts), UNCHANGED <<onDisk, active, current, thread, prompt, notifies>>
  PROVE  ScreensInv'
<1>. ScreensTypes /\ OneInv /\ PostsInv /\ ViewsInv
  BY DEF ScreensInv
<1>1. \A s : EndPosted(s) => EndPosted(s)'
  BY EndTaken
<1>2. ViewsInv' /\ screens' \in Seq(Views)
  <2>1. CASE UNCHANGED screens
    <3>1. D!Visible /\ D!Top.shows = "progress" /\ ~D!Top.hid /\ active # D!Top.of
            => \A s : s = D!Top.of => EndPosted(s)'
      BY <1>1 DEF ViewsInv
    <3> QED
      BY <2>1, <3>1, ViewsStay DEF ScreensTypes
  <2>2. CASE current # None /\ D!Deliver(current)
    <3>1. PICK m \in States : m = current
      BY <2>2 DEF ScreensTypes
    <3>2. D!Visible /\ D!Top.shows = "progress" /\ ~D!Top.hid /\ active # D!Top.of
            => \A s : s = D!Top.of => EndPosted(s)'
      BY <1>1 DEF ViewsInv
    <3>3. m.is \in Going => active = m.of
      BY <2>2, <3>1 DEF PostsInv
    <3> QED
      BY <2>2, <3>1, <3>2, <3>3, ViewsDelivered
  <2> QED
    BY <2>1, <2>2
<1>3. OneInv' /\ PostsInv'
  BY OneTaken, PostsTaken DEF Calls
<1>4. ScreensTypes'
  BY <1>2, Taking DEF ScreensTypes, Taken
<1> QED
  BY <1>2, <1>3, <1>4 DEF ScreensInv

\* The service starts its thread.
LEMMA StartedStep ==
  ASSUME ScreensOK, ScreensInv, posts # <<>>, Head(posts).kind = "start",
         active' = Head(posts).of,
         thread' = [of |-> Head(posts).of, at |-> "sending", cancelled |-> FALSE],
         posts' = Tail(posts), UNCHANGED <<onDisk, current, screens, prompt, notifies>>
  PROVE  ScreensInv'
<1>. ScreensTypes /\ OneInv /\ PostsInv /\ ViewsInv
  BY DEF ScreensInv
<1>1. PICK m : m = Head(posts)
  OBVIOUS
<1>2. m = posts[1] /\ 1 \in DOMAIN posts /\ m.of \in Sessions /\ m.kind = "start"
  BY <1>1, HeadMessage
<1>3. active = m.of /\ \A j \in DOMAIN posts : posts[j].kind \in Calls => j = 1
  BY <1>2 DEF OneInv, Calls
<1>4. active' = active
  BY <1>1, <1>3
<1>5. thread' \in Threads /\ thread' # None /\ thread'.of = active
  <2>1. [of |-> m.of, at |-> "sending", cancelled |-> FALSE] \in Threads
    BY <1>2 DEF Threads
  <2> QED
    BY <1>1, <1>3, <2>1 DEF ScreensOK
<1>6. \A i \in DOMAIN posts' : posts'[i].kind \notin Calls
  <2>1. \A i \in DOMAIN posts' : i + 1 \in DOMAIN posts /\ posts'[i] = posts[i + 1] /\ i + 1 # 1
    BY ListSteps DEF ScreensTypes
  <2> QED
    BY <1>3, <2>1
<1>7. OneInv'
  BY <1>4, <1>5, <1>6 DEF OneInv, Calls
<1>8. PostsInv'
  BY <1>4, PostsTaken
<1>9. ViewsInv'
  <2>1. \A s : EndPosted(s) => EndPosted(s)'
    BY EndTaken
  <2>2. D!Visible /\ D!Top.shows = "progress" /\ ~D!Top.hid /\ active # D!Top.of
          => \A s : s = D!Top.of => EndPosted(s)'
    BY <2>1 DEF ViewsInv
  <2> QED
    BY <1>4, <2>2, ViewsStay
<1>10. ScreensTypes'
  BY <1>4, <1>5, Taking DEF ScreensTypes, Taken
<1> QED
  BY <1>7, <1>8, <1>9, <1>10 DEF ScreensInv

\* The end of the upload is published.
LEMMA FinishedStep ==
  ASSUME ScreensOK, ScreensInv, posts # <<>>, Head(posts).kind = "finish", active' = None,
         current' = D!State(Head(posts).of, Head(posts).is),
         posts' = Append(Tail(posts), current'),
         UNCHANGED <<onDisk, thread, screens, prompt, notifies>>
  PROVE  ScreensInv'
<1>. ScreensTypes /\ OneInv /\ PostsInv /\ ViewsInv
  BY DEF ScreensInv
<1>1. PICK m : m = Head(posts)
  OBVIOUS
<1>2. /\ m = posts[1] /\ 1 \in DOMAIN posts /\ m.of \in Sessions /\ m.kind = "finish"
      /\ m \in Messages /\ D!State(m.of, m.is) \in States
  BY <1>1, HeadMessage
<1>3. PICK e \in States : e = D!State(m.of, m.is)
  BY <1>2
<1>4. e \in Messages /\ e.kind = "state" /\ e.of = m.of /\ e.is \in Ended
  BY <1>2, <1>3 DEF Messages, States, D!State
<1>5. active = m.of /\ thread = None /\ \A j \in DOMAIN posts : posts[j].kind \in Calls => j = 1
  BY <1>2 DEF OneInv, Calls
<1>6. PICK n \in Nat \ {0} : n = Len(posts)
  BY ListSteps DEF ScreensTypes
<1>7. /\ posts' \in Seq(Messages) /\ Len(posts') = n /\ posts'[n] = e
      /\ \A i \in 1..n-1 : posts'[i] = posts[i + 1]
  <2>1. PICK rest : rest = Tail(posts)
    OBVIOUS
  <2>2. rest \in Seq(Messages) /\ Len(rest) = n - 1 /\ \A i \in 1..n-1 : rest[i] = posts[i + 1]
    BY <1>6, <2>1, ListSteps DEF ScreensTypes
  <2>3. posts' = Append(rest, e)
    BY <1>1, <1>3, <2>1
  <2>4. (n - 1) + 1 = n /\ Len(rest) = n - 1
    BY <2>2
  <2>5. /\ Append(rest, e) \in Seq(Messages) /\ Len(Append(rest, e)) = Len(rest) + 1
        /\ Append(rest, e)[Len(rest) + 1] = e
        /\ \A k \in 1..Len(rest) : Append(rest, e)[k] = rest[k]
    BY <1>4, <2>2, ListSteps
  <2> QED
    BY <2>2, <2>3, <2>4, <2>5
<1>8. DOMAIN posts' = 1..n /\ DOMAIN posts = 1..n /\ n \in DOMAIN posts'
  BY <1>6, <1>7 DEF ScreensTypes
<1>9. \A i \in DOMAIN posts' :
        \/ i = n /\ posts'[i] = e
        \/ i < n /\ i + 1 \in DOMAIN posts /\ i + 1 # 1 /\ posts'[i] = posts[i + 1]
  BY <1>6, <1>7, <1>8
<1>10. OneInv'
  <2>1. \A i \in DOMAIN posts' : posts'[i].kind \notin Calls
    BY <1>4, <1>5, <1>9 DEF Calls
  <2> QED
    BY <1>5, <2>1 DEF OneInv, Calls
<1>11. \A s : s = m.of \/ EndPosted(s) => EndPosted(s)'
  <2>1. \A j \in DOMAIN posts : j # 1 => j - 1 \in DOMAIN posts' /\ posts'[j - 1] = posts[j]
    BY <1>6, <1>7, <1>8
  <2>2. EndPosted(m.of)'
    BY <1>4, <1>7, <1>8 DEF EndPosted
  <2>3. ASSUME NEW s, EndPosted(s) PROVE EndPosted(s)'
    <3>1. PICK j \in DOMAIN posts : posts[j].kind = "state" /\ posts[j].of = s
                                   /\ posts[j].is \in Ended
      BY <2>3 DEF EndPosted
    <3>2. j - 1 \in DOMAIN posts' /\ posts'[j - 1] = posts[j]
      BY <1>2, <2>1, <3>1
    <3> QED
      BY <3>1, <3>2 DEF EndPosted
  <2> QED
    BY <2>2, <2>3
<1>12. PostsInv'
  <2>1. current' # None => current'.is \notin Going
    BY <1>1, <1>3, <1>4 DEF Going, Ended
  <2>2. ASSUME NEW i \in DOMAIN posts', posts'[i].kind = "state", posts'[i].is \in Going
        PROVE  EndFollows(i)'
    <3>1. i < n /\ i + 1 \in DOMAIN posts /\ posts'[i] = posts[i + 1] /\ i \in Nat
      BY <1>4, <1>8, <1>9, <2>2 DEF Going, Ended
    <3>2. CASE posts'[i].of = m.of
      BY <1>4, <1>7, <1>8, <3>1, <3>2 DEF EndFollows
    <3>3. CASE posts'[i].of # m.of
      <4>1. PICK j \in DOMAIN posts : j > i + 1 /\ posts[j].kind = "state"
                /\ posts[j].of = posts[i + 1].of /\ posts[j].is \in Ended
        BY <1>5, <2>2, <3>1, <3>3 DEF PostsInv, EndFollows
      <4>2. j - 1 \in DOMAIN posts' /\ j - 1 > i /\ posts'[j - 1] = posts[j]
        BY <1>6, <1>7, <1>8, <3>1, <4>1
      <4> QED
        BY <3>1, <4>1, <4>2 DEF EndFollows
    <3> QED
      BY <3>2, <3>3
  <2> QED
    BY <2>1, <2>2 DEF PostsInv
<1>13. ViewsInv'
  <2>1. D!Visible /\ D!Top.shows = "progress" /\ ~D!Top.hid
          => \A s : s = D!Top.of => EndPosted(s)'
    BY <1>5, <1>11 DEF ViewsInv
  <2> QED
    BY <2>1, ViewsStay
<1>14. ScreensTypes'
  BY <1>1, <1>3, <1>7 DEF ScreensTypes
<1> QED
  BY <1>10, <1>12, <1>13, <1>14 DEF ScreensInv

\* The main thread handles the message at the head.
LEMMA MessageStep == ScreensOK /\ ScreensInv /\ D!OnMessage => ScreensInv'
<1> SUFFICES ASSUME ScreensOK, ScreensInv, D!OnMessage PROVE ScreensInv'
  OBVIOUS
<1>1. posts # <<>> /\ UNCHANGED <<onDisk, prompt, notifies>>
  BY DEF D!OnMessage, D!disk, D!account
<1>2. Head(posts).kind \in {"state", "start", "finish", "observe"}
  BY <1>1, HeadMessage DEF ScreensInv, Messages, States
<1>3. CASE Head(posts).kind = "state"
  BY <1>1, <1>3, StateStep DEF D!OnMessage
<1>4. CASE Head(posts).kind = "observe"
  BY <1>1, <1>4, ObserveStep DEF D!OnMessage
<1>5. CASE Head(posts).kind = "start"
  BY <1>1, <1>5, StartedStep DEF D!OnMessage
<1>6. CASE Head(posts).kind = "finish"
  BY <1>1, <1>6, FinishedStep DEF D!OnMessage, D!Released
<1> QED
  BY <1>2, <1>3, <1>4, <1>5, <1>6

\* The process dies.
LEMMA KillStep == ScreensOK /\ ScreensInv /\ D!Kill => ScreensInv'
<1> SUFFICES ASSUME ScreensOK, ScreensInv, D!Kill PROVE ScreensInv'
  OBVIOUS
<1>1. /\ active' = None /\ current' = None /\ thread' = None /\ prompt' = None
      /\ UNCHANGED <<onDisk, notifies>>
      /\ screens' = [i \in DOMAIN screens |->
                      [D!Screen(screens[i].of) EXCEPT !.watching = screens[i].watching]]
      /\ posts' = <<>> \/ posts' = <<D!Msg("observe", None, Len(screens'))>>
  BY DEF D!Kill, D!disk, D!account
<1>2. screens \in Seq(Views) /\ onDisk \subseteq Sessions
  BY DEF ScreensInv, ScreensTypes
<1>3. ASSUME NEW i \in DOMAIN screens
      PROVE  /\ screens'[i] \in Views /\ screens'[i].shows = "question" /\ ~screens'[i].asking
  <2>1. screens[i] \in Views
    BY <1>2
  <2>2. screens'[i] = [D!Screen(screens[i].of) EXCEPT !.watching = screens[i].watching]
    BY <1>1
  <2> QED
    BY <2>1, <2>2 DEF D!Screen, Views
<1>4. screens' \in Seq(Views) /\ Len(screens') \in Nat /\ DOMAIN screens' = DOMAIN screens
  <2>1. DOMAIN screens = 1..Len(screens) /\ Len(screens) \in Nat
    BY <1>2
  <2>2. screens' \in [1..Len(screens) -> Views]
    BY <1>1, <1>3, <2>1
  <2> QED
    BY <2>1, <2>2
<1>5. \A i \in DOMAIN posts' : posts'[i].kind = "observe"
  BY <1>1 DEF D!Msg
<1>6. posts' \in Seq(Messages)
  <2>1. D!Msg("observe", None, Len(screens')) \in Messages
    BY <1>4 DEF D!Msg, Messages
  <2>2. PICK m \in Messages : m = D!Msg("observe", None, Len(screens'))
    BY <2>1
  <2>3. posts' = <<>> \/ posts' = <<m>>
    BY <1>1, <2>2
  <2>4. <<>> \in Seq(Messages) /\ <<m>> \in Seq(Messages)
    OBVIOUS
  <2> QED
    BY <2>3, <2>4
<1>7. ScreensTypes'
  BY <1>1, <1>2, <1>4, <1>6 DEF ScreensTypes
<1>8. OneInv' /\ PostsInv'
  BY <1>1, <1>5 DEF OneInv, PostsInv
<1>9. ViewsInv'
  <2>1. screens' # <<>> => Len(screens') \in DOMAIN screens' /\ D!Top' = screens'[Len(screens')]
    BY <1>4 DEF D!Top, D!Last
  <2> QED
    BY <1>3, <1>4, <2>1 DEF ViewsInv, D!Visible
<1> QED
  BY <1>7, <1>8, <1>9 DEF ScreensInv

\* The first state.
LEMMA ScreensStart == D!Init => ScreensInv
<1> SUFFICES ASSUME D!Init PROVE ScreensInv
  OBVIOUS
<1>1. posts = <<>> /\ screens = <<>>
  BY DEF D!Init
<1> QED
  BY <1>1 DEF D!Init, ScreensInv, ScreensTypes, OneInv, PostsInv, ViewsInv, D!Visible

\* A step keeps the invariant.
LEMMA ScreensStep == ScreensOK /\ ScreensInv /\ [D!Next]_D!vars => ScreensInv'
<1> SUFFICES ASSUME ScreensOK, ScreensInv, [D!Next]_D!vars PROVE ScreensInv'
  OBVIOUS
<1>. /\ onDisk \subseteq Sessions /\ prompt \in Sessions \cup {None}
     /\ active # None => active \in onDisk
  BY DEF ScreensInv, ScreensTypes, OneInv
<1>1. CASE D!Launch
  BY <1>1, Aside DEF D!Launch, D!Swept, D!account
<1>2. CASE D!Age
  BY <1>2, Aside DEF D!Age, D!account
<1>3. CASE D!OpenScreen
  BY <1>3, OpenStep DEF D!OpenScreen, D!disk, D!account
<1>4. CASE D!PromptUpload
  <2>1. prompt \in Sessions /\ D!Open(prompt) /\ ~D!Visible /\ prompt' = None
        /\ UNCHANGED <<onDisk, active, current, thread, notifies>>
    BY <1>4 DEF D!PromptUpload, D!disk, D!account
  <2> QED
    BY <2>1, OpenStep
<1>5. CASE D!PromptSkip
  BY <1>5, Aside DEF D!PromptSkip, D!account
<1>6. CASE D!ClickNo \/ D!Back
  BY <1>6, LeaveStep DEF D!ClickNo, D!Back, D!disk, D!account
<1>7. CASE D!Succeeds
  BY <1>7, EndsStep DEF D!Succeeds, D!account, Ended
<1>8. CASE D!Fails
  BY <1>8, EndsStep DEF D!Fails, D!disk, Ended
<1>9. CASE D!TimeLimit
  <2>1. /\ thread # None /\ thread \in Threads /\ thread' = [thread EXCEPT !.cancelled = TRUE]
        /\ UNCHANGED <<onDisk, active, current, posts, screens, prompt, notifies>>
    BY <1>9, ThreadCounts DEF D!TimeLimit, D!disk, D!account, ScreensInv
  <2>2. thread' \in Threads /\ thread' # None /\ thread'.of = thread.of
    BY <2>1 DEF Threads, ScreensOK
  <2>3. ScreensTypes' /\ OneInv'
    BY <2>1, <2>2 DEF ScreensInv, ScreensTypes, OneInv
  <2>4. PostsInv'
    BY <2>1 DEF ScreensInv, PostsInv, EndFollows
  <2>5. ViewsInv'
    BY <2>1 DEF ScreensInv, ViewsInv, EndPosted, D!Visible, D!Top, D!Last
  <2> QED
    BY <2>3, <2>4, <2>5 DEF ScreensInv
<1>10. CASE D!Logout \/ D!Login
  BY <1>10, Aside DEF D!Logout, D!Login, D!disk
<1>11. CASE UNCHANGED D!vars
  BY <1>11, Aside DEF D!vars
<1> QED
  BY <1>1, <1>2, <1>3, <1>4, <1>5, <1>6, <1>7, <1>8, <1>9, <1>10, <1>11, ClickYesStep,
     AnsweredStep, MessageStep, ProgressStep, KillStep DEF D!Next

\* The upload there is, and only that one, waits, runs or has ended untold.
LEMMA OneTold == ScreensOK /\ ScreensInv => D!OneUpload
<1> SUFFICES ASSUME ScreensOK, ScreensInv, NEW s \in Sessions
             PROVE  active = s <=> D!Waits("start", s) \/ D!Waits("finish", s)
                                   \/ (thread # None /\ thread.of = s)
  BY DEF D!OneUpload
<1>. s # None
  BY DEF ScreensOK
<1>1. D!Waits("start", s) \/ D!Waits("finish", s) => active = s
  BY DEF D!Waits, ScreensInv, OneInv
<1>2. active = s => D!Waits("start", s) \/ D!Waits("finish", s)
                    \/ (thread # None /\ thread.of = s)
  BY DEF D!Waits, ScreensInv, OneInv
<1> QED
  BY <1>1, <1>2 DEF ScreensInv, OneInv

\* MCJourney takes the steps of DriveScreens in its part, and no others.
LEMMA ScreensPart ==
    /\ Init /\ part = "screens" => D!Init
    /\ [Next]_vars => part' = part /\ (part = "screens" => [D!Next]_D!vars)
BY DEF Init, Next, vars, screensVars, D!vars

\* The screens tell the driver the truth about the one upload there is: what counts as uploading
\* is to start, runs or has just ended, its folder stays on the phone, and a screen that shows
\* progress is told the end.
THEOREM UploadsAreTold == ScreensOK /\ Spec => []UploadsTold
<1> SUFFICES ASSUME ScreensOK PROVE Spec => []UploadsTold
  OBVIOUS
<1>1. ScreensInv => D!UploadsTold
  <2> SUFFICES ASSUME ScreensInv PROVE D!UploadsTold
    OBVIOUS
  <2>1. D!FolderStays
    BY DEF ScreensInv, ScreensTypes, OneInv, Threads, ScreensOK, D!FolderStays
  <2>2. D!ScreenTrue
    BY DEF D!ScreenTrue, ScreensInv, ViewsInv, EndPosted
  <2> QED
    BY <2>1, <2>2, OneTold DEF D!UploadsTold
<1>2. (part = "screens" => ScreensInv) => UploadsTold
  BY <1>1 DEF UploadsTold
<1>3. Init => (part = "screens" => ScreensInv)
  BY ScreensPart, ScreensStart
<1>4. (part = "screens" => ScreensInv) /\ [Next]_vars => (part = "screens" => ScreensInv)'
  BY ScreensPart, ScreensStep
<1> QED
  BY <1>2, <1>3, <1>4, PTL DEF Spec

-----------------------------------------------------------------------------
(* Accounts *)

AccountsTypes ==
    /\ users \subseteq A!Users
    /\ accountsAt \in [Attempts -> {"unused", "find", "compare", "create", "ok", "refused",
                                    "taken", "lost"}]
    /\ form \in [Attempts -> A!Forms \cup {NoOne}]
    /\ account \in [Attempts -> A!Users \cup {NoOne}]
    /\ DOMAIN tab = Tabs
    /\ \A c \in Attempts : accountsAt[c] # "unused" => form[c] \in A!Forms

\* What a handler knows at each of its awaits: whom it found, that a code was given, and,
\* once it has answered, whose account that is.
HandlersInv ==
    /\ \A u, v \in users : u.email = v.email => u = v
    /\ \A u \in users : u.role = "authority" => u.code
    /\ \A c \in Attempts :
        /\ accountsAt[c] = "compare" => /\ form[c].kind = "login" /\ account[c] \in users
                                        /\ account[c].email = form[c].email
        /\ accountsAt[c] = "create" => form[c].kind = "register" /\ A!CodeGiven(form[c])
        /\ accountsAt[c] = "refused" => account[c] = NoOne
        /\ A!Succeeded(c) => /\ account[c] \in users /\ account[c].email = form[c].email
                             /\ account[c].password = form[c].password
    /\ \A c, d \in Attempts : c # d /\ A!Succeeded(c) /\ A!Succeeded(d) /\ account[c] = account[d]
         => "login" \in {form[c].kind, form[d].kind}

\* Where an account is kept in the browser, a sign-in of one of its tabs was taken.
Earned(a) ==
    /\ a \in users /\ a.role = "authority"
    /\ \E c \in Attempts : accountsAt[c] = "taken" /\ account[c] = a /\ form[c].by \in Tabs
BrowserInv == \A a \in acted \cup {storage} \cup {tab[t] : t \in Tabs} : a # NoOne => Earned(a)

AccountsInv == AccountsTypes /\ HandlersInv /\ BrowserInv

\* Steps that leave the accounts, and the sign-ins that were taken, alone.
LEMMA EarnedStays ==
  ASSUME users \subseteq users',
         \A c \in Attempts : accountsAt[c] = "taken" =>
             accountsAt'[c] = "taken" /\ account'[c] = account[c] /\ form'[c] = form[c]
  PROVE  \A a : Earned(a) => Earned(a)'
BY DEF Earned

\* The first state.
LEMMA AccountsInit == A!Init => AccountsInv
<1>. SUFFICES ASSUME A!Init PROVE AccountsInv
  OBVIOUS
<1>1. AccountsTypes
  BY DEF A!Init, AccountsTypes
<1>2. HandlersInv /\ BrowserInv
  BY DEF A!Init, HandlersInv, BrowserInv, A!Succeeded
<1> QED
  BY <1>1, <1>2 DEF AccountsInv

\* A form is sent: its handler has done nothing yet.
LEMMA AccountsSent ==
  ASSUME AccountsInv, NEW c \in Attempts, NEW f \in A!Forms, A!Sent(c, f)
  PROVE  AccountsInv'
<1>1. /\ accountsAt[c] = "unused" /\ accountsAt' = [accountsAt EXCEPT ![c] = "find"]
      /\ form' = [form EXCEPT ![c] = f]
      /\ UNCHANGED <<users, account, storage, tab, acted>>
  BY DEF A!Sent
<1>2. AccountsTypes'
  BY <1>1 DEF AccountsInv, AccountsTypes
<1>3. \A d \in Attempts : /\ d # c => accountsAt'[d] = accountsAt[d] /\ form'[d] = form[d]
                          /\ accountsAt'[c] = "find"
  BY <1>1 DEF AccountsInv, AccountsTypes
<1>4. \A d \in Attempts : A!Succeeded(d)' => A!Succeeded(d) /\ d # c
  BY <1>1, <1>3 DEF A!Succeeded
<1>5. HandlersInv'
  BY <1>1, <1>3, <1>4 DEF AccountsInv, HandlersInv, A!CodeGiven, A!Role
<1>6. BrowserInv'
  <2>1. \A a : Earned(a) => Earned(a)'
    BY <1>1, <1>3, EarnedStays
  <2> QED
    BY <1>1, <2>1 DEF AccountsInv, BrowserInv
<1> QED
  BY <1>2, <1>5, <1>6 DEF AccountsInv

\* A handler takes a step, of which its answer, if it is one, tells the truth.
LEMMA AccountsGoes ==
  ASSUME AccountsInv, NEW c \in Attempts, NEW where, NEW a, A!Goes(c, where, a),
         accountsAt[c] \in {"find", "compare", "create"},
         where \in {"compare", "create", "ok", "refused"},
         a \in A!Users \cup {NoOne},
         users' \subseteq A!Users, users \subseteq users',
         \A u, v \in users' : u.email = v.email => u = v,
         \A u \in users' : u.role = "authority" => u.code,
         where = "compare" => form[c].kind = "login" /\ a \in users /\ a.email = form[c].email,
         where = "create" => form[c].kind = "register" /\ A!CodeGiven(form[c]),
         where = "refused" => a = NoOne,
         where = "ok" => /\ a \in users' /\ a.email = form[c].email
                         /\ a.password = form[c].password
                         /\ form[c].kind = "login" \/ a \notin users
  PROVE  AccountsInv'
<1>1. /\ accountsAt' = [accountsAt EXCEPT ![c] = where]
      /\ account' = [account EXCEPT ![c] = a]
      /\ UNCHANGED <<form, storage, tab, acted>>
  BY DEF A!Goes, A!clients
<1>2. AccountsTypes'
  BY <1>1 DEF AccountsInv, AccountsTypes
<1>3. \A d \in Attempts : d # c => accountsAt'[d] = accountsAt[d] /\ account'[d] = account[d]
  BY <1>1 DEF AccountsInv, AccountsTypes
<1>4. accountsAt'[c] = where /\ account'[c] = a
  BY <1>1 DEF AccountsInv, AccountsTypes
<1>5. \A d \in Attempts : d # c => (A!Succeeded(d)' <=> A!Succeeded(d))
  BY <1>3 DEF A!Succeeded
<1>6. A!Succeeded(c)' => where = "ok" /\ a # NoOne
  BY <1>4 DEF A!Succeeded
<1>7. \A d \in Attempts :
        /\ accountsAt'[d] = "compare" => /\ form'[d].kind = "login" /\ account'[d] \in users'
                                         /\ account'[d].email = form'[d].email
        /\ accountsAt'[d] = "create" => form'[d].kind = "register" /\ A!CodeGiven(form[d])
        /\ accountsAt'[d] = "refused" => account'[d] = NoOne
        /\ A!Succeeded(d)' => /\ account'[d] \in users' /\ account'[d].email = form'[d].email
                              /\ account'[d].password = form'[d].password
  <2>. TAKE d \in Attempts
  <2>1. CASE d = c
    BY <1>1, <1>4, <1>6, <2>1
  <2>2. CASE d # c
    BY <1>1, <1>3, <1>5, <2>2 DEF AccountsInv, HandlersInv
  <2> QED
    BY <2>1, <2>2
<1>8. \A d, e \in Attempts :
        d # e /\ A!Succeeded(d)' /\ A!Succeeded(e)' /\ account'[d] = account'[e] =>
            "login" \in {form'[d].kind, form'[e].kind}
  <2>. SUFFICES ASSUME NEW d \in Attempts, NEW e \in Attempts, d # e, A!Succeeded(d)',
                       A!Succeeded(e)', account'[d] = account'[e]
                PROVE  "login" \in {form[d].kind, form[e].kind}
    BY <1>1
  <2>1. CASE d = c
    <3>1. A!Succeeded(e) /\ account'[e] = account[e]
      BY <1>3, <1>5, <2>1
    <3>2. account[e] \in users
      BY <3>1 DEF AccountsInv, HandlersInv
    <3> QED
      BY <1>4, <1>6, <2>1, <3>1, <3>2
  <2>2. CASE e = c
    <3>1. A!Succeeded(d) /\ account'[d] = account[d]
      BY <1>3, <1>5, <2>2
    <3>2. account[d] \in users
      BY <3>1 DEF AccountsInv, HandlersInv
    <3> QED
      BY <1>4, <1>6, <2>2, <3>1, <3>2
  <2>3. CASE d # c /\ e # c
    BY <1>3, <1>5, <2>3 DEF AccountsInv, HandlersInv
  <2> QED
    BY <2>1, <2>2, <2>3
<1>9. HandlersInv'
  BY <1>1, <1>7, <1>8 DEF HandlersInv, A!CodeGiven, A!Role
<1>10. BrowserInv'
  <2>1. \A b : Earned(b) => Earned(b)'
    BY <1>1, <1>3, EarnedStays
  <2> QED
    BY <1>1, <2>1 DEF AccountsInv, BrowserInv
<1> QED
  BY <1>2, <1>9, <1>10 DEF AccountsInv

\* An answer is taken, or a handler or its answer lost: nobody's account changes.
LEMMA AccountsEnds ==
  ASSUME AccountsInv, NEW c \in Attempts, NEW where \in {"taken", "lost"},
         accountsAt' = [accountsAt EXCEPT ![c] = where],
         accountsAt[c] \notin {"unused", "taken"},
         where = "taken" => accountsAt[c] \in {"ok", "refused"},
         UNCHANGED <<users, form, account>>, DOMAIN tab' = Tabs
  PROVE  AccountsTypes' /\ HandlersInv' /\ \A a : Earned(a) => Earned(a)'
<1>1. \A d \in Attempts : d # c => accountsAt'[d] = accountsAt[d]
  BY DEF AccountsInv, AccountsTypes
<1>2. accountsAt'[c] = where
  BY DEF AccountsInv, AccountsTypes
<1>3. \A d \in Attempts : A!Succeeded(d)' => A!Succeeded(d)
  BY <1>1, <1>2 DEF A!Succeeded, AccountsInv, HandlersInv
<1>4. AccountsTypes'
  BY DEF AccountsInv, AccountsTypes
<1>5. HandlersInv'
  BY <1>1, <1>2, <1>3 DEF AccountsInv, HandlersInv, A!CodeGiven, A!Role
<1>6. \A a : Earned(a) => Earned(a)'
  <2>1. \A d \in Attempts : accountsAt[d] = "taken" =>
            accountsAt'[d] = "taken" /\ account'[d] = account[d] /\ form'[d] = form[d]
    BY <1>1
  <2> QED
    BY <2>1, EarnedStays
<1> QED
  BY <1>4, <1>5, <1>6

\* Every step.
LEMMA AccountsStep == AccountsInv /\ [A!Next]_A!vars => AccountsInv'
<1>. SUFFICES ASSUME AccountsInv, [A!Next]_A!vars PROVE AccountsInv'
  OBVIOUS
<1>1. ASSUME NEW t \in Tabs, NEW f \in A!Forms, A!Submit(t, f) PROVE AccountsInv'
  BY <1>1, AccountsSent DEF A!Submit
<1>2. ASSUME NEW f \in A!Forms, A!Tap(f) PROVE AccountsInv'
  BY <1>2, AccountsSent DEF A!Tap
<1>3. ASSUME UNCHANGED <<users, accountsAt, form, account>>, BrowserInv' , DOMAIN tab' = Tabs
      PROVE  AccountsInv'
  BY <1>3 DEF AccountsInv, AccountsTypes, HandlersInv, A!Succeeded, A!CodeGiven, A!Role
<1>4. ASSUME UNCHANGED <<users, accountsAt, form, account>>
      PROVE  \A a : Earned(a)' <=> Earned(a)
  BY <1>4 DEF Earned
<1>5. ASSUME NEW t \in Tabs, A!Reload(t) PROVE AccountsInv'
  BY <1>3, <1>4, <1>5 DEF A!Reload, A!posts, AccountsInv, AccountsTypes, BrowserInv
<1>6. ASSUME NEW t \in Tabs, A!Logout(t) PROVE AccountsInv'
  BY <1>3, <1>4, <1>6 DEF A!Logout, A!posts, AccountsInv, AccountsTypes, BrowserInv
<1>7. ASSUME NEW t \in Tabs, A!Act(t) PROVE AccountsInv'
  BY <1>3, <1>4, <1>7 DEF A!Act, A!posts, A!clients, AccountsInv, AccountsTypes, BrowserInv
<1>8. CASE A!LogoutPhone
  BY <1>3, <1>4, <1>8 DEF A!LogoutPhone, A!posts, AccountsInv, AccountsTypes, BrowserInv
<1>9. ASSUME NEW c \in Attempts, A!FindUser(c) PROVE AccountsInv'
  BY <1>9, AccountsGoes DEF A!FindUser, A!Named, AccountsInv, AccountsTypes, HandlersInv
<1>10. ASSUME NEW c \in Attempts, A!Compare(c) PROVE AccountsInv'
  BY <1>10, AccountsGoes DEF A!Compare, AccountsInv, AccountsTypes, HandlersInv
<1>11. ASSUME NEW c \in Attempts, A!FindNone(c) PROVE AccountsInv'
  BY <1>11, AccountsGoes DEF A!FindNone, AccountsInv, AccountsTypes, HandlersInv
<1>12. ASSUME NEW c \in Attempts, A!Create(c) PROVE AccountsInv'
  <2>. DEFINE u == A!NewUser(form[c])
  <2>1. form[c] \in A!Forms /\ A!CodeGiven(form[c]) /\ accountsAt[c] = "create"
    BY <1>12 DEF A!Create, AccountsInv, AccountsTypes, HandlersInv
  <2>2. /\ u \in A!Users /\ u.email = form[c].email /\ u.password = form[c].password
        /\ u.role = "authority" => u.code
    BY <2>1 DEF A!NewUser, A!Users, A!Forms, A!Role, A!CodeGiven
  <2>. HIDE DEF u
  <2>3. CASE A!Goes(c, "refused", NoOne) /\ UNCHANGED users
    BY <2>1, <2>3, AccountsGoes DEF AccountsInv, AccountsTypes, HandlersInv
  <2>4. CASE A!Named(form[c]) = {} /\ A!Goes(c, "ok", u) /\ users' = users \cup {u}
    <3>1. \A v \in users : v.email # u.email
      BY <2>2, <2>4 DEF A!Named
    <3> QED
      BY <2>1, <2>2, <2>4, <3>1, AccountsGoes DEF AccountsInv, AccountsTypes, HandlersInv
  <2> QED
    BY <1>12, <2>3, <2>4 DEF A!Create, u
<1>13. ASSUME NEW c \in Attempts, A!Taken(c) PROVE AccountsInv'
  <2>1. AccountsTypes' /\ HandlersInv' /\ \A a : Earned(a) => Earned(a)'
    <3>1. DOMAIN tab' = Tabs
      BY <1>13 DEF A!Taken, AccountsInv, AccountsTypes
    <3> QED
      BY <1>13, <3>1, AccountsEnds DEF A!Taken
  <2>2. CASE form[c].by # Phone /\ accountsAt[c] = "ok" /\ A!Accepts(account[c])
    <3>. PICK a : a = account[c]
      OBVIOUS
    <3>1. form[c].by \in Tabs
      BY <1>13, <2>2 DEF A!Taken, AccountsInv, AccountsTypes, A!Forms, A!Clients
    <3>2. a # NoOne => a \in users
      BY <2>2 DEF AccountsInv, HandlersInv, A!Succeeded
    <3>3. accountsAt'[c] = "taken" /\ UNCHANGED <<users, form, account, acted>>
      BY <1>13 DEF A!Taken, AccountsInv, AccountsTypes
    <3>4. a # NoOne => Earned(a)'
      BY <2>2, <3>1, <3>2, <3>3 DEF Earned, A!Accepts
    <3>5. storage' = a /\ tab' = [tab EXCEPT ![form[c].by] = a]
      BY <1>13, <2>2 DEF A!Taken
    <3>6. \A t \in Tabs : tab'[t] \in {a, tab[t]}
      BY <3>5 DEF AccountsInv, AccountsTypes
    <3>7. \A b \in acted' \cup {storage'} \cup {tab'[t] : t \in Tabs} :
            b = a \/ b \in acted \cup {tab[t] : t \in Tabs}
      BY <3>3, <3>5, <3>6
    <3>8. BrowserInv'
      <4>. SUFFICES ASSUME NEW b \in acted' \cup {storage'} \cup {tab'[t] : t \in Tabs},
                           b # NoOne
                    PROVE  Earned(b)'
        BY DEF BrowserInv
      <4>1. CASE b = a
        BY <3>4, <4>1
      <4>2. CASE b \in acted \cup {tab[t] : t \in Tabs}
        <5>1. Earned(b)
          BY <4>2 DEF AccountsInv, BrowserInv
        <5> QED
          BY <2>1, <5>1
      <4> QED
        BY <3>7, <4>1, <4>2
    <3> QED
      BY <2>1, <3>8 DEF AccountsInv
  <2>3. CASE ~(form[c].by # Phone /\ accountsAt[c] = "ok" /\ A!Accepts(account[c]))
    <3>1. UNCHANGED <<storage, tab, acted>>
      BY <1>13, <2>3 DEF A!Taken
    <3> QED
      BY <2>1, <3>1 DEF AccountsInv, AccountsTypes, BrowserInv
  <2> QED
    BY <2>2, <2>3
<1>14. ASSUME NEW c \in Attempts, A!Lose(c) PROVE AccountsInv'
  <2>1. AccountsTypes' /\ HandlersInv' /\ \A a : Earned(a) => Earned(a)'
    BY <1>14, AccountsEnds DEF A!Lose, AccountsInv, AccountsTypes
  <2>2. UNCHANGED <<storage, tab, acted>>
    BY <1>14 DEF A!Lose
  <2> QED
    BY <2>1, <2>2 DEF AccountsInv, BrowserInv
<1>15. CASE UNCHANGED A!vars
  BY <1>3, <1>4, <1>15 DEF A!vars, AccountsInv, AccountsTypes, BrowserInv
<1> QED
  BY <1>1, <1>2, <1>5, <1>6, <1>7, <1>8, <1>9, <1>10, <1>11, <1>12, <1>13, <1>14, <1>15
  DEF A!Next

\* MCJourney takes the steps of Accounts in its part, and no others.
LEMMA AccountsPart ==
    /\ Init /\ part = "accounts" => A!Init
    /\ [Next]_vars => part' = part /\ (part = "accounts" => [A!Next]_A!vars)
BY DEF Init, Next, vars, accountsVars, A!vars

\* However many tabs, phones and accounts there are, and however their requests overlap,
\* nobody signs in as somebody else, no email has two accounts, and only an authority that
\* gave the invite code is shown, or served as, one.
THEOREM SignInsAreSound == Spec => [](part = "accounts" => A!SignInSound)
<1>1. Init => (part = "accounts" => AccountsInv)
  BY AccountsPart, AccountsInit
<1>2. (part = "accounts" => AccountsInv) /\ [Next]_vars => (part = "accounts" => AccountsInv)'
  BY AccountsPart, AccountsStep
<1>3. AccountsInv => A!SignInSound
  <2>. SUFFICES ASSUME AccountsInv PROVE A!SignInSound
    OBVIOUS
  <2>1. A!OwnAccount
    BY DEF AccountsInv, HandlersInv, A!OwnAccount
  <2>2. A!AuthorityEarned
    BY DEF AccountsInv, HandlersInv, BrowserInv, Earned, A!AuthorityEarned, A!Succeeded
  <2> QED
    BY <2>1, <2>2 DEF A!SignInSound
<1> QED
  BY <1>1, <1>2, <1>3, PTL DEF Spec

-----------------------------------------------------------------------------
(* ViolationList *)

\* Rows are numbered, their priorities are numbers, and pages have room.
ListBounds ==
    /\ Rows \subseteq Nat /\ IsFiniteSet(Rows) /\ Rank \in [Rows -> Int]
    /\ PerPage \in Nat \ {0} /\ None \notin Nat /\ None \notin Queries /\ Everything \in Queries

ListTypes ==
    /\ listRows \subseteq Rows /\ listPage \in Nat /\ dialog \in Rows \cup {None}
    /\ gets \in Nat /\ gets >= 1 /\ flying \subseteq Nat \X Queries
    /\ last \in Nat /\ last <= gets /\ shows \in Nat

\* The newest GET asks what the filters say, and so does what its answer put on display.
FlyingInv ==
    /\ \A g \in flying : g[1] <= gets /\ (g[1] = gets => g[2] = query)
    /\ last = gets => error \/ answered = query
    /\ ~loading => error \/ answered # None

PageInv == listPage = 1 \/ listPage \in 1..L!TotalPages

ListInv == ListTypes /\ FlyingInv /\ PageInv /\ L!PictureTold

\* In a finite strict order every place is taken: the elements before one are as many as
\* before no other.
LEMMA PlacesTaken ==
  ASSUME NEW S, IsFiniteSet(S), NEW Less \in SUBSET (S \X S),
         \A q, r \in S : <<q, r>> \in Less => <<r, q>> \notin Less,
         \A q, r, t \in S : <<q, r>> \in Less /\ <<r, t>> \in Less => <<q, t>> \in Less,
         \A q, r \in S : q # r => <<q, r>> \in Less \/ <<r, q>> \in Less
  PROVE  \A k \in 0..Cardinality(S) - 1 :
            \E r \in S : Cardinality({q \in S : <<q, r>> \in Less}) = k
<1>. DEFINE Under(r) == {q \in S : <<q, r>> \in Less}
            place == [r \in S |-> Cardinality(Under(r))]
            n == Cardinality(S)
<1>1. n \in Nat
  BY FS_CardinalityType
<1>2. \A r \in S : Under(r) \subseteq S /\ Under(r) # S
  OBVIOUS
<1>3. \A r \in S : IsFiniteSet(Under(r)) /\ Cardinality(Under(r)) \in Nat
  BY <1>2, FS_Subset, FS_CardinalityType
<1>4. \A r \in S : Cardinality(Under(r)) < n
  <2>. TAKE r \in S
  <2>1. Cardinality(Under(r)) <= n /\ (n = Cardinality(Under(r)) => S = Under(r))
    BY <1>2, FS_Subset
  <2>. HIDE DEF Under, n
  <2> QED
    BY <1>1, <1>2, <1>3, <2>1
<1>5. \A q, r \in S : <<q, r>> \in Less => Cardinality(Under(q)) < Cardinality(Under(r))
  <2>. SUFFICES ASSUME NEW q \in S, NEW r \in S, <<q, r>> \in Less
                PROVE  Cardinality(Under(q)) < Cardinality(Under(r))
    OBVIOUS
  <2>1. Under(q) \subseteq Under(r) /\ Under(q) # Under(r)
    OBVIOUS
  <2>2. /\ Cardinality(Under(q)) <= Cardinality(Under(r))
        /\ Cardinality(Under(r)) = Cardinality(Under(q)) => Under(r) = Under(q)
    BY <1>3, <2>1, FS_Subset
  <2>. HIDE DEF Under
  <2> QED
    BY <1>3, <2>1, <2>2
<1>. HIDE DEF Under
<1>6. place \in [S -> 0..n-1]
  BY <1>1, <1>3, <1>4
<1>7. \A q, r \in S : place[q] = place[r] => q = r
  <2>. SUFFICES ASSUME NEW q \in S, NEW r \in S, q # r PROVE place[q] # place[r]
    OBVIOUS
  <2>1. \/ Cardinality(Under(q)) < Cardinality(Under(r))
        \/ Cardinality(Under(r)) < Cardinality(Under(q))
    BY <1>5
  <2> QED
    BY <1>3, <2>1
<1>. HIDE DEF place
<1>8. place \in Injection(S, 0..n-1)
  BY <1>6, <1>7 DEF Injection, IsInjective
<1>9. IsFiniteSet(0..n-1) /\ Cardinality(0..n-1) = n
  <2>1. n - 1 \in Int
    BY <1>1
  <2>2. Cardinality(0..n-1) = IF 0 > n - 1 THEN 0 ELSE (n - 1) - 0 + 1
    BY <2>1, FS_Interval
  <2>3. IsFiniteSet(0..n-1)
    BY <2>1, FS_Interval
  <2> QED
    BY <1>1, <2>2, <2>3
<1>10. place \in Surjection(S, 0..n-1)
  BY <1>8, <1>9, FS_Injection
<1>11. \A k \in 0..n-1 : \E r \in S : place[r] = k
  BY <1>10 DEF Surjection
<1> QED
  BY <1>11 DEF Under, place

\* The list page counts as everybody does.
LEMMA Counts == \A S : L!Cardinality(S) = Cardinality(S)
BY DEF L!Cardinality, Cardinality

\* The order of the rows is one, so every place of the table has its row.
LEMMA RowsPlaced ==
  ASSUME ListBounds, ListTypes
  PROVE  /\ IsFiniteSet(L!Shown) /\ Cardinality(L!Shown) \in Nat
         /\ \A k \in 0..Cardinality(L!Shown) - 1 : \E r \in L!Shown : L!Place(r) = k
<1>. DEFINE S == L!Shown
            Less == {x \in S \X S : L!Before(x[1], x[2])}
<1>1. S \subseteq Rows
  BY DEF L!Shown, ListTypes
<1>2. IsFiniteSet(S) /\ Cardinality(S) \in Nat
  BY <1>1, FS_Subset, FS_CardinalityType DEF ListBounds
<1>3. \A q, r \in S : <<q, r>> \in Less <=> L!Before(q, r)
  OBVIOUS
<1>4. \A q, r \in Rows : q \in Int /\ r \in Int /\ Rank[q] \in Int /\ Rank[r] \in Int
  BY DEF ListBounds
<1>5. \A q, r \in Rows : L!Before(q, r) <=>
        \/ sort = "priority_desc" /\ (Rank[q] < Rank[r] \/ (Rank[q] = Rank[r] /\ q < r))
        \/ sort = "priority_asc" /\ (Rank[r] < Rank[q] \/ (Rank[q] = Rank[r] /\ q < r))
        \/ sort \notin {"priority_desc", "priority_asc"} /\ q < r
  BY <1>4 DEF L!Before
<1>6. \A q, r \in S : L!Before(q, r) => ~L!Before(r, q)
  BY <1>1, <1>4, <1>5
<1>7. \A q, r, t \in S : L!Before(q, r) /\ L!Before(r, t) => L!Before(q, t)
  BY <1>1, <1>4, <1>5
<1>8. \A q, r \in S : q # r => L!Before(q, r) \/ L!Before(r, q)
  BY <1>1, <1>4, <1>5
<1>9. \A r \in S : L!Place(r) = Cardinality({q \in S : <<q, r>> \in Less})
  <2>. TAKE r \in S
  <2>1. {q \in S : L!Before(q, r)} = {q \in S : <<q, r>> \in Less}
    BY <1>3
  <2> QED
    BY <2>1, Counts DEF L!Place
<1>10. Less \in SUBSET (S \X S)
  OBVIOUS
<1>. HIDE DEF S, Less
<1>11. \A k \in 0..Cardinality(S) - 1 :
         \E r \in S : Cardinality({q \in S : <<q, r>> \in Less}) = k
  BY <1>2, <1>3, <1>6, <1>7, <1>8, <1>10, PlacesTaken
<1> QED
  BY <1>2, <1>9, <1>11 DEF S

\* A page that is the first, or one of the pages, has rows if there are any.
LEMMA PagesExist == ListBounds /\ ListTypes /\ PageInv => L!PageExists
<1>. SUFFICES ASSUME ListBounds, ListTypes, PageInv PROVE L!PageExists
  OBVIOUS
<1>. DEFINE n == Cardinality(L!Shown)
<1>1. n \in Nat /\ PerPage \in Nat /\ PerPage > 0 /\ (L!Shown # {} => n > 0)
  BY RowsPlaced, FS_EmptySet DEF ListBounds
<1>2. CASE L!Shown = {} /\ listPage = 1
  BY <1>2 DEF L!PageExists
<1>3. ASSUME listPage \in Nat, 1 <= listPage, (listPage - 1) * PerPage < n
      PROVE  L!OnPage(listPage) # {}
  <2>. DEFINE k == (listPage - 1) * PerPage
  <2>1. k \in 0..n-1
    BY <1>1, <1>3
  <2>2. PICK r \in L!Shown : L!Place(r) = k
    BY <2>1, RowsPlaced
  <2>3. k \div PerPage = listPage - 1
    BY <1>1, <1>3
  <2> QED
    BY <2>2, <2>3 DEF L!OnPage
<1>4. CASE L!Shown # {} /\ listPage = 1
  <2>1. L!OnPage(listPage) # {}
    BY <1>1, <1>3, <1>4
  <2>2. 1 \in 1..L!TotalPages
    <3>1. (n + PerPage - 1) \div PerPage >= 1
      BY <1>1, <1>4
    <3> QED
      BY <1>1, <3>1, Counts DEF L!TotalPages
  <2> QED
    BY <1>4, <2>1, <2>2 DEF L!PageExists
<1>5. CASE listPage \in 1..L!TotalPages
  <2>1. (listPage - 1) * PerPage < n
    <3>. DEFINE m == (n + PerPage - 1) \div PerPage
    <3>1. m \in Nat /\ m * PerPage <= n + PerPage - 1
      BY <1>1
    <3>2. listPage \in Nat /\ 1 <= listPage /\ listPage <= m
      BY <1>5, <3>1, Counts DEF L!TotalPages
    <3>. HIDE DEF m
    <3>3. listPage * PerPage <= m * PerPage
      BY <1>1, <3>1, <3>2
    <3>4. (listPage - 1) * PerPage = listPage * PerPage - PerPage
      BY <1>1, <3>2
    <3> QED
      BY <1>1, <3>1, <3>2, <3>3, <3>4
  <2> QED
    BY <1>3, <1>5, <2>1 DEF L!PageExists, ListTypes
<1> QED
  BY <1>2, <1>4, <1>5 DEF PageInv

\* The first state.
LEMMA ListInit == ListBounds /\ L!Init => ListInv
BY DEF ListBounds, L!Init, ListInv, ListTypes, FlyingInv, PageInv, L!PictureTold

\* A dialog that stays has its row, and waits for what it waited for.
LEMMA DialogRedrawn ==
  ASSUME ListTypes, L!PictureTold, L!RowsRedrawn
  PROVE  L!PictureTold' /\ dialog' \in Rows \cup {None} /\ shows' = shows
<1>1. dialog' = IF dialog \in L!Mounted' THEN dialog ELSE None
  BY DEF L!RowsRedrawn
<1>2. asks' = {a \in asks : a[2] \in L!Mounted'} /\ UNCHANGED <<picture, listBroken, shows>>
  BY DEF L!RowsRedrawn
<1>3. L!PictureTold'
  <2>. SUFFICES ASSUME dialog' # None
                PROVE  /\ dialog' \in L!Mounted' /\ picture' \in {None, shows'}
                       /\ picture' = None /\ ~listBroken' => \E a \in asks' : a[2] = dialog'
    BY DEF L!PictureTold
  <2>1. dialog' = dialog /\ dialog \in L!Mounted'
    BY <1>1
  <2>2. /\ picture \in {None, shows}
        /\ picture = None /\ ~listBroken => \E a \in asks : a[2] = dialog
    BY <2>1 DEF L!PictureTold
  <2> QED
    BY <1>2, <2>1, <2>2
<1> QED
  BY <1>1, <1>2, <1>3 DEF ListTypes

\* Every step.
LEMMA ListStep == ListBounds /\ ListInv /\ [L!Next]_L!vars => ListInv'
<1>. SUFFICES ASSUME ListBounds, ListInv, [L!Next]_L!vars PROVE ListInv'
  OBVIOUS
<1>0. /\ ListTypes /\ FlyingInv /\ PageInv /\ L!PictureTold
      /\ \A q \in Queries : q # None
  BY DEF ListInv, ListBounds
<1>1. ASSUME NEW q \in Queries, L!Ask(q) PROVE ListInv'
  <2>1. /\ query' = q /\ listPage' = 1 /\ loading' = TRUE
        /\ gets' = gets + 1 /\ flying' = flying \cup {<<gets + 1, q>>}
        /\ UNCHANGED <<listRows, answered, error, last>>
    BY <1>1 DEF L!Ask, L!FirstPage
  <2>2. L!PictureTold' /\ dialog' \in Rows \cup {None} /\ shows' = shows
    BY <1>0, <1>1, DialogRedrawn DEF L!Ask
  <2>3. ListTypes' /\ FlyingInv'
    BY <1>0, <2>1, <2>2 DEF ListTypes, FlyingInv
  <2> QED
    BY <2>1, <2>2, <2>3 DEF ListInv, PageInv
<1>2. ASSUME L!RowsRedrawn, UNCHANGED <<query, listRows, answered, loading, error, gets, flying,
                                        last>>,
             listPage' \in Nat, PageInv'
      PROVE  ListInv'
  <2>1. L!PictureTold' /\ dialog' \in Rows \cup {None} /\ shows' = shows
    BY <1>0, <1>2, DialogRedrawn
  <2>2. ListTypes' /\ FlyingInv'
    BY <1>0, <1>2, <2>1 DEF ListTypes, FlyingInv
  <2> QED
    BY <1>2, <2>1, <2>2 DEF ListInv
<1>3. ASSUME NEW t \in TypesOffered \cup {None}, L!SetType(t) PROVE ListInv'
  BY <1>2, <1>3 DEF L!SetType, L!FirstPage, PageInv
<1>4. ASSUME NEW s \in Sorts \cup {None}, L!SetSort(s) PROVE ListInv'
  BY <1>2, <1>4 DEF L!SetSort, L!FirstPage, PageInv
<1>5. ASSUME NEW p \in 1..L!TotalPages, L!SetPage(p) PROVE ListInv'
  <2>1. L!TotalPages' = L!TotalPages
    BY <1>5 DEF L!SetPage, L!TotalPages, L!Shown
  <2>2. listPage' = p /\ p \in Nat
    BY <1>5 DEF L!SetPage
  <2>3. PageInv'
    BY <1>5, <2>1, <2>2 DEF PageInv
  <2> QED
    BY <1>2, <1>5, <2>2, <2>3 DEF L!SetPage
<1>6. ASSUME NEW g \in flying, L!Ends(g), L!RowsRedrawn,
             error' \/ (answered' = g[2] /\ g[2] \in Queries),
             listRows' \subseteq Rows, listPage' \in Nat, PageInv'
      PROVE  ListInv'
  <2>1. /\ flying' = flying \ {g} /\ last' = g[1] /\ loading' = FALSE
        /\ UNCHANGED <<query, gets>>
    BY <1>6 DEF L!Ends
  <2>2. L!PictureTold' /\ dialog' \in Rows \cup {None} /\ shows' = shows
    BY <1>0, <1>6, DialogRedrawn
  <2>3. g[1] \in Nat /\ g[1] <= gets /\ (g[1] = gets => g[2] = query)
    BY <1>0, <1>6 DEF ListTypes, FlyingInv
  <2>4. ListTypes' /\ FlyingInv'
    BY <1>0, <1>6, <2>1, <2>2, <2>3 DEF ListTypes, FlyingInv
  <2> QED
    BY <1>6, <2>2, <2>4 DEF ListInv
<1>7. ASSUME NEW g \in flying, NEW rs \in SUBSET Rows, L!Answer(g, rs) PROVE ListInv'
  <2>1. g[2] \in Queries
    BY <1>0, <1>7 DEF ListTypes
  <2> QED
    BY <1>6, <1>7, <2>1 DEF L!Answer, L!FirstPage, PageInv
<1>8. ASSUME NEW g \in flying, L!Fail(g) PROVE ListInv'
  <2>1. UNCHANGED <<listRows, answered, listPage, type>> /\ error' = TRUE
    BY <1>8 DEF L!Fail, L!Ends
  <2>2. PageInv'
    BY <1>0, <2>1 DEF PageInv, L!TotalPages, L!Shown
  <2> QED
    BY <1>0, <1>6, <1>8, <2>1, <2>2 DEF L!Fail, ListTypes
<1>9. ASSUME UNCHANGED L!listVars, dialog' \in Rows \cup {None}, shows' \in Nat, L!PictureTold'
      PROVE  ListInv'
  <2>1. UNCHANGED <<query, type, listRows, answered, listPage, loading, error, gets, flying, last>>
    BY <1>9 DEF L!listVars
  <2>2. PageInv'
    BY <1>0, <2>1 DEF PageInv, L!TotalPages, L!Shown
  <2>3. ListTypes' /\ FlyingInv'
    BY <1>0, <1>9, <2>1 DEF ListTypes, FlyingInv
  <2> QED
    BY <1>9, <2>2, <2>3 DEF ListInv
<1>10. UNCHANGED L!listVars => L!Mounted' = L!Mounted
  BY DEF L!listVars, L!Mounted, L!OnPage, L!Place, L!Shown, L!Before
<1>11. ASSUME NEW r \in Rows, L!Show(r) PROVE ListInv'
  <2>1. /\ r \in L!Mounted' /\ dialog' = r /\ picture' = None /\ shows' = shows + 1
        /\ <<shows + 1, r>> \in asks'
    BY <1>10, <1>11 DEF L!Show
  <2>2. L!PictureTold'
    BY <2>1 DEF L!PictureTold
  <2> QED
    BY <1>0, <1>9, <1>11, <2>1, <2>2 DEF L!Show, ListTypes
<1>12. CASE L!Close
  <2>1. dialog' = None /\ shows' = shows
    BY <1>12 DEF L!Close
  <2>2. L!PictureTold'
    BY <2>1 DEF L!PictureTold
  <2> QED
    BY <1>0, <1>9, <1>12, <2>1, <2>2 DEF L!Close, ListTypes
<1>13. ASSUME NEW a \in asks, L!PictureComes(a) PROVE ListInv'
  <2>1. UNCHANGED <<dialog, shows>> /\ asks' = asks \ {a} /\ L!Mounted' = L!Mounted
    BY <1>10, <1>13 DEF L!PictureComes
  <2>2. CASE dialog = a[2]
    <3>1. picture' \in {picture, shows} /\ (picture' = shows \/ listBroken')
      BY <1>13, <2>2 DEF L!PictureComes
    <3>2. shows # None
      BY <1>0 DEF ListTypes, ListBounds
    <3>3. L!PictureTold'
      BY <1>0, <2>1, <3>1, <3>2 DEF L!PictureTold
    <3> QED
      BY <1>0, <1>9, <1>13, <2>1, <3>3 DEF L!PictureComes, ListTypes
  <2>3. CASE dialog # a[2]
    <3>1. UNCHANGED <<picture, listBroken>>
      BY <1>13, <2>3 DEF L!PictureComes
    <3>2. L!PictureTold'
      BY <1>0, <2>1, <2>3, <3>1 DEF L!PictureTold
    <3> QED
      BY <1>0, <1>9, <1>13, <2>1, <3>2 DEF L!PictureComes, ListTypes
  <2> QED
    BY <2>2, <2>3
<1>14. CASE UNCHANGED L!vars
  <2>1. UNCHANGED L!listVars /\ UNCHANGED <<dialog, picture, listBroken, shows, asks>>
    BY <1>14 DEF L!vars, L!listVars
  <2>2. L!PictureTold'
    BY <1>0, <1>10, <2>1 DEF L!PictureTold
  <2> QED
    BY <1>0, <1>9, <2>1, <2>2 DEF ListTypes
<1>15. L!Clear \/ (\E q \in Queries : L!SetQuery(q)) => ListInv'
  <2>1. Everything \in Queries
    BY DEF ListBounds
  <2> QED
    BY <1>1, <2>1 DEF L!Clear, L!SetQuery
<1> QED
  BY <1>3, <1>4, <1>5, <1>7, <1>8, <1>11, <1>12, <1>13, <1>14, <1>15 DEF L!Next

\* MCJourney takes the steps of ViolationList in its part, and no others.
LEMMA ListPart ==
    /\ Init /\ part = "list" => L!Init
    /\ [Next]_vars => part' = part /\ (part = "list" => [L!Next]_L!vars)
BY DEF Init, Next, vars, listVars, L!vars

\* However many rows, pages, filters and answers there are, the list shows what was asked
\* for last, a page that exists, and in a dialog the picture of its own row.
THEOREM ListIsSound == ListBounds /\ Spec => [](part = "list" => L!ListSound)
<1>. SUFFICES ASSUME ListBounds PROVE Spec => [](part = "list" => L!ListSound)
  OBVIOUS
<1>1. Init => (part = "list" => ListInv)
  BY ListPart, ListInit
<1>2. (part = "list" => ListInv) /\ [Next]_vars => (part = "list" => ListInv)'
  BY ListPart, ListStep
<1>3. ListInv => L!ListSound
  BY PagesExist DEF ListInv, FlyingInv, L!ListSound, L!ListTold
<1> QED
  BY <1>1, <1>2, <1>3, PTL DEF Spec

\* Both pages of the portal: who signs in is who they say, and the list tells the truth.
THEOREM PortalIsSound == ListBounds /\ Spec => []PortalSound
<1>1. (part = "accounts" => A!SignInSound) /\ (part = "list" => L!ListSound) => PortalSound
  BY DEF PortalSound
<1> QED
  BY <1>1, SignInsAreSound, ListIsSound, PTL

=============================================================================
