---------------------------- MODULE UploadProofs ----------------------------
(***************************************************************************)
(* Theorems about Upload, for any number of files, attempts and faults.     *)
(* TypeCorrect holds whatever of an abandoned call still happens;           *)
(* NeverRefused needs that a request under way ends with its call           *)
(* (Late # "late"), while handlers that run may outlive it.  PromptInv says  *)
(* what else holds until one does: the backend then only works for the        *)
(* phone's current call, on which most of what MCUpload promises rests.       *)
(***************************************************************************)
EXTENDS MCUpload, TLAPS

\* How far the PUTs are.
SentInv ==
    /\ phone = "init" => sent = 0
    /\ phone = "put" => sent < NFiles

\* A complete handler that goes on has found a document.
FoundInv == \A n \in Attempts :
    comp[n] \in {"head", "queue", "reject"} => seen[<<"comp", n>>][1] # 0

TInv == TypeOK /\ SentInv /\ FoundInv

\* Only the current attempt has a request under way, and later ones have none.
UnderWayInv == \A n \in Attempts :
    /\ init[n] = "sent" => n = attempt /\ phone = "init"
    /\ comp[n] = "sent" => n = attempt /\ phone = "complete"
    /\ n > attempt => init[n] = "none" /\ comp[n] = "none"
    /\ comp[n] # "none" => init[n] = "ok"

\* What a handler found is older than what its attempt creates.
AgeInv ==
    /\ drive[1] <= attempt /\ claim <= attempt
    /\ \A n \in Attempts :
         /\ seen[<<"init", n>>][1] < n
         /\ seen[<<"comp", n>>][1] <= n
         /\ (drive[1] = n \/ claim = n) => init[n] = "ok"

\* The current attempt's drive is the session's, and only its own complete and
\* then the worker change it.
OwnInv ==
    attempt > 0 /\ init[attempt] = "ok" =>
        /\ drive[1] = attempt
        /\ comp[attempt] = "ok" => St \in Accepted
        /\ comp[attempt] # "ok" => St \in {"created", "rejected"} /\ claim # attempt
        /\ comp[attempt] \in {"none", "sent", "head", "queue", "reject"} => St = "created"
        /\ comp[attempt] \in {"head", "queue", "reject"} =>
              seen[<<"comp", attempt>>] = <<attempt, "created">>

\* Where the phone is in its attempt.
PhoneInv ==
    /\ phone # "idle" \/ folder \in {"flagged", "swept"} => attempt > 0
    /\ phone \in {"init", "put"} => comp[attempt] = "none"
    /\ phone = "put" => init[attempt] = "ok"
    /\ phone = "mark" => comp[attempt] = "ok"
    /\ folder # "kept" => phone = "idle"
    /\ folder \in {"flagged", "swept"} => comp[attempt] = "ok"

OrderInv == UnderWayInv /\ AgeInv /\ OwnInv /\ PhoneInv

-----------------------------------------------------------------------------
\* The initial state.
LEMMA InitTInv == Init => TInv
<1>. SUFFICES ASSUME Init PROVE TInv
  OBVIOUS
<1>. USE ConstantsOK DEF Init
<1>1. NoDrive \in DriveDoc
  BY DEF DriveDoc
<1>2. TypeOK
  <2>1. heads \in [Attempts -> 1..(NFiles + 1)]
    OBVIOUS
  <2>2. seen \in [{"init", "comp"} \X Attempts -> DriveDoc] /\ drive \in DriveDoc
    BY <1>1
  <2>3. init \in [Attempts -> {"none", "sent", "clean", "delete", "guard", "create",
                              "ok", "error", "gone"}]
    OBVIOUS
  <2>4. comp \in [Attempts -> {"none", "sent", "head", "queue", "reject", "purge",
                              "ok", "error", "gone"}]
    OBVIOUS
  <2>5. /\ phone = "idle" /\ shown = "nothing" /\ folder = "kept" /\ stored = {}
        /\ attempt \in 0..MaxAttempts /\ claim \in 0..MaxAttempts
        /\ sent \in 0..NFiles /\ faults \in 0..MaxFaults
    OBVIOUS
  <2>6. evidence \in BOOLEAN /\ work \in {"claimed", "fetched", "shipped"}
    BY Zenon
  <2>. HIDE DEF Init
  <2> QED
    BY <2>1, <2>2, <2>3, <2>4, <2>5, <2>6 DEF TypeOK
<1>3. SentInv /\ FoundInv
  BY DEF SentInv, FoundInv
<1> QED
  BY <1>2, <1>3 DEF TInv

\* Clearing the prefix, done or failed, keeps the types.
LEMMA PrefixStep ==
  ASSUME TypeOK, DeletePrefix
  PROVE  stored' \subseteq Files /\ evidence' \in BOOLEAN /\ faults' \in 0..MaxFaults
<1>. USE ConstantsOK DEF TypeOK
<1>1. CASE stored' = {} /\ evidence' = FALSE /\ UNCHANGED faults
  BY <1>1
<1>2. CASE UNCHANGED bucket /\ Fault
  BY <1>2 DEF bucket, Fault
<1> QED
  BY <1>1, <1>2 DEF DeletePrefix

\* A step keeps the types.
LEMMA TypeStep == TInv /\ [Next]_vars => TypeOK'
<1>. SUFFICES ASSUME TInv, [Next]_vars PROVE TypeOK'
  OBVIOUS
<1>. USE ConstantsOK DEF TInv, TypeOK, SentInv, FoundInv, Attempts, Files, DriveDoc,
    NoDrive, Status, Id, St,    worker, app, serving, bucket
<1>1. ASSUME Start PROVE TypeOK'
  BY <1>1 DEF Start, InitTo
<1>2. ASSUME InitAnswered PROVE TypeOK'
  BY <1>2 DEF InitAnswered
<1>3. ASSUME PutFile PROVE TypeOK'
  BY <1>3 DEF PutFile, AfterPuts, CompTo
<1>4. ASSUME CompleteAnswered PROVE TypeOK'
  BY <1>4 DEF CompleteAnswered
<1>5. ASSUME MarkUploaded PROVE TypeOK'
  BY <1>5 DEF MarkUploaded
<1>6. ASSUME CallDies PROVE TypeOK'
  BY <1>6 DEF CallDies
<1>7. ASSUME NEW n \in Attempts, InitFind(n) PROVE TypeOK'
  BY <1>7 DEF InitFind, InitTo, Refuses
<1>8. ASSUME NEW n \in Attempts, InitClean(n) PROVE TypeOK'
  <2>1. stored' \subseteq Files /\ evidence' \in BOOLEAN /\ faults' \in 0..MaxFaults
    BY <1>8, PrefixStep DEF InitClean
  <2> QED
    BY <1>8, <2>1 DEF InitClean, InitTo
<1>9. ASSUME NEW n \in Attempts, InitDelete(n) PROVE TypeOK'
  BY <1>9 DEF InitDelete, FoundDocument, InitTo
<1>10. ASSUME NEW n \in Attempts, InitGuard(n) PROVE TypeOK'
  <2>1. CASE InitTo(n, "create") /\ UNCHANGED faults
    BY <1>10, <2>1 DEF InitGuard, InitTo
  <2>2. CASE InitTo(n, "error") /\ Fault
    BY <1>10, <2>2 DEF InitGuard, InitTo, Fault
  <2> QED
    BY <1>10, <2>1, <2>2 DEF InitGuard
<1>11. ASSUME NEW n \in Attempts, InitCreate(n) PROVE TypeOK'
  BY <1>11 DEF InitCreate, InitTo
<1>12. ASSUME NEW n \in Attempts, CompFind(n) PROVE TypeOK'
  BY <1>12 DEF CompFind, CompTo
<1>13. ASSUME NEW n \in Attempts, CompHead(n) PROVE TypeOK'
  <2>1. CASE heads[n] \notin stored
    BY <1>13, <2>1 DEF CompHead, CompTo
  <2>2. CASE heads[n] \in stored
    <3>1. heads[n] + 1 \in 1..(NFiles + 1)
      BY <2>2
    <3>2. comp' \in [Attempts -> {"none", "sent", "head", "queue", "reject", "purge",
                                  "ok", "error", "gone"}]
      BY <1>13, <2>2 DEF CompHead, CompTo
    <3> QED
      BY <1>13, <2>2, <3>1, <3>2 DEF CompHead
  <2> QED
    BY <2>1, <2>2
<1>14. ASSUME NEW n \in Attempts, CompQueue(n) PROVE TypeOK'
  BY <1>14 DEF CompQueue, Save, Gone, CompTo
<1>15. ASSUME NEW n \in Attempts, CompReject(n) PROVE TypeOK'
  BY <1>15 DEF CompReject, Save, Gone, CompTo
<1>16. ASSUME NEW n \in Attempts, CompPurge(n) PROVE TypeOK'
  <2>1. stored' \subseteq Files /\ evidence' \in BOOLEAN /\ faults' \in 0..MaxFaults
    BY <1>16, PrefixStep DEF CompPurge
  <2> QED
    BY <1>16, <2>1 DEF CompPurge, CompTo
<1>17. ASSUME PutFails PROVE TypeOK'
  BY <1>17 DEF PutFails, Fault
<1>18. ASSUME CallFails PROVE TypeOK'
  BY <1>18 DEF CallFails, Fault, Abandoned, Running
<1>19. ASSUME Killed PROVE TypeOK'
  BY <1>19 DEF Killed, Fault, Abandoned, Running
<1>20. ASSUME Sweep PROVE TypeOK'
  BY <1>20 DEF Sweep
<1>21. ASSUME Restart PROVE TypeOK'
  BY <1>21 DEF Restart, Fault, Running
<1>22. ASSUME NEW n \in Attempts, RequestLost(n) PROVE TypeOK'
  <2>1. CASE InitTo(n, "gone") /\ UNCHANGED comp
    BY <1>22, <2>1 DEF RequestLost, Fault, InitTo
  <2>2. CASE CompTo(n, "gone") /\ UNCHANGED init
    BY <1>22, <2>2 DEF RequestLost, Fault, CompTo
  <2> QED
    BY <1>22, <2>1, <2>2 DEF RequestLost
<1>23. ASSUME WorkerClaims PROVE TypeOK'
  <2>1. drive[1] \in Attempts
    BY <1>23 DEF WorkerClaims
  <2>2. drive' \in DriveDoc /\ claim' \in 0..MaxAttempts
    BY <1>23, <2>1 DEF WorkerClaims
  <2> QED
    BY <1>23, <2>2 DEF WorkerClaims
<1>24. ASSUME WorkerDownloads PROVE TypeOK'
  BY <1>24 DEF WorkerDownloads
<1>25. ASSUME WorkerShips PROVE TypeOK'
  BY <1>25 DEF WorkerShips
<1>26. ASSUME WorkerReports PROVE TypeOK'
  <2>1. claim \in Attempts
    BY <1>26 DEF WorkerReports
  <2>2. PICK result \in Reports :
            /\ drive' = IF Id = claim THEN <<Id, result>> ELSE drive
            /\ stored' = IF Id = claim /\ PurgedAfter(result) THEN {} ELSE stored
    BY <1>26 DEF WorkerReports
  <2>3. drive' \in DriveDoc
    BY <2>1, <2>2 DEF Reports
  <2>4. stored' \subseteq Files
    BY <2>2
  <2>5. UNCHANGED <<app, serving, evidence, faults>> /\ claim' \in 0..MaxAttempts
    BY <1>26 DEF WorkerReports
  <2>6. work' \in {"claimed", "fetched", "shipped"}
    BY <1>26, Zenon DEF WorkerReports
  <2> QED
    BY <2>3, <2>4, <2>5, <2>6
<1>27. CASE UNCHANGED vars
  BY <1>27 DEF vars
<1> QED
  BY <1>1, <1>2, <1>3, <1>4, <1>5, <1>6, <1>7, <1>8, <1>9, <1>10, <1>11, <1>12, <1>13,
     <1>14, <1>15, <1>16, <1>17, <1>18, <1>19, <1>20, <1>21, <1>22, <1>23, <1>24, <1>25,
     <1>26, <1>27
  DEF Next, Upload, InitHandler, CompHandler, Environment

\* A step keeps the count of PUTs.
LEMMA SentStep == TInv /\ [Next]_vars => SentInv'
<1>. SUFFICES ASSUME TInv, [Next]_vars PROVE SentInv'
  OBVIOUS
<1>. USE ConstantsOK DEF TInv, TypeOK, SentInv, FoundInv, Attempts, Files, DriveDoc,
    NoDrive, worker, app, serving, bucket
<1>1. ASSUME Start PROVE SentInv'
  BY <1>1 DEF Start
<1>2. ASSUME InitAnswered PROVE SentInv'
  BY <1>2 DEF InitAnswered
<1>3. ASSUME PutFile PROVE SentInv'
  BY <1>3 DEF PutFile, AfterPuts
<1>4. CASE CompleteAnswered \/ MarkUploaded \/ CallDies \/ PutFails \/ CallFails \/ Killed
       \/ Sweep \/ Restart \/ WorkerClaims \/ WorkerDownloads \/ WorkerShips
       \/ WorkerReports \/ UNCHANGED vars
  BY <1>4 DEF CompleteAnswered, MarkUploaded, CallDies, PutFails, CallFails, Killed, Sweep,
              Restart, WorkerClaims, WorkerDownloads, WorkerShips, WorkerReports, vars
<1>5. ASSUME NEW n \in Attempts, InitHandler(n) \/ CompHandler(n) \/ RequestLost(n) PROVE SentInv'
  BY <1>5 DEF InitHandler, InitFind, InitClean, InitDelete, InitGuard, InitCreate, CompHandler,
              CompFind, CompHead, CompQueue, CompReject, CompPurge, RequestLost
<1> QED
  BY <1>1, <1>2, <1>3, <1>4, <1>5
  DEF Next, Upload, InitHandler, CompHandler, Environment

\* A handler goes on only after it found a document.
LEMMA FoundStep == TInv /\ [Next]_vars => FoundInv'
<1>. SUFFICES ASSUME TInv, [Next]_vars PROVE FoundInv'
  OBVIOUS
<1>. USE ConstantsOK DEF TInv, TypeOK, SentInv, FoundInv, Attempts, Files, DriveDoc,
    NoDrive, worker, app, serving, bucket
<1>1. ASSUME PutFile PROVE FoundInv'
  BY <1>1 DEF PutFile, AfterPuts, CompTo
<1>2. ASSUME NEW n \in Attempts, InitFind(n) PROVE FoundInv'
  BY <1>2 DEF InitFind
<1>3. ASSUME NEW n \in Attempts, CompFind(n) PROVE FoundInv'
  BY <1>3 DEF CompFind, CompTo
<1>4. ASSUME NEW n \in Attempts, CompHead(n) PROVE FoundInv'
  BY <1>4 DEF CompHead, CompTo
<1>5. ASSUME NEW n \in Attempts, CompQueue(n) PROVE FoundInv'
  BY <1>5 DEF CompQueue, CompTo
<1>6. ASSUME NEW n \in Attempts, CompReject(n) PROVE FoundInv'
  BY <1>6 DEF CompReject, CompTo
<1>7. ASSUME NEW n \in Attempts, CompPurge(n) PROVE FoundInv'
  BY <1>7 DEF CompPurge, CompTo
<1>8. ASSUME Restart PROVE FoundInv'
  BY <1>8 DEF Restart, Running
<1>9. CASE Start \/ InitAnswered \/ CompleteAnswered \/ MarkUploaded \/ CallDies \/ PutFails
       \/ CallFails \/ Killed \/ Sweep \/ WorkerClaims \/ WorkerDownloads \/ WorkerShips
       \/ WorkerReports \/ UNCHANGED vars
  BY <1>9 DEF Start, InitAnswered, CompleteAnswered, MarkUploaded, CallDies, PutFails, CallFails,
              Killed, Sweep, WorkerClaims, WorkerDownloads, WorkerShips, WorkerReports, vars
<1>10. ASSUME NEW n \in Attempts,
              InitClean(n) \/ InitDelete(n) \/ InitGuard(n) \/ InitCreate(n) \/ RequestLost(n)
       PROVE  FoundInv'
  BY <1>10 DEF InitClean, InitDelete, InitGuard, InitCreate, RequestLost, CompTo
<1> QED
  BY <1>1, <1>2, <1>3, <1>4, <1>5, <1>6, <1>7, <1>8, <1>9, <1>10
  DEF Next, Upload, InitHandler, CompHandler, Environment

-----------------------------------------------------------------------------
\* What the order of events is argued from: the types of what it is about.
StateTypes ==
    /\ attempt \in 0..MaxAttempts /\ claim \in 0..MaxAttempts
    /\ init \in [Attempts -> {"none", "sent", "clean", "delete", "guard", "create",
                              "ok", "error", "gone"}]
    /\ comp \in [Attempts -> {"none", "sent", "head", "queue", "reject", "purge",
                              "ok", "error", "gone"}]
    /\ seen \in [{"init", "comp"} \X Attempts -> DriveDoc]
    /\ drive \in DriveDoc

\* What a step does to the attempt, the worker's claim, ...
LEMMA ClaimMoves ==
  ASSUME TInv, [Next]_vars
  PROVE  /\ attempt' \in {attempt, attempt + 1}
         /\ claim' \in {claim, 0, drive[1]}
<1>. USE DEF worker, app, serving, bucket
<1>1. CASE Upload
  BY <1>1 DEF Upload, Start, InitAnswered, PutFile, CompleteAnswered, MarkUploaded, CallDies
<1>2. ASSUME NEW n \in Attempts, InitHandler(n) PROVE UNCHANGED <<attempt, claim>>
  BY <1>2 DEF InitHandler, InitFind, InitClean, InitDelete, InitGuard, InitCreate
<1>3. ASSUME NEW n \in Attempts, CompHandler(n) PROVE UNCHANGED <<attempt, claim>>
  BY <1>3 DEF CompHandler, CompFind, CompHead, CompQueue, CompReject, CompPurge
<1>4. CASE Environment
  BY <1>4 DEF Environment, PutFails, CallFails, Killed, Sweep, Restart, RequestLost,
              WorkerClaims, WorkerDownloads, WorkerShips, WorkerReports, Id
<1>5. CASE UNCHANGED vars
  BY <1>5 DEF vars
<1> QED
  BY <1>1, <1>2, <1>3, <1>4, <1>5 DEF Next

\* ... an init that succeeded, ...
LEMMA InitMoves ==
  ASSUME TInv, [Next]_vars, NEW n \in Attempts, init[n] = "ok"
  PROVE  init'[n] = "ok" \/ (attempt' = n /\ attempt # n)
<1>. USE ConstantsOK DEF worker, app, serving, bucket, InitTo, CompTo, TInv, TypeOK, Attempts
<1>1. CASE Upload
  BY <1>1 DEF Upload, Start, InitAnswered, PutFile, CompleteAnswered, MarkUploaded, CallDies
<1>2. ASSUME NEW m \in Attempts, InitHandler(m) PROVE init'[n] = "ok"
  BY <1>2 DEF InitHandler, InitFind, InitClean, InitDelete, InitGuard, InitCreate
<1>3. ASSUME NEW m \in Attempts, CompHandler(m) PROVE init' = init
  BY <1>3 DEF CompHandler, CompFind, CompHead, CompQueue, CompReject, CompPurge
<1>4. CASE Environment
  BY <1>4 DEF Environment, PutFails, CallFails, Killed, Sweep, Restart, Running,
              RequestLost, WorkerClaims, WorkerDownloads, WorkerShips, WorkerReports, Id
<1>5. CASE UNCHANGED vars
  BY <1>5 DEF vars
<1> QED
  BY <1>1, <1>2, <1>3, <1>4, <1>5 DEF Next

\* ... the drive the session has, ...
LEMMA DriveMoves ==
  ASSUME TInv, [Next]_vars
  PROVE  \/ drive'[1] \in {drive[1], 0}
         \/ \E n \in Attempts : init[n] = "create" /\ init'[n] = "ok" /\ drive'[1] = n
<1>. USE ConstantsOK DEF worker, app, serving, bucket, InitTo, CompTo, TInv, TypeOK,
    Attempts, Id, NoDrive
<1>1. CASE Upload
  BY <1>1 DEF Upload, Start, InitAnswered, PutFile, CompleteAnswered, MarkUploaded, CallDies
<1>2. ASSUME NEW m \in Attempts, InitHandler(m)
      PROVE  \/ drive'[1] \in {drive[1], 0}
             \/ init[m] = "create" /\ init'[m] = "ok" /\ drive'[1] = m
  BY <1>2 DEF InitHandler, InitFind, InitClean, InitDelete, InitGuard, InitCreate
<1>3. ASSUME NEW m \in Attempts, CompHandler(m) PROVE drive'[1] = drive[1]
  BY <1>3 DEF CompHandler, CompFind, CompHead, CompQueue, CompReject, CompPurge, Save
<1>4. CASE Environment
  BY <1>4 DEF Environment, PutFails, CallFails, Killed, Sweep, Restart, Running,
              RequestLost, WorkerClaims, WorkerDownloads, WorkerShips, WorkerReports, Id
<1>5. CASE UNCHANGED vars
  BY <1>5 DEF vars
<1> QED
  BY <1>1, <1>2, <1>3, <1>4, <1>5 DEF Next

\* ... and what handlers found.
LEMMA SeenMoves ==
  ASSUME TInv, [Next]_vars, NEW n \in Attempts
  PROVE  /\ \/ seen'[<<"init", n>>] = seen[<<"init", n>>]
            \/ seen'[<<"init", n>>] = drive /\ init[n] = "sent"
         /\ \/ seen'[<<"comp", n>>] = seen[<<"comp", n>>]
            \/ seen'[<<"comp", n>>] = drive /\ comp[n] = "sent"
<1>. USE DEF worker, app, serving, bucket
<1>. DOMAIN seen = {"init", "comp"} \X Attempts
  BY DEF TInv, TypeOK
<1>1. CASE Upload
  BY <1>1 DEF Upload, Start, InitAnswered, PutFile, CompleteAnswered, MarkUploaded, CallDies
<1>2. ASSUME NEW m \in Attempts, InitHandler(m)
      PROVE  \/ UNCHANGED seen
             \/ init[m] = "sent" /\ seen' = [seen EXCEPT ![<<"init", m>>] = drive]
  BY <1>2 DEF InitHandler, InitFind, InitClean, InitDelete, InitGuard, InitCreate
<1>3. ASSUME NEW m \in Attempts, CompHandler(m)
      PROVE  \/ UNCHANGED seen
             \/ comp[m] = "sent" /\ seen' = [seen EXCEPT ![<<"comp", m>>] = drive]
  BY <1>3 DEF CompHandler, CompFind, CompHead, CompQueue, CompReject, CompPurge
<1>4. CASE Environment
  BY <1>4 DEF Environment, PutFails, CallFails, Killed, Sweep, Restart, RequestLost,
              WorkerClaims, WorkerDownloads, WorkerShips, WorkerReports
<1>5. CASE \E m \in Attempts : InitHandler(m)
  BY <1>2, <1>5
<1>6. CASE \E m \in Attempts : CompHandler(m)
  BY <1>3, <1>6
<1>7. CASE UNCHANGED vars
  BY <1>7 DEF vars
<1> QED
  BY <1>1, <1>4, <1>5, <1>6, <1>7 DEF Next

\* The numbers drives have are the attempts that created them.
LEMMA Numbers ==
  ASSUME TInv
  PROVE  /\ attempt \in 0..MaxAttempts /\ claim \in 0..MaxAttempts
         /\ drive[1] \in 0..MaxAttempts
         /\ \A n \in Attempts : /\ seen[<<"init", n>>][1] \in 0..MaxAttempts
                                /\ seen[<<"comp", n>>][1] \in 0..MaxAttempts
  BY ConstantsOK DEF TInv, TypeOK, DriveDoc, NoDrive, Attempts

\* A step keeps the order of what handlers found and what attempts create.
LEMMA AgeStep ==
  ASSUME TInv, OrderInv, [Next]_vars
  PROVE  AgeInv'
<1>. UnderWayInv /\ AgeInv
  BY DEF OrderInv
<1>. USE ConstantsOK, Numbers, ClaimMoves DEF Attempts
<1>1. drive'[1] <= attempt' /\ claim' <= attempt'
  BY DriveMoves DEF UnderWayInv, AgeInv
<1>2. ASSUME NEW n \in Attempts
      PROVE  seen'[<<"init", n>>][1] < n /\ seen'[<<"comp", n>>][1] <= n
  <2>1. init[n] = "sent" \/ comp[n] = "sent" => n = attempt
    BY DEF UnderWayInv
  <2>2. init[n] = "sent" => drive[1] <= n /\ drive[1] # n
    BY <2>1 DEF AgeInv
  <2>3. comp[n] = "sent" => drive[1] <= n
    BY <2>1 DEF AgeInv
  <2> QED
    BY <2>2, <2>3, SeenMoves DEF AgeInv
<1>3. ASSUME NEW n \in Attempts, drive'[1] = n \/ claim' = n
      PROVE  init'[n] = "ok"
  <2>1. CASE drive[1] = n \/ claim = n
    <3>1. init[n] = "ok" /\ n <= attempt
      BY <2>1 DEF AgeInv
    <3> QED
      BY <3>1, InitMoves
  <2>2. CASE drive[1] # n /\ claim # n
    BY <1>3, <2>2, DriveMoves
  <2> QED
    BY <2>1, <2>2
<1> QED
  BY <1>1, <1>2, <1>3 DEF AgeInv

\* A handler is of the current attempt or of an earlier one, and what it found is
\* not the current attempt's drive, unless it is that attempt's complete.
LEMMA Older ==
  ASSUME TInv, OrderInv, NEW n \in Attempts
  PROVE  /\ init[n] # "none" => n <= attempt
         /\ n <= attempt => seen[<<"init", n>>][1] < attempt
         /\ n < attempt => seen[<<"comp", n>>][1] < attempt
<1>. UnderWayInv /\ AgeInv /\ n \in Nat
  BY ConstantsOK DEF OrderInv, Attempts
<1>1. init[n] # "none" => n <= attempt
  BY Numbers DEF UnderWayInv
<1>2. seen[<<"init", n>>][1] < n /\ seen[<<"comp", n>>][1] <= n
  BY DEF AgeInv
<1> QED
  BY <1>1, <1>2, Numbers, ConstantsOK DEF Attempts

\* A step leaves no request under way but the current attempt's.
LEMMA UnderWayStep ==
  ASSUME Late # "late", TInv, OrderInv, [Next]_vars
  PROVE  UnderWayInv'
<1>. USE ConstantsOK DEF OrderInv, Attempts, DriveDoc, NoDrive, Status, Id,
    worker, app, serving, bucket, UnderWayInv, PhoneInv, StateTypes
<1>. StateTypes
  BY DEF TInv, TypeOK
<1>1. ASSUME Start PROVE UnderWayInv'
  BY <1>1 DEF Start, InitTo
<1>2. ASSUME InitAnswered PROVE UnderWayInv'
  BY <1>2 DEF InitAnswered
<1>3. ASSUME PutFile PROVE UnderWayInv'
  BY <1>3 DEF PutFile, AfterPuts, CompTo
<1>4. ASSUME CompleteAnswered PROVE UnderWayInv'
  BY <1>4 DEF CompleteAnswered
<1>5. ASSUME CallDies PROVE UnderWayInv'
  BY <1>5 DEF CallDies
<1>6. ASSUME NEW n \in Attempts, InitFind(n) PROVE UnderWayInv'
  BY <1>6 DEF InitFind, InitTo, Refuses, NoDrive
<1>7. ASSUME NEW n \in Attempts, InitClean(n) PROVE UnderWayInv'
  BY <1>7 DEF InitClean, InitTo
<1>8. ASSUME NEW n \in Attempts, InitDelete(n) PROVE UnderWayInv'
  BY <1>8 DEF InitDelete, FoundDocument, InitTo, NoDrive
<1>9. ASSUME NEW n \in Attempts, InitGuard(n) PROVE UnderWayInv'
  BY <1>9 DEF InitGuard, InitTo
<1>10. ASSUME NEW n \in Attempts, InitCreate(n) PROVE UnderWayInv'
  BY <1>10 DEF InitCreate, InitTo, NoDrive
<1>11. ASSUME NEW n \in Attempts, CompFind(n) PROVE UnderWayInv'
  BY <1>11 DEF CompFind, CompTo, NoDrive
<1>12. ASSUME NEW n \in Attempts, CompHead(n) PROVE UnderWayInv'
  BY <1>12 DEF CompHead, CompTo
<1>13. ASSUME NEW n \in Attempts, CompQueue(n) PROVE UnderWayInv'
  BY <1>13 DEF CompQueue, Save, Gone, CompTo
<1>14. ASSUME NEW n \in Attempts, CompReject(n) PROVE UnderWayInv'
  BY <1>14 DEF CompReject, Save, Gone, CompTo
<1>15. ASSUME NEW n \in Attempts, CompPurge(n) PROVE UnderWayInv'
  BY <1>15 DEF CompPurge, CompTo
<1>16. ASSUME CallFails PROVE UnderWayInv'
  BY <1>16 DEF CallFails, Abandoned
<1>17. ASSUME Killed PROVE UnderWayInv'
  BY <1>17 DEF Killed, Abandoned
<1>18. ASSUME Restart PROVE UnderWayInv'
  BY <1>18 DEF Restart, Running
<1>19. ASSUME NEW n \in Attempts, RequestLost(n) PROVE UnderWayInv'
  BY <1>19 DEF RequestLost, InitTo, CompTo
<1>20. CASE MarkUploaded \/ PutFails \/ Sweep \/ WorkerClaims \/ WorkerDownloads \/
   WorkerShips \/ WorkerReports \/ UNCHANGED vars
  BY <1>20 DEF MarkUploaded, PutFails, Sweep, WorkerClaims, WorkerDownloads, WorkerShips,
     WorkerReports, vars
<1> QED
  BY <1>1, <1>2, <1>3, <1>4, <1>5, <1>6, <1>7, <1>8, <1>9, <1>10, <1>11, <1>12, <1>13,
     <1>14, <1>15, <1>16, <1>17, <1>18, <1>19, <1>20
  DEF Next, Upload, InitHandler, CompHandler, Environment

\* A step leaves the current attempt's drive to its own complete and the worker.
LEMMA OwnStep ==
  ASSUME Late # "late", TInv, OrderInv, [Next]_vars
  PROVE  OwnInv'
<1>. USE ConstantsOK DEF OrderInv, Attempts, DriveDoc, NoDrive, Status, Id,
    worker, app, serving, bucket, UnderWayInv, AgeInv, OwnInv, PhoneInv, StateTypes, St, Accepted
<1>. StateTypes
  BY DEF TInv, TypeOK
<1>. /\ drive[1] \in 0..MaxAttempts
     /\ \A n \in Attempts : /\ seen[<<"init", n>>][1] \in 0..MaxAttempts
                            /\ seen[<<"comp", n>>][1] \in 0..MaxAttempts
  OBVIOUS
<1>1. ASSUME Start PROVE OwnInv'
  BY <1>1 DEF Start, InitTo
<1>2. ASSUME PutFile PROVE OwnInv'
  BY <1>2 DEF PutFile, AfterPuts, CompTo
<1>3. ASSUME NEW n \in Attempts, InitFind(n) PROVE OwnInv'
  BY <1>3 DEF InitFind, InitTo, Refuses, NoDrive
<1>4. ASSUME NEW n \in Attempts, InitClean(n) PROVE OwnInv'
  BY <1>4 DEF InitClean, InitTo
<1>5. ASSUME NEW n \in Attempts, InitDelete(n) PROVE OwnInv'
  <2>1. seen[<<"init", n>>][1] < attempt /\ init[n] = "delete"
    BY <1>5, Older DEF InitDelete
  <2>2. init[attempt] = "ok" /\ attempt > 0 => UNCHANGED drive
    <3>. SUFFICES ASSUME init[attempt] = "ok", attempt > 0 PROVE UNCHANGED drive
      OBVIOUS
    <3>1. drive[1] = attempt
      BY DEF OwnInv
    <3>2. ~FoundDocument(n)
      BY <2>1, <3>1, Numbers DEF FoundDocument
    <3> QED
      BY <1>5, <3>2 DEF InitDelete
  <2>3. /\ init' = [init EXCEPT ![n] = "guard"]
        /\ UNCHANGED <<attempt, comp, seen, claim>>
    BY <1>5 DEF InitDelete, InitTo
  <2> QED
    BY <2>1, <2>2, <2>3
<1>6. ASSUME NEW n \in Attempts, InitGuard(n) PROVE OwnInv'
  BY <1>6 DEF InitGuard, InitTo
<1>7. ASSUME NEW n \in Attempts, InitCreate(n) PROVE OwnInv'
  <2>1. CASE drive # NoDrive
    BY <1>7, <2>1 DEF InitCreate, InitTo
  <2>2. CASE drive = NoDrive
    <3>1. attempt > 0 => init[attempt] # "ok"
      BY <2>2
    <3>2. /\ drive' = <<n, "created">> /\ init' = [init EXCEPT ![n] = "ok"]
          /\ UNCHANGED <<attempt, comp, seen, claim>>
      BY <1>7, <2>2 DEF InitCreate, InitTo
    <3>3. comp[n] = "none" /\ claim # n
      BY <1>7 DEF InitCreate
    <3> QED
      BY <3>1, <3>2, <3>3
  <2> QED
    BY <2>1, <2>2
<1>8. ASSUME NEW n \in Attempts, CompFind(n) PROVE OwnInv'
  BY <1>8 DEF CompFind, CompTo, NoDrive
<1>9. ASSUME NEW n \in Attempts, CompHead(n) PROVE OwnInv'
  BY <1>9 DEF CompHead, CompTo
<1>10. ASSUME NEW n \in Attempts, CompQueue(n) PROVE OwnInv'
  <2>. init[n] = "ok" /\ n <= attempt /\ UNCHANGED <<attempt, init, seen, claim>>
    BY <1>10 DEF CompQueue
  <2>1. CASE n = attempt
    <3>1. seen[<<"comp", n>>] = <<n, "created">> /\ drive[1] = n /\ ~Gone(n)
      BY <1>10, <2>1 DEF CompQueue, Gone
    <3>2. drive' = <<n, "queued">> /\ comp' = [comp EXCEPT ![n] = "ok"]
      BY <1>10, <3>1 DEF CompQueue, Save, CompTo
    <3> QED
      BY <1>10, <2>1, <3>1, <3>2 DEF CompQueue
  <2>2. CASE n # attempt
    <3>. n < attempt
      BY <2>2, Numbers
    <3>1. seen[<<"comp", n>>][1] < attempt
      BY Older
    <3>2. init[attempt] = "ok" => Gone(n)
      BY <3>1 DEF Gone
    <3>3. init[attempt] = "ok" => UNCHANGED drive
      BY <1>10, <3>2 DEF CompQueue, Save
    <3>4. comp'[attempt] = comp[attempt]
      BY <1>10, <2>2 DEF CompQueue, CompTo
    <3> QED
      BY <3>3, <3>4
  <2> QED
    BY <2>1, <2>2
<1>11. ASSUME NEW n \in Attempts, CompReject(n) PROVE OwnInv'
  <2>. init[n] = "ok" /\ n <= attempt /\ UNCHANGED <<attempt, init, seen, claim>>
    BY <1>11 DEF CompReject
  <2>1. CASE n = attempt
    <3>1. seen[<<"comp", n>>] = <<n, "created">> /\ drive[1] = n /\ ~Gone(n)
      BY <1>11, <2>1 DEF CompReject, Gone
    <3>2. drive' = <<n, "rejected">> /\ comp' = [comp EXCEPT ![n] = "purge"]
      BY <1>11, <3>1 DEF CompReject, Save, CompTo
    <3> QED
      BY <1>11, <2>1, <3>1, <3>2 DEF CompReject
  <2>2. CASE n # attempt
    <3>. n < attempt
      BY <2>2, Numbers
    <3>1. seen[<<"comp", n>>][1] < attempt
      BY Older
    <3>2. init[attempt] = "ok" => Gone(n)
      BY <3>1 DEF Gone
    <3>3. init[attempt] = "ok" => UNCHANGED drive
      BY <1>11, <3>2 DEF CompReject, Save
    <3>4. comp'[attempt] = comp[attempt]
      BY <1>11, <2>2 DEF CompReject, CompTo
    <3> QED
      BY <3>3, <3>4
  <2> QED
    BY <2>1, <2>2
<1>12. ASSUME NEW n \in Attempts, CompPurge(n) PROVE OwnInv'
  BY <1>12 DEF CompPurge, CompTo
<1>13. ASSUME Restart PROVE OwnInv'
  BY <1>13 DEF Restart, Running
<1>14. ASSUME NEW n \in Attempts, RequestLost(n) PROVE OwnInv'
  BY <1>14 DEF RequestLost, InitTo, CompTo
<1>15. ASSUME WorkerClaims PROVE OwnInv'
  BY <1>15 DEF WorkerClaims
<1>16. ASSUME WorkerReports PROVE OwnInv'
  BY <1>16 DEF WorkerReports, Reports
<1>17. CASE InitAnswered \/ CompleteAnswered \/ MarkUploaded \/ CallDies \/ PutFails \/
   CallFails \/ Killed \/ Sweep \/ WorkerDownloads \/ WorkerShips \/ UNCHANGED vars
  BY <1>17 DEF InitAnswered, CompleteAnswered, MarkUploaded, CallDies, PutFails,
     CallFails, Killed, Sweep, WorkerDownloads, WorkerShips, vars
<1> QED
  BY <1>1, <1>2, <1>3, <1>4, <1>5, <1>6, <1>7, <1>8, <1>9, <1>10, <1>11, <1>12, <1>13,
     <1>14, <1>15, <1>16, <1>17
  DEF Next, Upload, InitHandler, CompHandler, Environment

\* A step keeps the phone in line with its requests.
LEMMA PhoneStep ==
  ASSUME Late # "late", TInv, OrderInv, [Next]_vars
  PROVE  PhoneInv'
<1>. USE ConstantsOK DEF OrderInv, Attempts, DriveDoc, NoDrive, Status, Id,
    worker, app, serving, bucket, UnderWayInv, PhoneInv, StateTypes
<1>. StateTypes
  BY DEF TInv, TypeOK
<1>1. ASSUME Start PROVE PhoneInv'
  BY <1>1 DEF Start, InitTo
<1>2. ASSUME InitAnswered PROVE PhoneInv'
  BY <1>2 DEF InitAnswered
<1>3. ASSUME PutFile PROVE PhoneInv'
  BY <1>3 DEF PutFile, AfterPuts, CompTo
<1>4. ASSUME CompleteAnswered PROVE PhoneInv'
  BY <1>4 DEF CompleteAnswered
<1>5. ASSUME MarkUploaded PROVE PhoneInv'
  BY <1>5 DEF MarkUploaded
<1>6. ASSUME CallDies PROVE PhoneInv'
  BY <1>6 DEF CallDies
<1>7. ASSUME NEW n \in Attempts, InitFind(n) PROVE PhoneInv'
  BY <1>7 DEF InitFind, InitTo, Refuses, NoDrive
<1>8. ASSUME NEW n \in Attempts, InitClean(n) PROVE PhoneInv'
  BY <1>8 DEF InitClean, InitTo
<1>9. ASSUME NEW n \in Attempts, InitDelete(n) PROVE PhoneInv'
  BY <1>9 DEF InitDelete, FoundDocument, InitTo, NoDrive
<1>10. ASSUME NEW n \in Attempts, InitGuard(n) PROVE PhoneInv'
  BY <1>10 DEF InitGuard, InitTo
<1>11. ASSUME NEW n \in Attempts, InitCreate(n) PROVE PhoneInv'
  BY <1>11 DEF InitCreate, InitTo, NoDrive
<1>12. ASSUME NEW n \in Attempts, CompFind(n) PROVE PhoneInv'
  BY <1>12 DEF CompFind, CompTo, NoDrive
<1>13. ASSUME NEW n \in Attempts, CompHead(n) PROVE PhoneInv'
  BY <1>13 DEF CompHead, CompTo
<1>14. ASSUME NEW n \in Attempts, CompQueue(n) PROVE PhoneInv'
  BY <1>14 DEF CompQueue, Save, Gone, CompTo
<1>15. ASSUME NEW n \in Attempts, CompReject(n) PROVE PhoneInv'
  BY <1>15 DEF CompReject, Save, Gone, CompTo
<1>16. ASSUME NEW n \in Attempts, CompPurge(n) PROVE PhoneInv'
  BY <1>16 DEF CompPurge, CompTo
<1>17. ASSUME PutFails PROVE PhoneInv'
  BY <1>17 DEF PutFails
<1>18. ASSUME CallFails PROVE PhoneInv'
  BY <1>18 DEF CallFails, Abandoned
<1>19. ASSUME Killed PROVE PhoneInv'
  BY <1>19 DEF Killed, Abandoned
<1>20. ASSUME Sweep PROVE PhoneInv'
  BY <1>20 DEF Sweep
<1>21. ASSUME Restart PROVE PhoneInv'
  BY <1>21 DEF Restart, Running
<1>22. ASSUME NEW n \in Attempts, RequestLost(n) PROVE PhoneInv'
  BY <1>22 DEF RequestLost, InitTo, CompTo
<1>23. CASE WorkerClaims \/ WorkerDownloads \/ WorkerShips \/ WorkerReports \/ UNCHANGED
   vars
  BY <1>23 DEF WorkerClaims, WorkerDownloads, WorkerShips, WorkerReports, vars
<1> QED
  BY <1>1, <1>2, <1>3, <1>4, <1>5, <1>6, <1>7, <1>8, <1>9, <1>10, <1>11, <1>12, <1>13,
     <1>14, <1>15, <1>16, <1>17, <1>18, <1>19, <1>20, <1>21, <1>22, <1>23
  DEF Next, Upload, InitHandler, CompHandler, Environment

\* The initial state.
LEMMA InitOrderInv == Init => OrderInv
<1>. SUFFICES ASSUME Init PROVE OrderInv
  OBVIOUS
<1>. USE ConstantsOK DEF Init, NoDrive, Attempts
<1>1. UnderWayInv
  BY DEF UnderWayInv
<1>2. AgeInv
  BY DEF AgeInv
<1>3. OwnInv /\ PhoneInv
  BY DEF OwnInv, PhoneInv
<1> QED
  BY <1>1, <1>2, <1>3 DEF OrderInv

-----------------------------------------------------------------------------
\* The types and what keeps them are invariant, whatever Late is.
THEOREM TInvCorrect == Spec => []TInv
<1>1. TInv /\ [Next]_vars => TInv'
  BY TypeStep, SentStep, FoundStep DEF TInv
<1> QED
  BY <1>1, InitTInv, PTL DEF Spec

\* The order of attempts, handlers and drives is invariant if no request outlives
\* its call.
THEOREM OrderCorrect == Late # "late" /\ Spec => []OrderInv
<1>. SUFFICES ASSUME Late # "late" PROVE Spec => []OrderInv
  OBVIOUS
<1>1. TInv /\ OrderInv /\ [Next]_vars => OrderInv'
  BY UnderWayStep, AgeStep, OwnStep, PhoneStep DEF OrderInv
<1> QED
  BY <1>1, InitOrderInv, TInvCorrect, PTL DEF Spec

\* Every variable keeps its type: no attempt sends more files than there are, and
\* no handler writes a drive it has not found.
THEOREM TypeCorrect == Spec => []TypeOK
<1>1. TInv => TypeOK
  BY DEF TInv
<1> QED
  BY <1>1, TInvCorrect, PTL

\* If no request arrives after its call was given up, then once the phone has been
\* told that a drive is uploaded no handler of an earlier attempt, however slow,
\* replaces or rejects the drive.
THEOREM NeverRefused == Late # "late" /\ Spec => []NeverRefusedLater
<1>1. TInv /\ OrderInv => NeverRefusedLater
  <2>. SUFFICES ASSUME TInv, OrderInv, folder \in {"flagged", "swept"} PROVE St \in Accepted
    BY DEF NeverRefusedLater
  <2>1. attempt > 0 /\ comp[attempt] = "ok"
    BY DEF OrderInv, PhoneInv
  <2>2. attempt \in Attempts
    BY <2>1 DEF TInv, TypeOK, Attempts
  <2>3. init[attempt] = "ok"
    BY <2>1, <2>2 DEF OrderInv, UnderWayInv
  <2> QED
    BY <2>1, <2>3 DEF OrderInv, OwnInv
<1> QED
  BY <1>1, TInvCorrect, OrderCorrect, PTL

-----------------------------------------------------------------------------
(* Until a handler outlives the call that started it *)

\* Only the handler the phone waits for is running.
ServedInv == \A n \in Attempts :
    /\ Running(init[n]) => n = attempt /\ phone = "init"
    /\ Running(comp[n]) => n = attempt /\ phone = "complete"

\* What init has found is what it deletes, and what it creates is the only one.
ReplaceInv == \A n \in Attempts :
    /\ init[n] \in {"clean", "delete"} => St = "created" /\ Id = seen[<<"init", n>>][1]
    /\ init[n] \in {"guard", "create"} => drive = NoDrive

\* The files are there when complete looks for them.
PutInv ==
    /\ phone = "put" => 1..sent \subseteq stored
    /\ \A n \in Attempts :
         /\ comp[n] \in {"none", "sent"} => heads[n] = 1
         /\ comp[n] = "head" => heads[n] <= NFiles
         /\ comp[n] \in {"sent", "head", "queue"} => stored = Files
         /\ comp[n] \notin {"reject", "purge"}

\* The worker has a drive of which everything is there.
WholeInv ==
    /\ claim # 0 => claim = Id /\ St = "processing"
    /\ St \in {"queued", "processing"} => stored = Files
    /\ St = "processed" => evidence
    /\ work # "claimed" => claim # 0
    /\ work = "shipped" => evidence

PromptInv == prompt => ServedInv /\ ReplaceInv /\ PutInv /\ WholeInv

-----------------------------------------------------------------------------
\* The types these proofs rest on, and what a state's drive may be.
LEMMA PromptTypes ==
  ASSUME TInv
  PROVE  /\ attempt \in 0..MaxAttempts /\ claim \in 0..MaxAttempts
         /\ sent \in 0..NFiles /\ (phone = "put" => sent < NFiles)
         /\ init \in [Attempts -> {"none", "sent", "clean", "delete", "guard", "create",
                                   "ok", "error", "gone"}]
         /\ comp \in [Attempts -> {"none", "sent", "head", "queue", "reject", "purge",
                                   "ok", "error", "gone"}]
         /\ seen \in [{"init", "comp"} \X Attempts -> DriveDoc]
         /\ heads \in [Attempts -> 1..(NFiles + 1)]
         /\ drive \in DriveDoc /\ stored \subseteq Files
  BY DEF TInv, TypeOK, SentInv

\* A drive is none or has an id and a status.
LEMMA DriveShape ==
  ASSUME TInv
  PROVE  /\ drive = <<Id, St>>
         /\ drive = NoDrive <=> St = "none"
         /\ drive = NoDrive <=> Id = 0
  BY ConstantsOK DEF TInv, TypeOK, DriveDoc, NoDrive, Status, Attempts, Id, St

\* While the phone waits for an attempt's complete, or sends its files, the
\* attempt's drive is as init created it.
LEMMA StillCreated ==
  ASSUME TInv, OrderInv, ServedInv, NEW n \in Attempts,
         phone = "put" \/ comp[n] \in {"sent", "head", "queue", "reject"}
  PROVE  /\ St = "created" /\ attempt > 0 /\ Id = attempt
         /\ phone \in {"put", "complete"}
         /\ phone = "complete" => n = attempt
<1>. USE DEF OrderInv
<1>1. attempt > 0 /\ attempt \in Attempts /\ init[attempt] = "ok"
        /\ comp[attempt] \in {"none", "sent", "head", "queue", "reject"}
        /\ phone \in {"put", "complete"}
  <2>1. CASE phone = "put"
    BY <2>1, PromptTypes, ConstantsOK DEF PhoneInv, Attempts
  <2>2. CASE comp[n] \in {"sent", "head", "queue", "reject"}
    <3>1. n = attempt /\ phone = "complete"
      BY <2>2 DEF UnderWayInv, ServedInv, Running
    <3> QED
      BY <2>2, <3>1, ConstantsOK DEF UnderWayInv, Attempts
  <2> QED
    BY <2>1, <2>2
<1>2. St = "created" /\ Id = attempt
  BY <1>1 DEF OwnInv, Id
<1>3. phone = "complete" => n = attempt
  BY DEF UnderWayInv, ServedInv, Running
<1> QED
  BY <1>1, <1>2, <1>3

\* A step that is not one of a handler leaves init and comp alone, but for the
\* request it sends or loses.
LEMMA OthersServe ==
  ASSUME TInv, [Next]_vars,
         ~ \E n \in Attempts : InitHandler(n) \/ CompHandler(n)
  PROVE  \A n \in Attempts :
            /\ init'[n] \in {init[n], "sent", "gone"}
            /\ comp'[n] \in {comp[n], "sent", "gone"}
<1>. USE PromptTypes DEF app, serving, bucket, worker, InitTo, CompTo
<1>1. CASE Upload
  BY <1>1 DEF Upload, Start, InitAnswered, PutFile, AfterPuts, CompleteAnswered,
              MarkUploaded, CallDies
<1>2. CASE Restart
  BY <1>2 DEF Restart
<1>3. CASE \E n \in Attempts : RequestLost(n)
  BY <1>3 DEF RequestLost
<1>4. CASE PutFails \/ CallFails \/ Killed \/ Sweep \/ WorkerClaims \/ WorkerDownloads
           \/ WorkerShips \/ WorkerReports \/ UNCHANGED vars
  BY <1>4 DEF PutFails, CallFails, Killed, Sweep, WorkerClaims, WorkerDownloads,
              WorkerShips, WorkerReports, vars
<1> QED
  BY <1>1, <1>2, <1>3, <1>4 DEF Next, Environment

\* A step that leaves no handler behind leaves only the current call's running.
LEMMA ServedStep ==
  ASSUME TInv, OrderInv, ServedInv, [Next]_vars, ~LeavesHandler
  PROVE  ServedInv'
<1>. USE PromptTypes DEF app, serving, bucket, worker, ServedInv, Running, InitTo, CompTo
<1>1. ASSUME Start PROVE ServedInv'
  BY <1>1 DEF Start
<1>2. ASSUME InitAnswered PROVE ServedInv'
  BY <1>2 DEF InitAnswered
<1>3. ASSUME PutFile PROVE ServedInv'
  BY <1>3 DEF PutFile, AfterPuts
<1>4. ASSUME CompleteAnswered PROVE ServedInv'
  BY <1>4 DEF CompleteAnswered
<1>5. CASE MarkUploaded \/ CallDies \/ PutFails \/ Sweep
  BY <1>5 DEF MarkUploaded, CallDies, PutFails, Sweep
<1>6. CASE CallFails \/ Killed
  BY <1>6 DEF CallFails, Killed, LeavesHandler
<1>7. ASSUME NEW n \in Attempts, InitHandler(n) PROVE ServedInv'
  <2>1. n = attempt /\ phone = "init" /\ UNCHANGED <<attempt, phone, comp>>
    BY <1>7 DEF InitHandler, InitFind, InitClean, InitDelete, InitGuard, InitCreate,
                OrderInv, UnderWayInv
  <2>2. \A m \in Attempts : m # n => init'[m] = init[m]
    BY <1>7 DEF InitHandler, InitFind, InitClean, InitDelete, InitGuard, InitCreate
  <2> QED
    BY <2>1, <2>2
<1>8. ASSUME NEW n \in Attempts, CompHandler(n) PROVE ServedInv'
  <2>1. n = attempt /\ phone = "complete" /\ UNCHANGED <<attempt, phone, init>>
    BY <1>8 DEF CompHandler, CompFind, CompHead, CompQueue, CompReject, CompPurge,
                OrderInv, UnderWayInv
  <2>2. \A m \in Attempts : m # n => comp'[m] = comp[m]
    BY <1>8 DEF CompHandler, CompFind, CompHead, CompQueue, CompReject, CompPurge
  <2> QED
    BY <2>1, <2>2
<1>9. CASE Restart
  BY <1>9 DEF Restart
<1>10. ASSUME NEW n \in Attempts, RequestLost(n) PROVE ServedInv'
  BY <1>10 DEF RequestLost
<1>11. CASE WorkerClaims \/ WorkerDownloads \/ WorkerShips \/ WorkerReports \/ UNCHANGED vars
  BY <1>11 DEF WorkerClaims, WorkerDownloads, WorkerShips, WorkerReports, vars
<1> QED
  BY <1>1, <1>2, <1>3, <1>4, <1>5, <1>6, <1>7, <1>8, <1>9, <1>10, <1>11
  DEF Next, Upload, Environment

-----------------------------------------------------------------------------
\* A worker's claim and report never meet an init that replaces.
LEMMA ReplaceStep ==
  ASSUME TInv, OrderInv, ServedInv, ReplaceInv, WholeInv, [Next]_vars
  PROVE  ReplaceInv'
<1>. USE PromptTypes, DriveShape DEF app, serving, bucket, worker, InitTo, CompTo
<1>1. ASSUME NEW n \in Attempts, InitHandler(n) PROVE ReplaceInv'
  <2>. n = attempt /\ \A m \in Attempts : m # n => init'[m] = init[m] /\ ~Running(init[m])
    BY <1>1 DEF InitHandler, InitFind, InitClean, InitDelete, InitGuard, InitCreate,
                OrderInv, UnderWayInv, ServedInv, Running
  <2>. SUFFICES /\ init'[n] \in {"clean", "delete"}
                       => St' = "created" /\ Id' = seen'[<<"init", n>>][1]
                /\ init'[n] \in {"guard", "create"} => drive' = NoDrive
    BY DEF ReplaceInv, Running
  <2>1. CASE InitFind(n)
    BY <2>1 DEF InitFind, Refuses, St, Id
  <2>2. CASE InitClean(n)
    BY <2>2 DEF InitClean, ReplaceInv, St, Id
  <2>3. CASE InitDelete(n)
    BY <2>3 DEF InitDelete, ReplaceInv, FoundDocument
  <2>4. CASE InitGuard(n)
    BY <2>4 DEF InitGuard, ReplaceInv
  <2>5. CASE InitCreate(n)
    BY <2>5 DEF InitCreate
  <2> QED
    BY <1>1, <2>1, <2>2, <2>3, <2>4, <2>5 DEF InitHandler
<1>2. ASSUME NEW n \in Attempts, CompHandler(n) PROVE ReplaceInv'
  <2>1. phone = "complete" /\ UNCHANGED init
    BY <1>2 DEF CompHandler, CompFind, CompHead, CompQueue, CompReject, CompPurge,
                OrderInv, UnderWayInv, ServedInv, Running
  <2>2. \A m \in Attempts : ~Running(init[m])
    BY <2>1 DEF ServedInv
  <2> QED
    BY <2>1, <2>2 DEF ReplaceInv, Running
<1>3. ASSUME WorkerClaims \/ WorkerReports PROVE ReplaceInv'
  <2>1. St \in {"queued", "processing"} /\ UNCHANGED init
    BY <1>3 DEF WorkerClaims, WorkerReports, WholeInv
  <2>2. \A m \in Attempts : init[m] \notin {"clean", "delete", "guard", "create"}
    BY <2>1 DEF ReplaceInv
  <2> QED
    BY <2>1, <2>2 DEF ReplaceInv
<1>4. CASE Start \/ InitAnswered \/ PutFile \/ CompleteAnswered \/ MarkUploaded \/ CallDies
           \/ PutFails \/ CallFails \/ Killed \/ Sweep \/ Restart
           \/ (\E n \in Attempts : RequestLost(n))
           \/ WorkerDownloads \/ WorkerShips \/ UNCHANGED vars
  <2>1. ~(\E n \in Attempts : InitHandler(n) \/ CompHandler(n)) =>
          \A n \in Attempts : init'[n] \in {init[n], "sent", "gone"}
    BY OthersServe
  <2>2. UNCHANGED <<drive, seen>>
    BY <1>4 DEF Start, InitAnswered, PutFile, CompleteAnswered, MarkUploaded, CallDies,
                PutFails, CallFails, Killed, Sweep, Restart, RequestLost,
                WorkerDownloads, WorkerShips, vars
  <2> QED
    BY <1>1, <1>2, <2>1, <2>2 DEF ReplaceInv, St, Id
<1> QED
  BY <1>1, <1>2, <1>3, <1>4 DEF Next, Upload, Environment

\* The files a complete handler looks for stay where the phone put them.
LEMMA PutStep ==
  ASSUME TInv, OrderInv, ServedInv, PutInv, WholeInv, [Next]_vars
  PROVE  PutInv'
<1>. USE ConstantsOK, PromptTypes DEF app, serving, bucket, worker, InitTo, CompTo, PutInv
<1>1. ASSUME Start PROVE PutInv'
  BY <1>1 DEF Start
<1>2. ASSUME InitAnswered PROVE PutInv'
  <2>1. sent = 0
    BY <1>2 DEF InitAnswered, TInv, SentInv
  <2> QED
    BY <1>2, <2>1 DEF InitAnswered
<1>3. ASSUME PutFile PROVE PutInv'
  <2>1. \A n \in Attempts : comp[n] \notin {"sent", "head", "queue"}
    BY <1>3 DEF PutFile, OrderInv, UnderWayInv, ServedInv, Running
  <2>2. 1..sent' \subseteq stored'
    BY <1>3 DEF PutFile
  <2>3. UNCHANGED heads
    BY <1>3 DEF PutFile
  <2>4. CASE sent + 1 = NFiles
    <3>1. stored' = Files /\ phone' = "complete" /\ comp' = [comp EXCEPT ![attempt] = "sent"]
      BY <1>3, <2>2, <2>4 DEF PutFile, AfterPuts, Files
    <3>2. comp[attempt] = "none"
      BY <1>3 DEF PutFile, OrderInv, PhoneInv
    <3> QED
      BY <2>1, <2>3, <3>1, <3>2
  <2>5. CASE sent + 1 # NFiles
    BY <1>3, <2>1, <2>2, <2>3, <2>5 DEF PutFile
  <2> QED
    BY <2>4, <2>5
<1>4. ASSUME PutFails PROVE PutInv'
  <2>1. stored' \in {stored, stored \cup {sent + 1}} /\ sent + 1 \in Files
    BY <1>4 DEF PutFails, Files
  <2>2. stored = Files => stored' = Files
    BY <2>1
  <2>3. phone' = "idle" /\ UNCHANGED <<comp, heads>>
    BY <1>4 DEF PutFails
  <2> QED
    BY <2>2, <2>3
<1>5. CASE CompleteAnswered \/ MarkUploaded \/ CallDies \/ CallFails \/ Killed \/ Sweep
           \/ WorkerClaims \/ WorkerDownloads \/ WorkerShips \/ UNCHANGED vars
  BY <1>5 DEF CompleteAnswered, MarkUploaded, CallDies, CallFails, Killed, Sweep,
              WorkerClaims, WorkerDownloads, WorkerShips, vars
<1>6. CASE Restart
  BY <1>6 DEF Restart, Running
<1>7. ASSUME NEW n \in Attempts, RequestLost(n) PROVE PutInv'
  BY <1>7 DEF RequestLost
<1>8. ASSUME NEW n \in Attempts, InitHandler(n) PROVE PutInv'
  <2>1. /\ phone = "init" /\ UNCHANGED <<phone, sent, comp, heads>>
        /\ \A m \in Attempts : comp[m] \notin {"sent", "head", "queue"}
    BY <1>8 DEF InitHandler, InitFind, InitClean, InitDelete, InitGuard, InitCreate,
                OrderInv, UnderWayInv, ServedInv, Running
  <2> QED
    BY <2>1
<1>9. ASSUME NEW n \in Attempts, CompHandler(n) PROVE PutInv'
  <2>1. comp[n] \notin {"reject", "purge"}
    OBVIOUS
  <2>2. phone = "complete" /\ UNCHANGED <<phone, stored>>
    BY <1>9, <2>1 DEF CompHandler, CompFind, CompHead, CompQueue, CompReject, CompPurge,
                OrderInv, UnderWayInv, ServedInv, Running
  <2>3. CASE CompFind(n)
    BY <2>2, <2>3 DEF CompFind
  <2>4. CASE CompHead(n)
    <3>1. heads[n] \in stored /\ heads[n] <= NFiles /\ stored = Files
      BY <2>4 DEF CompHead, Files
    <3>2. /\ comp' = [comp EXCEPT ![n] = IF heads[n] = NFiles THEN "queue" ELSE "head"]
          /\ heads' = [heads EXCEPT ![n] = heads[n] + 1]
      BY <2>4, <3>1 DEF CompHead
    <3>3. heads[n] # NFiles => heads[n] + 1 <= NFiles
      BY <3>1
    <3> QED
      BY <2>2, <3>1, <3>2, <3>3
  <2>5. CASE CompQueue(n)
    BY <2>2, <2>5 DEF CompQueue
  <2> QED
    BY <1>9, <2>1, <2>3, <2>4, <2>5 DEF CompHandler, CompReject, CompPurge
<1>10. ASSUME WorkerReports PROVE PutInv'
  <2>1. St = "processing"
    BY <1>10 DEF WorkerReports, WholeInv
  <2>2. \A n \in Attempts : phone # "put" /\ comp[n] \notin {"sent", "head", "queue"}
    BY <2>1, StillCreated
  <2>3. UNCHANGED <<comp, heads, phone, sent>>
    BY <1>10 DEF WorkerReports
  <2>4. phone # "put"
    <3>. SUFFICES ASSUME phone = "put" PROVE FALSE
      OBVIOUS
    <3>1. attempt \in Attempts
      BY DEF OrderInv, PhoneInv, Attempts
    <3> QED
      BY <2>2, <3>1
  <2> QED
    BY <2>2, <2>3, <2>4
<1> QED
  BY <1>1, <1>2, <1>3, <1>4, <1>5, <1>6, <1>7, <1>8, <1>9, <1>10
  DEF Next, Upload, Environment

\* What the worker has, and the files of a drive that waits for it, stay whole.
LEMMA WholeStep ==
  ASSUME TInv, OrderInv, ServedInv, ReplaceInv, PutInv, WholeInv, [Next]_vars
  PROVE  WholeInv'
<1>. USE ConstantsOK, PromptTypes DEF app, serving, bucket, worker, InitTo, CompTo,
     WholeInv, Id, St
<1>1. ASSUME PutFile \/ PutFails PROVE WholeInv'
  <2>1. stored' \in {stored, stored \cup {sent + 1}} /\ sent + 1 \in Files
    BY <1>1 DEF PutFile, PutFails, Files
  <2>2. stored = Files => stored' = Files
    BY <2>1
  <2>3. UNCHANGED <<drive, evidence, claim, work>>
    BY <1>1 DEF PutFile, PutFails
  <2> QED
    BY <2>2, <2>3
<1>2. CASE Start \/ InitAnswered \/ CompleteAnswered \/ MarkUploaded \/ CallDies \/ CallFails
           \/ Killed \/ Sweep \/ Restart \/ (\E n \in Attempts : RequestLost(n))
           \/ WorkerDownloads \/ UNCHANGED vars
  BY <1>2 DEF Start, InitAnswered, CompleteAnswered, MarkUploaded, CallDies, CallFails,
              Killed, Sweep, Restart, RequestLost, WorkerDownloads, vars
<1>3. ASSUME NEW n \in Attempts, InitFind(n) \/ InitGuard(n) PROVE WholeInv'
  BY <1>3 DEF InitFind, InitGuard
<1>4. ASSUME NEW n \in Attempts, InitClean(n) PROVE WholeInv'
  BY <1>4 DEF InitClean, ReplaceInv
<1>5. ASSUME NEW n \in Attempts, InitDelete(n) PROVE WholeInv'
  BY <1>5 DEF InitDelete, ReplaceInv, NoDrive
<1>6. ASSUME NEW n \in Attempts, InitCreate(n) PROVE WholeInv'
  BY <1>6 DEF InitCreate, NoDrive
<1>7. ASSUME NEW n \in Attempts, CompFind(n) \/ CompHead(n) PROVE WholeInv'
  BY <1>7 DEF CompFind, CompHead
<1>8. ASSUME NEW n \in Attempts, CompQueue(n) PROVE WholeInv'
  <2>1. St = "created" /\ stored = Files
    BY <1>8, StillCreated DEF CompQueue, PutInv
  <2>2. drive' \in {drive, <<Id, "queued">>} /\ UNCHANGED <<stored, evidence, claim, work>>
    BY <1>8 DEF CompQueue, Save
  <2> QED
    BY <2>1, <2>2
<1>9. ASSUME NEW n \in Attempts, CompReject(n) \/ CompPurge(n) PROVE FALSE
  BY <1>9 DEF CompReject, CompPurge, PutInv
<1>10. CASE WorkerClaims
  BY <1>10 DEF WorkerClaims
<1>11. CASE WorkerShips
  BY <1>11, Zenon DEF WorkerShips
<1>12. ASSUME WorkerReports PROVE WholeInv'
  <2>1. claim = Id
    BY <1>12 DEF WorkerReports
  <2>2. PICK result \in Reports :
           /\ result = "processed" => work = "shipped"
           /\ drive' = <<Id, result>>
           /\ stored' = IF PurgedAfter(result) THEN {} ELSE stored
    BY <1>12, <2>1 DEF WorkerReports
  <2>3. claim' = 0 /\ work' = "claimed" /\ UNCHANGED evidence /\ stored = Files
    BY <1>12 DEF WorkerReports
  <2> QED
    BY <2>2, <2>3 DEF Reports, PurgedAfter
<1> QED
  BY <1>1, <1>2, <1>3, <1>4, <1>5, <1>6, <1>7, <1>8, <1>9, <1>10, <1>11, <1>12
  DEF Next, Upload, Environment, InitHandler, CompHandler

\* Nothing is under way and nothing stored at first.
LEMMA InitPromptInv == Init => ServedInv /\ ReplaceInv /\ PutInv /\ WholeInv
<1>. SUFFICES ASSUME Init PROVE ServedInv /\ ReplaceInv /\ PutInv /\ WholeInv
  OBVIOUS
<1>. USE DEF Init, NoDrive, Attempts
<1>1. ServedInv /\ ReplaceInv
  BY DEF ServedInv, ReplaceInv, Running
<1>2. PutInv
  BY DEF PutInv
<1>3. WholeInv
  BY DEF WholeInv, St, Id
<1> QED
  BY <1>1, <1>2, <1>3

-----------------------------------------------------------------------------
\* With the phone's promptness watched, the upload still is one of Upload's.
LEMMA SlowIsUpload == SlowSpec => Spec
<1>1. SlowInit => Init
  BY DEF SlowInit
<1>2. [SlowNext]_<<vars, prompt>> => [Next]_vars
  BY DEF SlowNext
<1> QED
  BY <1>1, <1>2, PTL DEF SlowSpec, Spec

\* As long as no handler outlives its call, the backend works for the current call
\* only, and the prefix and the drive are what that call has made of them.
THEOREM PromptCorrect == Late # "late" /\ SlowSpec => []PromptInv
<1>. SUFFICES ASSUME Late # "late" PROVE SlowSpec => []PromptInv
  OBVIOUS
<1>1. SlowInit => PromptInv
  BY InitPromptInv DEF SlowInit, PromptInv
<1>2. TInv /\ OrderInv /\ PromptInv /\ [SlowNext]_<<vars, prompt>> => PromptInv'
  <2>. SUFFICES ASSUME TInv, OrderInv, PromptInv, [SlowNext]_<<vars, prompt>>, prompt'
                PROVE  (ServedInv /\ ReplaceInv /\ PutInv /\ WholeInv)'
    BY DEF PromptInv
  <2>1. prompt /\ [Next]_vars /\ (SlowNext => ~LeavesHandler)
    BY DEF SlowNext
  <2>2. ~LeavesHandler
    BY <2>1 DEF LeavesHandler, vars
  <2>3. ServedInv /\ ReplaceInv /\ PutInv /\ WholeInv
    BY <2>1 DEF PromptInv
  <2> QED
    BY <2>1, <2>2, <2>3, ServedStep, ReplaceStep, PutStep, WholeStep
<1> QED
  BY <1>1, <1>2, SlowIsUpload, TInvCorrect, OrderCorrect, PTL DEF SlowSpec

\* Until a handler outlives its call, a drive that waits for a worker has all its
\* files in R2: complete queues it only after it has seen every one of them.
THEOREM QueuedAreWhole == Late # "late" /\ SlowSpec => []QueuedHasFiles
<1>. SUFFICES ASSUME Late # "late" PROVE SlowSpec => []QueuedHasFiles
  OBVIOUS
<1>1. PromptInv => QueuedHasFiles
  BY DEF PromptInv, WholeInv, QueuedHasFiles, QueuedWhole
<1> QED
  BY <1>1, PromptCorrect, PTL

\* Until then, the phone deletes nothing that the server does not have: the drive
\* is accepted and its raw files, or its evidence, are in R2.
THEOREM ForgettingIsSafe == Late # "late" /\ SlowSpec => []SafeToForget
<1>. SUFFICES ASSUME Late # "late" PROVE SlowSpec => []SafeToForget
  OBVIOUS
<1>1. PromptInv /\ NeverRefusedLater => SafeToForget
  BY DEF PromptInv, WholeInv, NeverRefusedLater, SafeToForget, PhoneMayForget
<1> QED
  BY <1>1, PromptCorrect, SlowIsUpload, NeverRefused, PTL

\* Until then, no handler replaces or rejects a drive that was accepted: init finds
\* it accepted and refuses, and the only complete under way is the one that queues it.
THEOREM AcceptedIsFinal == Late # "late" /\ SlowSpec => AcceptedForGood
<1>. SUFFICES ASSUME Late # "late" PROVE SlowSpec => AcceptedForGood
  OBVIOUS
<1>1. ASSUME TInv, OrderInv, PromptInv, [SlowNext]_<<vars, prompt>>, prompt', St \in Accepted
      PROVE  drive'[1] = Id /\ drive'[2] \in Accepted
  <2>. USE <1>1 DEF app, serving, bucket, worker
  <2>1. prompt /\ [Next]_vars
    BY DEF SlowNext
  <2>2. ServedInv /\ ReplaceInv /\ PutInv /\ WholeInv
    BY <2>1 DEF PromptInv
  <2>3. CASE UNCHANGED drive
    BY <2>3 DEF Id, St
  <2>4. ASSUME NEW n \in Attempts, InitHandler(n) PROVE UNCHANGED drive
    <3>1. ~InitDelete(n) /\ (InitCreate(n) => drive # NoDrive)
      BY <2>2, DriveShape DEF InitDelete, InitCreate, ReplaceInv, Accepted
    <3> QED
      BY <2>4, <3>1 DEF InitHandler, InitFind, InitClean, InitGuard, InitCreate
  <2>5. ASSUME NEW n \in Attempts, CompHandler(n) PROVE UNCHANGED drive
    <3>1. comp[n] \notin {"queue", "reject"}
      BY <2>2, StillCreated DEF Accepted
    <3> QED
      BY <2>5, <3>1 DEF CompHandler, CompFind, CompHead, CompQueue, CompReject, CompPurge
  <2>6. CASE WorkerClaims
    BY <2>6 DEF WorkerClaims, Accepted
  <2>7. CASE WorkerReports
    BY <2>7 DEF WorkerReports, Reports, Accepted, Id, St
  <2>8. ASSUME \/ Upload \/ PutFails \/ CallFails \/ Killed \/ Sweep \/ Restart
               \/ \E n \in Attempts : RequestLost(n)
               \/ WorkerDownloads \/ WorkerShips \/ UNCHANGED vars
        PROVE  UNCHANGED drive
    BY <2>8 DEF Upload, Start, InitAnswered, PutFile, CompleteAnswered, MarkUploaded, CallDies,
                PutFails, CallFails, Killed, Sweep, Restart, RequestLost,
                WorkerDownloads, WorkerShips, vars
  <2> QED
    BY <2>1, <2>3, <2>4, <2>5, <2>6, <2>7, <2>8 DEF Next, Environment, Upload
<1>2. TInv /\ OrderInv /\ PromptInv /\ [SlowNext]_<<vars, prompt>>
        => [prompt' /\ St \in Accepted
              => drive'[1] = Id /\ drive'[2] \in Accepted]_<<vars, prompt>>
  BY <1>1
<1> QED
  BY <1>2, SlowIsUpload, TInvCorrect, OrderCorrect, PromptCorrect, PTL
  DEF SlowSpec, AcceptedForGood
=============================================================================
