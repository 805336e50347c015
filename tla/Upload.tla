------------------------------- MODULE Upload -------------------------------
(***************************************************************************)
(* The upload of one recorded session: UploadService and SessionStore on    *)
(* the phone, the init and complete handlers of the backend's               *)
(* driverController with each of their awaits a step of its own, the        *)
(* session's prefix in R2, and the worker that picks the drive up.  The     *)
(* phone runs one attempt at a time; what it has given up on may still be   *)
(* running in the backend when the next attempt begins.                     *)
(***************************************************************************)
EXTENDS Integers, FiniteSets

CONSTANTS
    NFiles,       \* files of a session, file 1 is the video, HEADed in this order
    MaxAttempts,  \* attempts in a behaviour (a bound)
    MaxFaults,    \* timeouts, lost messages, kills and refusals (a bound)
    Late          \* what of a call the phone gave up on may still happen:
                  \* "none", "slow" a handler that runs, "late" a request under way

ASSUME ConstantsOK ==
    /\ NFiles \in Nat \ {0}
    /\ MaxAttempts \in Nat
    /\ MaxFaults \in Nat
    /\ Late \in {"none", "slow", "late"}

VARIABLES
    phone,    \* what the upload thread waits for
    attempt,  \* the number of the current or last attempt
    sent,     \* how many files of the attempt are PUT
    shown,    \* the result the last attempt left on screen
    folder,   \* the session folder: flagged with uploaded.flag, deleted, ...
    init,     \* the init request of each attempt and its handler
    comp,     \* the complete request of each attempt and its handler
    seen,     \* the Drive each handler's findOne returned: <<id, status>>
    heads,    \* the next file each complete handler HEADs
    drive,    \* the session's Drive document: <<id, status>>
    stored,   \* the session's files in R2
    evidence, \* the evidence clips in R2 under <session>/out/
    claim,    \* the Drive the worker has claimed
    work,     \* how far it is with it: "claimed", "fetched" or "shipped"
    faults

worker  == <<claim, work>>
app     == <<phone, attempt, sent, shown, folder>>
serving == <<init, comp, seen, heads>>
bucket  == <<stored, evidence>>
vars == <<phone, attempt, sent, shown, folder, init, comp, seen, heads,
          drive, stored, evidence, claim, work, faults>>

Attempts == 1..MaxAttempts
Files    == 1..NFiles
NoDrive  == <<0, "none">>
Status   == {"created", "queued", "processing", "processed", "failed", "rejected"}
DriveDoc == {NoDrive} \cup (Attempts \X Status)  \* numbered by the attempt that created it

TypeOK ==
    /\ phone \in {"idle", "init", "put", "complete", "mark"}
    /\ attempt \in 0..MaxAttempts
    /\ sent \in 0..NFiles
    /\ shown \in {"nothing", "failed", "uploaded"}
    /\ folder \in {"kept", "flagged", "swept", "expired"}
    /\ init \in [Attempts -> {"none", "sent", "clean", "delete", "guard", "create",
                              "ok", "error", "gone"}]
    /\ comp \in [Attempts -> {"none", "sent", "head", "queue", "reject", "purge",
                              "ok", "error", "gone"}]
    /\ seen \in [{"init", "comp"} \X Attempts -> DriveDoc]
    /\ heads \in [Attempts -> 1..(NFiles + 1)]
    /\ drive \in DriveDoc
    /\ stored \subseteq Files
    /\ evidence \in BOOLEAN
    /\ claim \in 0..MaxAttempts
    /\ work \in {"claimed", "fetched", "shipped"}
    /\ faults \in 0..MaxFaults

Init ==
    /\ phone = "idle" /\ attempt = 0 /\ sent = 0 /\ shown = "nothing" /\ folder = "kept"
    /\ init = [n \in Attempts |-> "none"]
    /\ comp = [n \in Attempts |-> "none"]
    /\ seen = [h \in {"init", "comp"} \X Attempts |-> NoDrive]
    /\ heads = [n \in Attempts |-> 1]
    /\ drive = NoDrive /\ stored = {} /\ evidence = FALSE
    /\ claim = 0 /\ work = "claimed" /\ faults = 0

-----------------------------------------------------------------------------
Fault == faults < MaxFaults /\ faults' = faults + 1

Id == drive[1]
St == drive[2]
InitTo(n, next) == init' = [init EXCEPT ![n] = next]
CompTo(n, next) == comp' = [comp EXCEPT ![n] = next]
Running(state)  == state \notin {"none", "sent", "ok", "error", "gone"}

\* r2.deletePrefix: takes the evidence too, and a failure of it is only logged.
DeletePrefix ==
    \/ stored' = {} /\ evidence' = FALSE /\ UNCHANGED faults
    \/ UNCHANGED bucket /\ Fault

-----------------------------------------------------------------------------
(* The phone *)

\* UploadService.start, for a session the screens still offer.
Start ==
    /\ phone = "idle" /\ folder = "kept" /\ attempt < MaxAttempts
    /\ attempt' = attempt + 1
    /\ phone' = "init"
    /\ sent' = 0
    /\ InitTo(attempt + 1, "sent")
    /\ UNCHANGED <<shown, folder, comp, seen, heads, drive, bucket, worker, faults>>

\* The reply of init: presigned URLs, or an error status.
InitAnswered ==
    /\ phone = "init" /\ init[attempt] \in {"ok", "error"}
    /\ IF init[attempt] = "ok"
       THEN phone' = "put" /\ UNCHANGED shown
       ELSE phone' = "idle" /\ shown' = "failed"
    /\ UNCHANGED <<attempt, sent, folder, serving, drive, bucket, worker, faults>>

MarksAfterPuts(n) == phone' = "mark" /\ UNCHANGED comp                          \* mutant
AfterPuts(n) == phone' = "complete" /\ CompTo(n, "sent")

\* One PUT to R2, in the order of the plan.
PutFile ==
    /\ phone = "put"
    /\ stored' = stored \cup {sent + 1}
    /\ sent' = sent + 1
    /\ IF sent + 1 = NFiles THEN AfterPuts(attempt) ELSE UNCHANGED <<phone, comp>>
    /\ UNCHANGED <<attempt, shown, folder, init, seen, heads, drive, evidence, worker, faults>>

PutFails ==
    /\ phone = "put"
    /\ stored' \in {stored, stored \cup {sent + 1}}
    /\ phone' = "idle" /\ shown' = "failed"
    /\ Fault
    /\ UNCHANGED <<attempt, sent, folder, serving, drive, evidence, worker>>

CompleteAnswered ==
    /\ phone = "complete" /\ comp[attempt] \in {"ok", "error"}
    /\ IF comp[attempt] = "ok"
       THEN phone' = "mark" /\ UNCHANGED shown
       ELSE phone' = "idle" /\ shown' = "failed"
    /\ UNCHANGED <<attempt, sent, folder, serving, drive, bucket, worker, faults>>

\* SessionStore.markUploaded, then the result is shown.
MarkUploaded ==
    /\ phone = "mark"
    /\ folder' = "flagged"
    /\ phone' = "idle" /\ shown' = "uploaded"
    /\ UNCHANGED <<attempt, sent, serving, drive, bucket, worker, faults>>

\* What the phone leaves behind of a call it gave up on.
Abandoned(state) ==
    /\ Late = "none" => ~Running(state)
    /\ Late # "late" => state # "sent"

\* No reply will come any more: the call fails.
CallDies ==
    /\ \/ phone = "init" /\ init[attempt] = "gone"
       \/ phone = "complete" /\ comp[attempt] = "gone"
    /\ phone' = "idle" /\ shown' = "failed"
    /\ UNCHANGED <<attempt, sent, folder, serving, drive, bucket, worker, faults>>

\* A timeout, a lost reply or a 401: the call fails, done or not.
CallFails ==
    /\ \/ phone = "init" /\ Abandoned(init[attempt])
       \/ phone = "complete" /\ Abandoned(comp[attempt])
    /\ phone' = "idle" /\ shown' = "failed"
    /\ Fault
    /\ UNCHANGED <<attempt, sent, folder, serving, drive, bucket, worker>>

\* Android kills the process; nothing of the attempt is persisted.
Killed ==
    /\ phone # "idle"
    /\ phone = "init" => Abandoned(init[attempt])
    /\ phone = "complete" => Abandoned(comp[attempt])
    /\ phone' = "idle"
    /\ Fault
    /\ UNCHANGED <<attempt, sent, shown, folder, serving, drive, bucket, worker>>

\* SessionStore.sweepStaleSessions at launch: never the folder that is uploading.
Sweep ==
    /\ phone = "idle" /\ folder \in {"kept", "flagged"}
    /\ folder' = IF folder = "flagged" THEN "swept" ELSE "expired"
    /\ UNCHANGED <<phone, attempt, sent, shown, serving, drive, bucket, worker, faults>>

-----------------------------------------------------------------------------
(* POST /driver/upload/init *)

RefusesAny == TRUE                                                              \* mutant
RefusesNone == FALSE                                                            \* mutant
Refuses == St # "created"

\* findOne({sessionId})
InitFind(n) ==
    /\ init[n] = "sent"
    /\ IF drive = NoDrive THEN InitTo(n, "guard")
       ELSE IF Refuses THEN InitTo(n, "error") ELSE InitTo(n, "clean")
    /\ seen' = [seen EXCEPT ![<<"init", n>>] = drive]
    /\ UNCHANGED <<app, comp, heads, drive, bucket, worker, faults>>

InitClean(n) ==
    /\ init[n] = "clean"
    /\ DeletePrefix
    /\ InitTo(n, "delete")
    /\ UNCHANGED <<app, comp, seen, heads, drive, worker>>

AnyDocument(n) == TRUE                                                          \* mutant
FoundDocument(n) == Id = seen[<<"init", n>>][1]

\* existing.deleteOne(): by id, whatever the document has become.
InitDelete(n) ==
    /\ init[n] = "delete"
    /\ drive' = IF FoundDocument(n) THEN NoDrive ELSE drive
    /\ InitTo(n, "guard")
    /\ UNCHANGED <<app, comp, seen, heads, bucket, worker, faults>>

\* The bucket's admission guard.
InitGuard(n) ==
    /\ init[n] = "guard"
    /\ \/ InitTo(n, "create") /\ UNCHANGED faults
       \/ InitTo(n, "error") /\ Fault
    /\ UNCHANGED <<app, comp, seen, heads, drive, bucket, worker>>

\* Drive.create: sessionId is unique.
InitCreate(n) ==
    /\ init[n] = "create"
    /\ IF drive = NoDrive
       THEN drive' = <<n, "created">> /\ InitTo(n, "ok")
       ELSE InitTo(n, "error") /\ UNCHANGED drive
    /\ UNCHANGED <<app, comp, seen, heads, bucket, worker, faults>>

-----------------------------------------------------------------------------
(* POST /driver/upload/complete *)

\* findOne({sessionId, driverId}): no look at the status.
CompFind(n) ==
    /\ comp[n] = "sent"
    /\ CompTo(n, IF drive = NoDrive THEN "error" ELSE "head")
    /\ seen' = [seen EXCEPT ![<<"comp", n>>] = drive]
    /\ UNCHANGED <<app, init, heads, drive, bucket, worker, faults>>

CompHead(n) ==
    /\ comp[n] = "head"
    /\ IF heads[n] \notin stored THEN CompTo(n, "reject") /\ UNCHANGED heads
       ELSE /\ CompTo(n, IF heads[n] = NFiles THEN "queue" ELSE "head")
            /\ heads' = [heads EXCEPT ![n] = @ + 1]
    /\ UNCHANGED <<app, init, seen, drive, bucket, worker, faults>>

\* mongoose's save writes what was modified; a document that is gone is an error.
Gone(n) == Id # seen[<<"comp", n>>][1]
Save(n, s) ==
    drive' = IF Gone(n) \/ seen[<<"comp", n>>][2] = s THEN drive ELSE <<Id, s>>

CompQueue(n) ==
    /\ comp[n] = "queue"
    /\ Save(n, "queued")
    /\ CompTo(n, IF Gone(n) THEN "error" ELSE "ok")
    /\ UNCHANGED <<app, init, seen, heads, bucket, worker, faults>>

CompReject(n) ==
    /\ comp[n] = "reject"
    /\ Save(n, "rejected")
    /\ CompTo(n, IF Gone(n) THEN "error" ELSE "purge")
    /\ UNCHANGED <<app, init, seen, heads, bucket, worker, faults>>

CompPurge(n) ==
    /\ comp[n] = "purge"
    /\ DeletePrefix
    /\ CompTo(n, "error")
    /\ UNCHANGED <<app, init, seen, heads, drive, worker>>

-----------------------------------------------------------------------------
(* The network, the backend process and the worker *)

\* A request that never arrives.
RequestLost(n) ==
    /\ \/ init[n] = "sent" /\ InitTo(n, "gone") /\ UNCHANGED comp
       \/ comp[n] = "sent" /\ CompTo(n, "gone") /\ UNCHANGED init
    /\ Fault
    /\ UNCHANGED <<app, seen, heads, drive, bucket, worker>>

\* The backend restarts: the handlers it was running end where they are.
Restart ==
    /\ init' = [n \in Attempts |-> IF Running(init[n]) THEN "gone" ELSE init[n]]
    /\ comp' = [n \in Attempts |-> IF Running(comp[n]) THEN "gone" ELSE comp[n]]
    /\ <<init', comp'>> # <<init, comp>>
    /\ Fault
    /\ UNCHANGED <<app, seen, heads, drive, bucket, worker>>

\* next-job, after the watchdog has requeued an old claim.
WorkerClaims ==
    /\ St \in {"queued", "processing"} /\ claim # Id
    /\ drive' = <<Id, "processing">>
    /\ claim' = Id /\ work' = "claimed"
    /\ UNCHANGED <<app, serving, bucket, faults>>

WorkerDownloads ==
    /\ claim # 0 /\ work = "claimed" /\ stored = Files
    /\ work' = "fetched"
    /\ UNCHANGED <<app, serving, drive, bucket, claim, faults>>

\* The clips of a drive are in R2 before the drive is reported.
WorkerShips ==
    /\ claim # 0 /\ work = "fetched"
    /\ work' = "shipped" /\ evidence' = TRUE
    /\ UNCHANGED <<app, serving, drive, stored, claim, faults>>

Reports == {"processed", "failed", "queued"}
PurgedAfterAll(result) == TRUE                                                  \* mutant
PurgedAfter(result) == result = "processed"

\* The worker's complete, by id, and the retention that follows it; or its release. What
\* it calls processed it has shipped, whether it is still in R2 or not.
WorkerReports ==
    /\ claim # 0
    /\ \E result \in Reports :
         /\ result = "processed" => work = "shipped"
         /\ drive' = IF Id = claim THEN <<Id, result>> ELSE drive
         /\ stored' = IF Id = claim /\ PurgedAfter(result) THEN {} ELSE stored
    /\ claim' = 0 /\ work' = "claimed"
    /\ UNCHANGED <<app, serving, evidence, faults>>

Upload == Start \/ InitAnswered \/ PutFile \/ CompleteAnswered
          \/ MarkUploaded \/ CallDies
InitHandler(n) == InitFind(n) \/ InitClean(n) \/ InitDelete(n) \/ InitGuard(n) \/ InitCreate(n)
CompHandler(n) == CompFind(n) \/ CompHead(n) \/ CompQueue(n) \/ CompReject(n) \/ CompPurge(n)
Environment == \/ PutFails \/ CallFails \/ Killed \/ Sweep \/ Restart
               \/ \E n \in Attempts : RequestLost(n)
               \/ WorkerClaims \/ WorkerDownloads \/ WorkerShips \/ WorkerReports

Next == \/ Upload
        \/ \E n \in Attempts : InitHandler(n) \/ CompHandler(n)
        \/ Environment

Spec == Init /\ [][Next]_vars

\* The driver retries, the phone's calls end, and requests are served.
FairSpec ==
    /\ Spec
    /\ WF_vars(Upload)
    /\ \A n \in Attempts : WF_vars(InitHandler(n)) /\ WF_vars(CompHandler(n))

-----------------------------------------------------------------------------
Accepted == {"queued", "processing", "processed", "failed"}

\* A drive that waits for a worker has all its files in R2.
QueuedWhole == St = "queued" => stored = Files

\* Once the phone may delete the session, the server has it for good: accepted,
\* with the raw files until it is processed and the evidence afterwards.
PhoneMayForget ==
    folder \in {"flagged", "swept"} =>
        /\ St \in Accepted
        /\ St \in {"queued", "processing"} => stored = Files
        /\ St = "processed" => evidence

\* Nor can the drive be refused or replaced by then, even when a handler of an
\* earlier attempt is still running: what init deletes is the document it found.
NeverRefusedLater == folder \in {"flagged", "swept"} => St \in Accepted

\* The evidence of a processed drive stays in R2.
EvidenceKept == St = "processed" => evidence

\* An accepted drive is neither replaced by a new attempt nor rejected afterwards.
AcceptedStays == [][drive[2] \in Accepted => drive'[1] = drive[1] /\ drive'[2] \in Accepted]_vars

\* What the screens offer after a failure can succeed: init will take the session.
RetryPossible ==
    phone = "idle" /\ shown = "failed" /\ folder = "kept" => drive = NoDrive \/ St = "created"

\* A driver who keeps trying gets the drive accepted, unless it expires before.
EventuallyAccepted == <>(St \in Accepted \/ folder = "expired")
=============================================================================
