----------------------------- MODULE DriveQueue -----------------------------
(***************************************************************************)
(* The drive queue: the backend's /api/internal routes (next-job, complete, *)
(* release, violation), the R2 objects they guard, and the GPU workers that *)
(* claim drives, process them on the main thread and ship the evidence on a *)
(* second thread.  One element of Runs is one claim of one drive by one     *)
(* worker process, from the claim to the end of that worker's interest in   *)
(* it; several runs of the same drive are what goes wrong in this system.   *)
(* A worker process that ends never comes back (worker.py draws a fresh     *)
(* WORKER_ID at every start); its replacement is another element of Workers.*)
(***************************************************************************)
EXTENDS Integers, Sequences, FiniteSets

CONSTANTS
    Drives,       \* the drives, numbered in uploadedAt order
    Workers,      \* worker processes
    Runs,         \* claims there can be in a behaviour (a bound)
    Viols,        \* the violation ids a pipeline run may find
    WorkDirOf,    \* the WORK_DIR of each worker; workers of one host share it
    Slots,        \* max(1, MAX_PENDING_SHIPS)
    ShipAsync,    \* the workers with SHIP_ASYNC=1: they ship on a second thread
    Timely,       \* a claim only reaches JOB_STALE_MINUTES when nobody works on it
    MaxFaults,    \* crashes, lost calls and failing calls in a behaviour (a bound)
    NoWorker,     \* workerId: null
    NoRun         \* the main thread holds no drive

ASSUME ConstantsOK ==
    /\ Drives \subseteq Nat
    /\ NoWorker \notin Workers
    /\ NoRun \notin Runs
    /\ Slots \in Nat \ {0}
    /\ ShipAsync \subseteq Workers
    /\ Timely \in BOOLEAN
    /\ MaxFaults \in Nat
    /\ DOMAIN WorkDirOf = Workers

VARIABLES
    status,    \* Drive.status
    claimedAt, \* Drive.claimedAt: null, younger or older than JOB_STALE_MS
    workerId,  \* Drive.workerId
    raw,       \* drives whose raw inputs are all in R2
    clips,     \* evidence clips in R2: <<drive, violation>>
    docs,      \* Violation documents: <<drive, violation, run that posted it>>
    pc,        \* where each run is
    by,        \* the worker of each run
    of,        \* the drive of each run
    found,     \* the violations in its manifest
    todo,      \* those it still has to upload or post
    refused,   \* those whose POST was answered with an error status
    outcome,   \* what it tells the backend, "interrupted" if a stop-now cut that
    main,      \* where each worker's main thread is
    cur,       \* the run the main thread is busy with
    shipq,     \* runs handed to the ship thread, the head is being shipped
    stop,      \* StopControl.level of each worker
    dirs,      \* job dirs on disk: <<WORK_DIR, drive>>
    calls,     \* complete/release/retention handlers running in the backend
    lost,      \* runs one of whose calls, or whose claim reply, was lost
    faults     \* faults so far

backend == <<status, claimedAt, workerId>>
storage == <<raw, clips, docs>>
job     == <<by, of>>
work    == <<found, todo, refused>>
local   == <<main, cur, shipq, stop, dirs>>
vars == <<status, claimedAt, workerId, raw, clips, docs, pc, by, of, found, todo,
          refused, outcome, main, cur, shipq, stop, dirs, calls, lost, faults>>

Statuses  == {"queued", "processing", "processed", "failed"}
RunPC     == {"unused", "reply", "handback", "download", "pipeline", "abandon",
              "submit", "upload", "post", "report", "tidy",
              "over", "dead", "lost"}
MainPC    == {"poll", "claiming", "drive", "submit", "ship", "drain", "down"}
Outcomes  == {"none", "processed", "failed", "interrupted"}
Calls     == [kind : {"processed", "failed", "release", "purge"}, run : Runs]
WorkDirs  == {WorkDirOf[w] : w \in Workers}
TypeOK ==
    /\ status \in [Drives -> Statuses]
    /\ claimedAt \in [Drives -> {"null", "fresh", "stale"}]
    /\ workerId \in [Drives -> Workers \cup {NoWorker}]
    /\ raw \subseteq Drives
    /\ clips \subseteq Drives \X Viols
    /\ docs \subseteq Drives \X Viols \X Runs
    /\ pc \in [Runs -> RunPC]
    /\ by \in [Runs -> Workers \cup {NoWorker}]
    /\ of \in [Runs -> Drives \cup {0}]
    /\ found \in [Runs -> SUBSET Viols]
    /\ todo \in [Runs -> SUBSET Viols]
    /\ refused \in [Runs -> SUBSET Viols]
    /\ outcome \in [Runs -> Outcomes]
    /\ main \in [Workers -> MainPC]
    /\ cur \in [Workers -> Runs \cup {NoRun}]
    /\ shipq \in [Workers -> Seq(Runs)]
    /\ stop \in [Workers -> {"none", "graceful", "now"}]
    /\ dirs \subseteq WorkDirs \X Drives
    /\ calls \subseteq Calls
    /\ lost \subseteq Runs
    /\ faults \in 0..MaxFaults

Init ==
    /\ status = [d \in Drives |-> "queued"]
    /\ claimedAt = [d \in Drives |-> "null"]
    /\ workerId = [d \in Drives |-> NoWorker]
    /\ raw = Drives
    /\ clips = {} /\ docs = {}
    /\ pc = [c \in Runs |-> "unused"]
    /\ by = [c \in Runs |-> NoWorker]
    /\ of = [c \in Runs |-> 0]
    /\ found = [c \in Runs |-> {}]
    /\ todo = [c \in Runs |-> {}]
    /\ refused = [c \in Runs |-> {}]
    /\ outcome = [c \in Runs |-> "none"]
    /\ main = [w \in Workers |-> "poll"]
    /\ cur = [w \in Workers |-> NoRun]
    /\ shipq = [w \in Workers |-> << >>]
    /\ stop = [w \in Workers |-> "none"]
    /\ dirs = {} /\ calls = {} /\ lost = {}
    /\ faults = 0

-----------------------------------------------------------------------------
Fault == faults < MaxFaults /\ faults' = faults + 1

\* The worker still has something to do for this run.
Live(c) == pc[c] \notin {"unused", "over", "dead", "lost"}
OneDirForAll(c) == <<WorkDirOf[by[c]], CHOOSE d \in Drives : TRUE>>  \* mutant
JobDir(c) == <<WorkDirOf[by[c]], of[c]>>
Rmtree(c) == dirs \ {JobDir(c)}
Call(k, c) == [kind |-> k, run |-> c]
\* Somebody works on the drive, or the backend still runs a call about it.
Busy(d) == \/ \E c \in Runs : of[c] = d /\ Live(c)
           \/ \E m \in calls : of[m.run] = d

Goto(c, next) == pc' = [pc EXCEPT ![c] = next]
AnyOf(c, v) == TRUE                                                            \* mutant
LastOf(c, v) == todo[c] = {v}
Settle(c, result) == Goto(c, "report") /\ outcome' = [outcome EXCEPT ![c] = result]
\* c is the run worker w's main thread is busy with.
Current(w, c) == cur[w] = c /\ c \in Runs

\* Nothing refreshes claimedAt: a claim gets older than JOB_STALE_MS while its
\* worker is at work, unless that is assumed not to happen (Timely).
ClaimExpires(d) ==
    /\ status[d] = "processing" /\ claimedAt[d] = "fresh"
    /\ Timely => ~Busy(d)
    /\ claimedAt' = [claimedAt EXCEPT ![d] = "stale"]
    /\ UNCHANGED <<status, workerId, storage, pc, job, work, outcome, local,
                   calls, lost, faults>>

-----------------------------------------------------------------------------
(* GET /next-job, in its two database steps *)

OnlyStopNow(w) == stop[w] = "now"                                              \* mutant
StopRequested(w) == stop[w] # "none"

\* What the watchdog's filter selects.
StuckAtAnyAge == {d \in Drives : status[d] = "processing"}                     \* mutant
StuckOrFailed == {d \in Drives : claimedAt[d] = "stale" \/ status[d] = "failed"} \* mutant
NothingStuck  == {}                                                            \* mutant
Stuck == {d \in Drives : status[d] = "processing" /\ claimedAt[d] = "stale"}

\* The $set of the watchdog and of a release.
RequeueAsCreated(S) ==                                                         \* mutant
    /\ status' = [d \in Drives |-> IF d \in S THEN "created" ELSE status[d]]
    /\ UNCHANGED <<claimedAt, workerId>>
Requeue(S) ==
    /\ status' = [d \in Drives |-> IF d \in S THEN "queued" ELSE status[d]]
    /\ claimedAt' = [d \in Drives |-> IF d \in S THEN "null" ELSE claimedAt[d]]
    /\ workerId' = [d \in Drives |-> IF d \in S THEN NoWorker ELSE workerId[d]]

\* claim_job: the loop's stop check, then the handler's watchdog updateMany.
Poll(w) ==
    /\ main[w] = "poll" /\ ~StopRequested(w)
    /\ Requeue(Stuck)
    /\ main' = [main EXCEPT ![w] = "claiming"]
    /\ UNCHANGED <<storage, pc, job, work, outcome, cur, shipq, stop, dirs,
                   calls, lost, faults>>

QueuedOrFailed == {d \in Drives : status[d] \in {"queued", "failed"}}          \* mutant
Queued == {d \in Drives : status[d] = "queued"}
Oldest(d) == \A e \in Queued : d <= e
Unused == {c \in Runs : pc[c] = "unused"}

\* The findOneAndUpdate of the handler, on the oldest queued drive.
ClaimOldest(w, c, next) ==
    /\ main[w] = "claiming"
    /\ c \in Unused /\ c = CHOOSE x \in Unused : TRUE
    /\ \E d \in Queued :
         /\ Oldest(d)
         /\ status' = [status EXCEPT ![d] = "processing"]
         /\ claimedAt' = [claimedAt EXCEPT ![d] = "fresh"]
         /\ workerId' = [workerId EXCEPT ![d] = w]
         /\ of' = [of EXCEPT ![c] = d]
    /\ by' = [by EXCEPT ![c] = w]
    /\ Goto(c, next)
    /\ UNCHANGED <<storage, work, outcome, shipq, stop, dirs, calls>>

Claim(w) == \E c \in Runs :
    /\ ClaimOldest(w, c, "reply")
    /\ main' = [main EXCEPT ![w] = "drive"]
    /\ cur' = [cur EXCEPT ![w] = c]
    /\ UNCHANGED <<lost, faults>>

\* The claim is committed but claim_job times out: the worker knows of no drive.
ClaimReplyLost(w) == \E c \in Runs :
    /\ ClaimOldest(w, c, "lost")
    /\ main' = [main EXCEPT ![w] = "poll"]
    /\ lost' = lost \cup {c}
    /\ Fault
    /\ UNCHANGED cur

NoJobs(w) ==
    /\ main[w] = "claiming" /\ Queued = {}
    /\ main' = [main EXCEPT ![w] = "poll"]
    /\ UNCHANGED <<backend, storage, pc, job, work, outcome, cur, shipq, stop,
                   dirs, calls, lost, faults>>

-----------------------------------------------------------------------------
(* The main thread: process() *)

\* The claimed drive is started, or handed back when a stop came meanwhile.
Start(w) == \E c \in Runs :
    /\ Current(w, c) /\ pc[c] = "reply"
    /\ IF StopRequested(w)
       THEN /\ Goto(c, "handback")
            /\ main' = [main EXCEPT ![w] = "drain"]
            /\ UNCHANGED dirs
       ELSE /\ Goto(c, "download")
            /\ dirs' = dirs \cup {JobDir(c)}
            /\ UNCHANGED main
    /\ UNCHANGED <<backend, storage, job, work, outcome, cur, shipq, stop,
                   calls, lost, faults>>

Download(w) == \E c \in Runs :
    /\ Current(w, c) /\ pc[c] = "download"
    /\ of[c] \in raw /\ JobDir(c) \in dirs
    /\ Goto(c, "pipeline")
    /\ UNCHANGED <<backend, storage, job, work, outcome, local, calls, lost,
                   faults>>

\* The pipeline and unpack_bundle end with the violations found.
Pipeline(w) == \E c \in Runs, manifest \in SUBSET Viols :
    /\ Current(w, c) /\ pc[c] = "pipeline" /\ JobDir(c) \in dirs
    /\ Goto(c, "submit")
    /\ found' = [found EXCEPT ![c] = manifest]
    /\ todo' = [todo EXCEPT ![c] = manifest]
    /\ main' = [main EXCEPT ![w] = "submit"]
    /\ UNCHANGED <<backend, storage, job, refused, outcome, cur, shipq, stop,
                   dirs, calls, lost, faults>>

\* The except branch: any exception of process() fails the drive.
ProcessFails(w) == \E c \in Runs :
    /\ Current(w, c) /\ pc[c] \in {"download", "pipeline"}
    /\ Settle(c, "failed")
    /\ UNCHANGED <<backend, storage, job, work, local, calls, lost, faults>>

\* KeyboardInterrupt inside drive(), whose body includes the except branch.
StopNow(w) == \E c \in Runs :
    /\ Current(w, c) /\ main[w] = "drive" /\ stop[w] = "now"
    /\ pc[c] \in {"download", "pipeline", "report", "tidy"}
    /\ Goto(c, "abandon")
    /\ outcome' = [outcome EXCEPT ![c] = IF @ = "failed" THEN "interrupted" ELSE @]
    /\ main' = [main EXCEPT ![w] = "drain"]
    /\ UNCHANGED <<backend, storage, job, work, cur, shipq, stop, dirs, calls,
                   lost, faults>>

\* release(): sent once, whatever becomes of it.
Release(w) == \E c \in Runs :
    /\ Current(w, c) /\ pc[c] \in {"handback", "abandon"}
    /\ calls' = calls \cup {Call("release", c)}
    /\ IF pc[c] = "abandon"
       THEN Goto(c, "tidy") /\ UNCHANGED cur
       ELSE Goto(c, "over") /\ cur' = [cur EXCEPT ![w] = NoRun]
    /\ UNCHANGED <<backend, storage, job, work, outcome, main, shipq, stop,
                   dirs, lost, faults>>

OneSlotTooMany(w) == Len(shipq[w]) <= Slots                                    \* mutant
SlotFree(w) == Len(shipq[w]) < Slots
AfterSubmit(w) == IF w \in ShipAsync THEN "poll" ELSE "ship"

\* submit_ship(): blocks while every slot is taken.
Submit(w) == \E c \in Runs :
    /\ Current(w, c) /\ pc[c] = "submit" /\ SlotFree(w)
    /\ Goto(c, "upload")
    /\ shipq' = [shipq EXCEPT ![w] = Append(@, c)]
    /\ cur' = [cur EXCEPT ![w] = NoRun]
    /\ main' = [main EXCEPT ![w] = AfterSubmit(w)]
    /\ UNCHANGED <<backend, storage, job, work, outcome, stop, dirs, calls,
                   lost, faults>>

-----------------------------------------------------------------------------
(* The ship thread: ship() *)

Shipping(w, c) == shipq[w] # << >> /\ c = Head(shipq[w])

UploadClip(w) == \E c \in Runs :
    /\ Shipping(w, c) /\ pc[c] = "upload" /\ JobDir(c) \in dirs
    /\ \E v \in todo[c] :
         /\ clips' = clips \cup {<<of[c], v>>}
         /\ IF LastOf(c, v)
            THEN Goto(c, "post") /\ todo' = [todo EXCEPT ![c] = found[c]]
            ELSE todo' = [todo EXCEPT ![c] = @ \ {v}] /\ UNCHANGED pc
    /\ UNCHANGED <<backend, raw, docs, job, found, refused, outcome, local,
                   calls, lost, faults>>

\* report_violation: the backend's create and its answer, of which a refusal is
\* logged and otherwise ignored, while a lost request or reply is an exception.
PostViolation(w) == \E c \in Runs :
    /\ Shipping(w, c) /\ pc[c] = "post"
    /\ \E v \in todo[c] :
         /\ todo' = [todo EXCEPT ![c] = @ \ {v}]
         /\ \/ /\ docs' = docs \cup {<<of[c], v, c>>}
               /\ IF LastOf(c, v) THEN Settle(c, "processed") ELSE UNCHANGED <<pc, outcome>>
               /\ UNCHANGED <<refused, faults>>
            \/ /\ Fault
               /\ refused' = [refused EXCEPT ![c] = @ \cup {v}]
               /\ IF LastOf(c, v) THEN Settle(c, "processed") ELSE UNCHANGED <<pc, outcome>>
               /\ UNCHANGED docs
            \/ /\ Fault
               /\ Settle(c, "failed")
               /\ docs' \in {docs, docs \cup {<<of[c], v, c>>}}
               /\ UNCHANGED refused
    /\ UNCHANGED <<backend, raw, clips, job, found, local, calls, lost>>

NothingFound(c) == found[c] = {}
ShipNothing(w) == \E c \in Runs :
    /\ Shipping(w, c) /\ pc[c] = "upload" /\ NothingFound(c)
    /\ Settle(c, "processed")
    /\ UNCHANGED <<backend, storage, job, work, local, calls, lost, faults>>

\* Any other exception of ship(): a clip cannot be read, encoded or uploaded.
ShipFails(w) == \E c \in Runs :
    /\ Shipping(w, c) /\ pc[c] = "upload" /\ ~NothingFound(c)
    /\ Settle(c, "failed")
    /\ UNCHANGED <<backend, storage, job, work, local, calls, lost, faults>>

-----------------------------------------------------------------------------
(* Both threads *)

\* complete(): sent once; the answer, or its absence, is ignored.
Complete(c) ==
    /\ pc[c] = "report"
    /\ calls' = calls \cup {Call(outcome[c], c)}
    /\ Goto(c, "tidy")
    /\ UNCHANGED <<backend, storage, job, work, outcome, local, lost, faults>>

\* rmtree(job_dir), after which the thread turns to its next drive.
Tidy(c) ==
    /\ pc[c] = "tidy"
    /\ dirs' = Rmtree(c)
    /\ Goto(c, "over")
    /\ UNCHANGED <<backend, storage, job, work, outcome, stop, calls, lost, faults>>

MainTidy(w) == \E c \in Runs :
    /\ Current(w, c) /\ Tidy(c)
    /\ cur' = [cur EXCEPT ![w] = NoRun]
    /\ main' = [main EXCEPT ![w] = IF @ = "drive" THEN "poll" ELSE @]
    /\ UNCHANGED shipq

ShipTidy(w) == \E c \in Runs :
    /\ Shipping(w, c) /\ Tidy(c)
    /\ shipq' = [shipq EXCEPT ![w] = Tail(@)]
    /\ main' = [main EXCEPT ![w] = IF @ = "ship" THEN "poll" ELSE @]
    /\ UNCHANGED cur

MainComplete(w) == \E c \in Runs : Current(w, c) /\ Complete(c)
ShipComplete(w) == \E c \in Runs : Shipping(w, c) /\ Complete(c)

-----------------------------------------------------------------------------
(* The end of a worker *)

RequestStop(w, level) ==
    /\ main[w] # "down"
    /\ <<stop[w], level>> \in {<<"none", "graceful">>, <<"none", "now">>, <<"graceful", "now">>}
    /\ stop' = [stop EXCEPT ![w] = level]
    /\ UNCHANGED <<backend, storage, pc, job, work, outcome, main, cur, shipq,
                   dirs, calls, lost, faults>>

\* The loop sees the stop at its head and leaves for _SHIP_POOL.shutdown(wait=True).
LeaveLoop(w) ==
    /\ main[w] = "poll" /\ StopRequested(w)
    /\ main' = [main EXCEPT ![w] = "drain"]
    /\ UNCHANGED <<backend, storage, pc, job, work, outcome, cur, shipq, stop,
                   dirs, calls, lost, faults>>

NoDriveInHand(w) == cur[w] = NoRun                                             \* mutant
NothingInHand(w) == cur[w] = NoRun /\ shipq[w] = << >>
Drained(w) ==
    /\ main[w] = "drain" /\ NothingInHand(w)
    /\ main' = [main EXCEPT ![w] = "down"]
    /\ UNCHANGED <<backend, storage, pc, job, work, outcome, cur, shipq, stop,
                   dirs, calls, lost, faults>>

\* The second Ctrl+C while the main thread waits for a slot: the drive is dropped.
ForcedDrop(w) == \E c \in Runs :
    /\ Current(w, c) /\ pc[c] = "submit" /\ stop[w] = "now"
    /\ Fault
    /\ Goto(c, "dead")
    /\ cur' = [cur EXCEPT ![w] = NoRun]
    /\ main' = [main EXCEPT ![w] = "drain"]
    /\ UNCHANGED <<backend, storage, job, work, outcome, shipq, stop, dirs,
                   calls, lost>>

\* The same while the main thread ships a drive itself, whose finally branch is run.
ForcedCut(w) == \E c \in Runs :
    /\ main[w] = "ship" /\ stop[w] = "now"
    /\ Shipping(w, c) /\ pc[c] \in {"upload", "post", "report", "tidy"}
    /\ Fault
    /\ Goto(c, "dead")
    /\ dirs' = Rmtree(c)
    /\ shipq' = [shipq EXCEPT ![w] = Tail(@)]
    /\ main' = [main EXCEPT ![w] = "drain"]
    /\ UNCHANGED <<backend, storage, job, work, outcome, cur, stop, calls, lost>>

\* The process dies: all its runs end where they are, its job dirs stay.
Crash(w) ==
    /\ main[w] # "down"
    /\ Fault
    /\ pc' = [c \in Runs |-> IF by[c] = w /\ Live(c) THEN "dead" ELSE pc[c]]
    /\ main' = [main EXCEPT ![w] = "down"]
    /\ cur' = [cur EXCEPT ![w] = NoRun]
    /\ shipq' = [shipq EXCEPT ![w] = << >>]
    /\ UNCHANGED <<backend, storage, job, work, outcome, stop, dirs, calls, lost>>

-----------------------------------------------------------------------------
(* The backend's handlers, which outlive the worker's timeout *)

AlwaysPurges(result) == TRUE                                                  \* mutant
Purges(result) == result = "processed"

\* POST /drive/:id/complete up to its save: no look at status or workerId.
HandleComplete(c) == \E result \in {"processed", "failed"} :
    /\ Call(result, c) \in calls
    /\ status' = [status EXCEPT ![of[c]] = result]
    /\ calls' = (calls \ {Call(result, c)})
                  \cup (IF Purges(result) THEN {Call("purge", c)} ELSE {})
    /\ UNCHANGED <<claimedAt, workerId, storage, pc, job, work, outcome, local,
                   lost, faults>>

\* The retention loop at the end of the same handler.
PurgeRaw(c) ==
    /\ Call("purge", c) \in calls
    /\ raw' \in {raw, raw \ {of[c]}}
    /\ calls' = calls \ {Call("purge", c)}
    /\ UNCHANGED <<backend, clips, docs, pc, job, work, outcome, local, lost,
                   faults>>

\* POST /drive/:id/release: only for the worker that holds the claim.
HandleRelease(c) ==
    /\ Call("release", c) \in calls
    /\ Requeue({of[c]} \cap {d \in Drives : status[d] = "processing"
                                                /\ workerId[d] = by[c]})
    /\ calls' = calls \ {Call("release", c)}
    /\ UNCHANGED <<storage, pc, job, work, outcome, local, lost, faults>>

\* The request never arrives, or the backend restarts before it is served.
LoseCall(c) == \E k \in {"processed", "failed", "release"} :
    /\ Call(k, c) \in calls
    /\ calls' = calls \ {Call(k, c)}
    /\ lost' = lost \cup {c}
    /\ Fault
    /\ UNCHANGED <<backend, storage, pc, job, work, outcome, local>>

MainThread(w) ==
    \/ Poll(w) \/ Claim(w) \/ NoJobs(w) \/ Start(w) \/ Download(w) \/ Pipeline(w)
    \/ ProcessFails(w) \/ StopNow(w) \/ Release(w) \/ Submit(w)
    \/ MainComplete(w) \/ MainTidy(w) \/ LeaveLoop(w) \/ Drained(w)
ShipThread(w) ==
    \/ UploadClip(w) \/ PostViolation(w) \/ ShipNothing(w) \/ ShipFails(w)
    \/ ShipComplete(w) \/ ShipTidy(w)
Handler(c) == HandleComplete(c) \/ PurgeRaw(c) \/ HandleRelease(c)
Environment ==
    \/ \E d \in Drives : ClaimExpires(d)
    \/ \E w \in Workers : ClaimReplyLost(w) \/ ForcedDrop(w) \/ ForcedCut(w) \/ Crash(w)
                            \/ RequestStop(w, "graceful") \/ RequestStop(w, "now")
    \/ \E c \in Runs : LoseCall(c)

Next == \/ \E w \in Workers : MainThread(w) \/ ShipThread(w)
        \/ \E c \in Runs : Handler(c)
        \/ Environment

Spec == Init /\ [][Next]_vars

\* The worker's threads keep running, requests are served, and clocks advance.
FairSpec ==
    /\ Spec
    /\ \A w \in Workers : WF_vars(MainThread(w)) /\ WF_vars(ShipThread(w))
    /\ \A c \in Runs : WF_vars(Handler(c))
    /\ \A d \in Drives : WF_vars(ClaimExpires(d))

-----------------------------------------------------------------------------
(* Safety *)

\* A run whose worker will still act on its drive holds the drive's claim: the
\* backend shows the drive as processing by that worker, and no other run of the
\* drive is at work.  The exception is a drive a stop-now hit while its failure
\* was being reported: both a failure and a release are then on their way.
AtWork(c) == /\ pc[c] \in {"reply", "handback", "download", "pipeline",
                               "abandon", "submit", "upload", "post", "report"}
             /\ outcome[c] # "interrupted"
Interrupted(d) == \E c \in Runs : of[c] = d /\ outcome[c] = "interrupted"
ClaimHeld ==
    \A c \in Runs : AtWork(c) /\ ~Interrupted(of[c]) =>
        /\ status[of[c]] = "processing"
        /\ workerId[of[c]] = by[c]
        /\ \A b \in Runs \ {c} : of[b] = of[c] => ~AtWork(b)

\* The raw inputs stay in R2 until the drive is processed.
RawKept == \A d \in Drives : status[d] # "processed" => d \in raw \/ Interrupted(d)

\* A Violation document is only there once its clip is.
ClipBeforeDoc == \A t \in docs : <<t[1], t[2]>> \in clips

\* A drive is processed only after each violation of some whole run of it was
\* either recorded or refused by the backend.
AllReported ==
    \A d \in Drives : status[d] = "processed" =>
        \E c \in Runs :
            /\ of[c] = d /\ outcome[c] = "processed"
            /\ \A v \in found[c] \ refused[c] : <<d, v, c>> \in docs

\* The same violation is recorded twice only if a run of the drive was cut by
\* the death of its worker, or one of its calls was lost.
DuplicatesExplained ==
    \A s, t \in docs : (s # t /\ s[1] = t[1] /\ s[2] = t[2]) =>
        \E c \in {s[3], t[3]} : pc[c] = "dead" \/ c \in lost

\* Every job dir belongs to a live run, or was left by a worker that died.
DirsOwned ==
    \A t \in dirs : \E c \in Runs :
        /\ pc[c] # "unused" /\ JobDir(c) = t
        /\ Live(c) \/ pc[c] = "dead"

\* From process() to the last upload, nobody deletes a run's job dir under it.
JobDirKept ==
    \A c \in Runs : pc[c] \in {"download", "pipeline", "submit", "upload"} =>
        JobDir(c) \in dirs

\* The job dirs on a host are exactly as long-lived as the runs that need them.
JobDirsSafe == DirsOwned /\ JobDirKept

\* The pipeline does not run further ahead of the uploads than the ship slots
\* allow; without a ship thread a worker has one drive at a time.
BacklogBounded ==
    \A w \in Workers : main[w] # "down" =>
        Cardinality({c \in Runs : by[c] = w /\ Live(c)})
            <= IF w \in ShipAsync THEN Slots + 1 ELSE 1

\* An orderly exit waits for the ship tail of every drive: it cuts no run.
Crashed(w) == \E c \in Runs : by[c] = w /\ pc[c] = "dead"
ExitLeavesNothing ==
    \A w \in Workers : main[w] = "down" /\ ~Crashed(w) =>
        \A c \in Runs : by[c] = w => ~Live(c)

\* A settled drive is settled for good.
SettledStays ==
    [][\A d \in Drives : status[d] \in {"processed", "failed"} /\ ~Interrupted(d)
            => status'[d] = status[d]]_vars

-----------------------------------------------------------------------------
(* What the queue promises: DriveClaims *)

\* The calls that end a claim, and the runs that hold a claim or are ending it.
LastCalls == {"processed", "failed", "release"}
Engaged(c) == AtWork(c) \/ \E k \in LastCalls : Call(k, c) \in calls

stateOf   == [d \in Drives |-> IF Interrupted(d) THEN "disputed"
                              ELSE IF status[d] = "processing" THEN "held" ELSE status[d]]
holderOf  == [d \in Drives |-> IF Interrupted(d) THEN NoWorker ELSE workerId[d]]
workingOn == {d \in Drives : ~Interrupted(d) /\ \E c \in Runs : of[c] = d /\ Engaged(c)}

Promise == INSTANCE DriveClaims
           WITH state <- stateOf, holder <- holderOf, working <- workingOn

\* Whatever workers, handlers, crashes and lost calls do to a drive looks, from
\* the outside, like one worker at a time taking, settling or giving it back.
OneHolderAtATime == Promise!Spec

-----------------------------------------------------------------------------
(* What the code's comments say and the code does not keep *)

\* Drive.js: a processed drive has its violations recorded.
ProcessedMeansRecorded ==
    \A d \in Drives : status[d] = "processed" =>
        \E c \in Runs : /\ of[c] = d /\ outcome[c] = "processed"
                        /\ \A v \in found[c] : <<d, v, c>> \in docs

\* worker.py, on a stop-now: nothing has been reported for this drive yet.
NothingReportedYet == \A c \in Runs : pc[c] = "abandon" => Call("failed", c) \notin calls

\* next-job: two workers cannot grab the same drive.
OneWorkerPerDrive ==
    \A b, c \in Runs : AtWork(b) /\ AtWork(c) /\ of[b] = of[c] => b = c

\* PendingShip: nothing else may delete its job dir before it is shipped.
PendingShipOwnsDir ==
    \A c \in Runs : pc[c] \in {"submit", "upload"} => JobDir(c) \in dirs

-----------------------------------------------------------------------------
(* Liveness *)

\* Whatever crashes and gets lost, each drive is settled in the end, unless no
\* worker process is left.
EveryDriveSettles ==
    \/ \A d \in Drives : <>(status[d] \in {"processed", "failed"})
    \/ <>(\A w \in Workers : main[w] = "down")

\* A worker asked to stop does stop.
StopEnds == \A w \in Workers : stop[w] # "none" ~> main[w] = "down"
=============================================================================
