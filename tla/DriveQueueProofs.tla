-------------------------- MODULE DriveQueueProofs --------------------------
(***************************************************************************)
(* Theorems about DriveQueue, for any number of drives, workers, claims,    *)
(* violations and faults.  TypeCorrect holds of every instance; the others  *)
(* assume Timely: a claim only expires when nobody works on its drive and   *)
(* none of the drive's calls is running.  The inductive invariant has two   *)
(* layers: what a run is (BasicInv), then who holds its claim (ClaimInv).   *)
(* The last section maps the steps to those of DriveClaims.                 *)
(***************************************************************************)
EXTENDS DriveQueue, TLAPS

\* A run that was claimed has a worker and a drive.
RunInv == \A c \in Runs : pc[c] # "unused" => by[c] \in Workers /\ of[c] \in Drives

\* A run is in the hands of one thread of the worker that claimed it.
ThreadInv ==
    \A w \in Workers :
        /\ cur[w] \in Runs => pc[cur[w]] # "unused" /\ by[cur[w]] = w
        /\ \A i \in 1..Len(shipq[w]) :
             /\ pc[shipq[w][i]] # "unused"
             /\ by[shipq[w][i]] = w
             /\ shipq[w][i] # cur[w]

\* Only runs that were claimed have calls.
CallUsed == \A m \in calls : pc[m.run] # "unused"

\* What outcome a run has where; a stop-now cuts a drive of the main thread only
\* while that thread is in drive(), and a failure is all it can report there.
OutcomeInv ==
    \A c \in Runs :
        /\ pc[c] \in {"unused", "reply", "handback", "download", "pipeline",
                          "submit", "upload", "post"} => outcome[c] = "none"
        /\ pc[c] = "report" => outcome[c] \in {"processed", "failed"}
        /\ pc[c] = "abandon" => /\ outcome[c] \in {"none", "interrupted"}
                                /\ \A w \in Workers : cur[w] = c => main[w] = "drain"
        /\ outcome[c] = "interrupted" => pc[c] \in {"abandon", "tidy", "over", "dead"}
        /\ \A w \in Workers :
             cur[w] = c /\ main[w] = "drive" /\ pc[c] \in {"report", "tidy"} =>
                outcome[c] = "failed"

BasicInv == TypeOK /\ RunInv /\ ThreadInv /\ CallUsed /\ OutcomeInv

\* A drive whose claim has expired is nobody's business.
StaleInv ==
    \A d \in Drives : status[d] = "processing" /\ claimedAt[d] = "stale" => ~Busy(d)

\* A run makes one of the calls that end a claim, after its work.
CallInv ==
    \A c \in Runs : \A k \in LastCalls :
        Call(k, c) \in calls /\ ~Interrupted(of[c]) =>
            /\ pc[c] \in {"tidy", "over", "dead"}
            /\ \A j \in LastCalls : Call(j, c) \in calls => j = k

\* The claim is held until the call that ends it has been served.
EngagedInv ==
    \A c \in Runs : Engaged(c) /\ ~Interrupted(of[c]) =>
        /\ status[of[c]] = "processing"
        /\ workerId[of[c]] = by[c]
        /\ \A b \in Runs : of[b] = of[c] /\ Engaged(b) => b = c

\* Raw inputs are only deleted for a drive that is processed.
PurgeInv ==
    /\ \A c \in Runs : Call("purge", c) \in calls =>
          status[of[c]] = "processed" \/ Interrupted(of[c])
    /\ RawKept

ClaimInv == StaleInv /\ CallInv /\ EngagedInv /\ PurgeInv

-----------------------------------------------------------------------------
(* What a run is *)

\* Moving a run on keeps pc a function into RunPC.
LEMMA GotoType ==
  ASSUME TypeOK, NEW c \in Runs, NEW next \in RunPC, Goto(c, next)
  PROVE  pc' \in [Runs -> RunPC]
BY DEF TypeOK, Goto

\* The run at the head of the ship queue is its worker's, and no main thread has it.
LEMMA ShippingOwn ==
  ASSUME TypeOK, ThreadInv, NEW w \in Workers, NEW c \in Runs, Shipping(w, c)
  PROVE  by[c] = w /\ pc[c] # "unused" /\ \A x \in Workers : cur[x] # c
<1>1. c = shipq[w][1] /\ 1 \in 1..Len(shipq[w])
  BY DEF TypeOK, Shipping
<1> QED
  BY <1>1 DEF ThreadInv

\* Every step keeps the types.
LEMMA TypeStep ==
  ASSUME TypeOK, RunInv, OutcomeInv, [Next]_vars
  PROVE  TypeOK'
<1>. USE ConstantsOK DEF TypeOK, RunInv, Statuses, RunPC, MainPC, Outcomes, Calls,
       WorkDirs,
    backend, storage, job, work, local
<1>1. ASSUME NEW d \in Drives, ClaimExpires(d) PROVE TypeOK'
  BY <1>1 DEF ClaimExpires
<1>2. ASSUME NEW w \in Workers, NEW level \in {"graceful", "now"}, RequestStop(w, level)
      PROVE  TypeOK'
  BY <1>2 DEF RequestStop
<1>3. ASSUME NEW w \in Workers, Poll(w) PROVE TypeOK'
  BY <1>3 DEF Poll, Requeue, Stuck
<1>4. ASSUME NEW w \in Workers, Claim(w) PROVE TypeOK'
  BY <1>4 DEF Claim, ClaimOldest, Unused, Queued, Goto
<1>5. ASSUME NEW w \in Workers, NoJobs(w) PROVE TypeOK'
  BY <1>5 DEF NoJobs
<1>6. ASSUME NEW w \in Workers, Start(w) PROVE TypeOK'
  <2>1. PICK c \in Runs : /\ pc[c] = "reply"
                          /\ dirs' \subseteq dirs \cup {JobDir(c)}
                          /\ Goto(c, "handback") \/ Goto(c, "download")
    BY <1>6 DEF Start
  <2>2. JobDir(c) \in WorkDirs \X Drives
    BY <2>1 DEF JobDir
  <2>3. dirs' \subseteq WorkDirs \X Drives
    BY <2>1, <2>2
  <2>4. pc' \in [Runs -> RunPC]
    BY <2>1, GotoType
  <2>5. main' \in [Workers -> MainPC]
    BY <1>6 DEF Start
  <2> QED
    BY <1>6, <2>3, <2>4, <2>5 DEF Start
<1>7. ASSUME NEW w \in Workers, Download(w) PROVE TypeOK'
  BY <1>7 DEF Download, Current, Goto
<1>8. ASSUME NEW w \in Workers, Pipeline(w) PROVE TypeOK'
  BY <1>8 DEF Pipeline, Current, Goto
<1>9. ASSUME NEW w \in Workers, ProcessFails(w) PROVE TypeOK'
  BY <1>9 DEF ProcessFails, Current, Settle, Goto
<1>10. ASSUME NEW w \in Workers, StopNow(w) PROVE TypeOK'
  BY <1>10 DEF StopNow, Current, Goto
<1>11. ASSUME NEW w \in Workers, Release(w) PROVE TypeOK'
  <2>1. PICK c \in Runs : /\ Goto(c, "over") \/ Goto(c, "tidy")
                          /\ calls' = calls \cup {Call("release", c)}
    BY <1>11 DEF Release
  <2>2. \A k \in {"processed", "failed", "release"} : Call(k, c) \in Calls
    BY DEF Call
  <2>3. calls' \subseteq Calls
    BY <2>1, <2>2
  <2>4. pc' \in [Runs -> RunPC]
    BY <2>1, GotoType
  <2>5. cur' \in [Workers -> Runs \cup {NoRun}]
    BY <1>11 DEF Release
  <2> QED
    BY <1>11, <2>3, <2>4, <2>5 DEF Release
<1>12. ASSUME NEW w \in Workers, Submit(w) PROVE TypeOK'
  BY <1>12 DEF Submit, Current, Goto, AfterSubmit
<1>13. ASSUME NEW w \in Workers, MainComplete(w) PROVE TypeOK'
  <2>1. PICK c \in Runs : /\ Goto(c, "over") \/ Goto(c, "tidy")
                          /\ outcome[c] \in {"processed", "failed"}
                          /\ calls' = calls \cup {Call(outcome[c], c)}
    BY <1>13 DEF MainComplete, Complete, OutcomeInv
  <2>2. \A k \in {"processed", "failed", "release"} : Call(k, c) \in Calls
    BY DEF Call
  <2>3. calls' \subseteq Calls
    BY <2>1, <2>2
  <2>4. pc' \in [Runs -> RunPC]
    BY <2>1, GotoType
  <2>5. cur' \in [Workers -> Runs \cup {NoRun}]
    BY <1>13 DEF MainComplete, Complete, OutcomeInv
  <2> QED
    BY <1>13, <2>3, <2>4, <2>5 DEF MainComplete, Complete
<1>14. ASSUME NEW w \in Workers, MainTidy(w) PROVE TypeOK'
  BY <1>14 DEF MainTidy, Current, Tidy, Rmtree, Goto
<1>15. ASSUME NEW w \in Workers, LeaveLoop(w) PROVE TypeOK'
  BY <1>15 DEF LeaveLoop
<1>16. ASSUME NEW w \in Workers, Drained(w) PROVE TypeOK'
  BY <1>16 DEF Drained, NothingInHand
<1>17. ASSUME NEW w \in Workers, UploadClip(w) PROVE TypeOK'
  <2>1. PICK c \in Runs, v \in Viols :
            /\ pc[c] = "upload" /\ v \in todo[c]
            /\ clips' = clips \cup {<<of[c], v>>}
            /\ \/ Goto(c, "post") /\ todo' = [todo EXCEPT ![c] = found[c]]
               \/ todo' = [todo EXCEPT ![c] = @ \ {v}] /\ UNCHANGED pc
    BY <1>17 DEF UploadClip
  <2>2. clips' \subseteq Drives \X Viols
    BY <2>1
  <2>3. pc' \in [Runs -> RunPC]
    BY <2>1, GotoType
  <2>4. found[c] \in SUBSET Viols /\ todo[c] \ {v} \in SUBSET Viols
    OBVIOUS
  <2>5. todo' \in [Runs -> SUBSET Viols]
    BY <2>1, <2>4
  <2> QED
    BY <1>17, <2>2, <2>3, <2>5 DEF UploadClip
<1>18. ASSUME NEW w \in Workers, PostViolation(w) PROVE TypeOK'
  <2>1. PICK c \in Runs, v \in Viols :
            /\ pc[c] = "post"
            /\ docs' \subseteq docs \cup {<<of[c], v, c>>}
            /\ todo' = [todo EXCEPT ![c] = @ \ {v}]
            /\ refused' = refused \/ refused' = [refused EXCEPT ![c] = @ \cup {v}]
            /\ \/ UNCHANGED <<pc, outcome>>
               \/ Settle(c, "processed")
               \/ Settle(c, "failed")
            /\ faults' = faults \/ Fault
    BY <1>18 DEF PostViolation
  <2>2. docs' \subseteq Drives \X Viols \X Runs
    BY <2>1
  <2>3. pc' \in [Runs -> RunPC]
    BY <2>1, GotoType DEF Settle
  <2>4. outcome' \in [Runs -> Outcomes]
    BY <2>1 DEF Settle
  <2>5. todo[c] \ {v} \in SUBSET Viols /\ refused[c] \cup {v} \in SUBSET Viols
    OBVIOUS
  <2>6. todo' \in [Runs -> SUBSET Viols]
    BY <2>1, <2>5
  <2>7. faults' \in 0..MaxFaults
    BY <2>1 DEF Fault
  <2>8. CASE refused' = refused
    BY <1>18, <2>2, <2>3, <2>4, <2>6, <2>7, <2>8 DEF PostViolation
  <2>9. CASE refused' = [refused EXCEPT ![c] = @ \cup {v}]
    <3>1. refused' \in [Runs -> SUBSET Viols]
      BY <2>5, <2>9
    <3> QED
      BY <1>18, <2>2, <2>3, <2>4, <2>6, <2>7, <3>1 DEF PostViolation
  <2> QED
    BY <2>1, <2>8, <2>9
<1>19. ASSUME NEW w \in Workers, ShipNothing(w) PROVE TypeOK'
  BY <1>19 DEF ShipNothing, Shipping, Settle, Goto
<1>20. ASSUME NEW w \in Workers, ShipFails(w) PROVE TypeOK'
  BY <1>20 DEF ShipFails, Shipping, Settle, Goto
<1>21. ASSUME NEW w \in Workers, ShipComplete(w) PROVE TypeOK'
  <2>1. PICK c \in Runs : /\ Goto(c, "over") \/ Goto(c, "tidy")
                          /\ outcome[c] \in {"processed", "failed"}
                          /\ calls' = calls \cup {Call(outcome[c], c)}
    BY <1>21 DEF ShipComplete, Complete, OutcomeInv
  <2>2. \A k \in {"processed", "failed", "release"} : Call(k, c) \in Calls
    BY DEF Call
  <2>3. calls' \subseteq Calls
    BY <2>1, <2>2
  <2>4. pc' \in [Runs -> RunPC]
    BY <2>1, GotoType
  <2>5. cur' \in [Workers -> Runs \cup {NoRun}]
    BY <1>21 DEF ShipComplete, Complete, OutcomeInv
  <2> QED
    BY <1>21, <2>3, <2>4, <2>5 DEF ShipComplete, Complete
<1>22. ASSUME NEW w \in Workers, ShipTidy(w) PROVE TypeOK'
  BY <1>22 DEF ShipTidy, Shipping, Tidy, Rmtree, Goto
<1>23. ASSUME NEW w \in Workers, ClaimReplyLost(w) PROVE TypeOK'
  BY <1>23 DEF ClaimReplyLost, ClaimOldest, Unused, Queued, Goto, Fault
<1>24. ASSUME NEW w \in Workers, ForcedDrop(w) PROVE TypeOK'
  BY <1>24 DEF ForcedDrop, Current, Goto, Fault
<1>25. ASSUME NEW w \in Workers, ForcedCut(w) PROVE TypeOK'
  BY <1>25 DEF ForcedCut, Shipping, Rmtree, Goto, Fault
<1>26. ASSUME NEW w \in Workers, Crash(w) PROVE TypeOK'
  BY <1>26 DEF Crash, Fault, Live
<1>27. ASSUME NEW c \in Runs, HandleComplete(c) PROVE TypeOK'
  <2>1. Call("purge", c) \in Calls
    BY DEF Call
  <2>2. calls' \subseteq Calls
    BY <1>27, <2>1 DEF HandleComplete
  <2>3. status' \in [Drives -> Statuses]
    BY <1>27 DEF HandleComplete
  <2> QED
    BY <1>27, <2>2, <2>3 DEF HandleComplete
<1>28. ASSUME NEW c \in Runs, PurgeRaw(c) PROVE TypeOK'
  BY <1>28 DEF PurgeRaw, Call
<1>29. ASSUME NEW c \in Runs, HandleRelease(c) PROVE TypeOK'
  BY <1>29 DEF HandleRelease, Call, Requeue
<1>30. ASSUME NEW c \in Runs, LoseCall(c) PROVE TypeOK'
  BY <1>30 DEF LoseCall, Call, Fault
<1>31. CASE UNCHANGED vars
  BY <1>31 DEF vars
<1> QED
  BY <1>1, <1>2, <1>3, <1>4, <1>5, <1>6, <1>7, <1>8, <1>9, <1>10,
     <1>11, <1>12, <1>13, <1>14, <1>15, <1>16, <1>17, <1>18, <1>19, <1>20,
     <1>21, <1>22, <1>23, <1>24, <1>25, <1>26, <1>27, <1>28, <1>29, <1>30,
     <1>31
     DEF Next, MainThread, ShipThread, Handler, Environment

\* Every step keeps the worker and the drive of a run.
LEMMA RunStep ==
  ASSUME TypeOK, TypeOK', RunInv, [Next]_vars
  PROVE  RunInv'
<1>. USE ConstantsOK DEF TypeOK, RunInv, backend, storage, job, work, local
<1>1. ASSUME NEW d \in Drives, ClaimExpires(d) PROVE RunInv'
  BY <1>1 DEF ClaimExpires
<1>2. ASSUME NEW w \in Workers, NEW level \in {"graceful", "now"}, RequestStop(w, level)
      PROVE  RunInv'
  BY <1>2 DEF RequestStop
<1>3. ASSUME NEW w \in Workers, Poll(w) PROVE RunInv'
  BY <1>3 DEF Poll, Requeue, Stuck
<1>4. ASSUME NEW w \in Workers, Claim(w) PROVE RunInv'
  BY <1>4 DEF Claim, ClaimOldest, Unused, Queued, Goto
<1>5. ASSUME NEW w \in Workers, NoJobs(w) PROVE RunInv'
  BY <1>5 DEF NoJobs
<1>6. ASSUME NEW w \in Workers, Start(w) PROVE RunInv'
  BY <1>6 DEF Start, Current, Goto
<1>7. ASSUME NEW w \in Workers, Download(w) PROVE RunInv'
  BY <1>7 DEF Download, Current, Goto
<1>8. ASSUME NEW w \in Workers, Pipeline(w) PROVE RunInv'
  BY <1>8 DEF Pipeline, Current, Goto
<1>9. ASSUME NEW w \in Workers, ProcessFails(w) PROVE RunInv'
  BY <1>9 DEF ProcessFails, Current, Settle, Goto
<1>10. ASSUME NEW w \in Workers, StopNow(w) PROVE RunInv'
  BY <1>10 DEF StopNow, Current, Goto
<1>11. ASSUME NEW w \in Workers, Release(w) PROVE RunInv'
  BY <1>11 DEF Release, Current, Goto
<1>12. ASSUME NEW w \in Workers, Submit(w) PROVE RunInv'
  BY <1>12 DEF Submit, Current, Goto
<1>13. ASSUME NEW w \in Workers, MainComplete(w) PROVE RunInv'
  BY <1>13 DEF MainComplete, Current, Complete, Goto
<1>14. ASSUME NEW w \in Workers, MainTidy(w) PROVE RunInv'
  BY <1>14 DEF MainTidy, Current, Tidy, Goto
<1>15. ASSUME NEW w \in Workers, LeaveLoop(w) PROVE RunInv'
  BY <1>15 DEF LeaveLoop
<1>16. ASSUME NEW w \in Workers, Drained(w) PROVE RunInv'
  BY <1>16 DEF Drained, NothingInHand
<1>17. ASSUME NEW w \in Workers, UploadClip(w) PROVE RunInv'
  BY <1>17 DEF UploadClip, Shipping, Goto
<1>18. ASSUME NEW w \in Workers, PostViolation(w) PROVE RunInv'
  BY <1>18 DEF PostViolation, Shipping, Settle, Goto
<1>19. ASSUME NEW w \in Workers, ShipNothing(w) PROVE RunInv'
  BY <1>19 DEF ShipNothing, Shipping, Settle, Goto
<1>20. ASSUME NEW w \in Workers, ShipFails(w) PROVE RunInv'
  BY <1>20 DEF ShipFails, Shipping, Settle, Goto
<1>21. ASSUME NEW w \in Workers, ShipComplete(w) PROVE RunInv'
  BY <1>21 DEF ShipComplete, Shipping, Complete, Goto
<1>22. ASSUME NEW w \in Workers, ShipTidy(w) PROVE RunInv'
  BY <1>22 DEF ShipTidy, Shipping, Tidy, Goto
<1>23. ASSUME NEW w \in Workers, ClaimReplyLost(w) PROVE RunInv'
  BY <1>23 DEF ClaimReplyLost, ClaimOldest, Unused, Queued, Goto
<1>24. ASSUME NEW w \in Workers, ForcedDrop(w) PROVE RunInv'
  BY <1>24 DEF ForcedDrop, Current, Goto
<1>25. ASSUME NEW w \in Workers, ForcedCut(w) PROVE RunInv'
  BY <1>25 DEF ForcedCut, Shipping, Goto
<1>26. ASSUME NEW w \in Workers, Crash(w) PROVE RunInv'
  BY <1>26 DEF Crash, Live
<1>27. ASSUME NEW c \in Runs, HandleComplete(c) PROVE RunInv'
  BY <1>27 DEF HandleComplete
<1>28. ASSUME NEW c \in Runs, PurgeRaw(c) PROVE RunInv'
  BY <1>28 DEF PurgeRaw
<1>29. ASSUME NEW c \in Runs, HandleRelease(c) PROVE RunInv'
  BY <1>29 DEF HandleRelease, Requeue
<1>30. ASSUME NEW c \in Runs, LoseCall(c) PROVE RunInv'
  BY <1>30 DEF LoseCall
<1>31. CASE UNCHANGED vars
  BY <1>31 DEF vars
<1> QED
  BY <1>1, <1>2, <1>3, <1>4, <1>5, <1>6, <1>7, <1>8, <1>9, <1>10,
     <1>11, <1>12, <1>13, <1>14, <1>15, <1>16, <1>17, <1>18, <1>19, <1>20,
     <1>21, <1>22, <1>23, <1>24, <1>25, <1>26, <1>27, <1>28, <1>29, <1>30,
     <1>31
     DEF Next, MainThread, ShipThread, Handler, Environment

\* Every step keeps a run in one thread's hands.
LEMMA ThreadStep ==
  ASSUME TypeOK, TypeOK', RunInv, ThreadInv, [Next]_vars
  PROVE  ThreadInv'
<1>. USE ConstantsOK DEF TypeOK, RunInv, ThreadInv, backend, storage, job, work, local
<1>1. ASSUME NEW d \in Drives, ClaimExpires(d) PROVE ThreadInv'
  BY <1>1 DEF ClaimExpires
<1>2. ASSUME NEW w \in Workers, NEW level \in {"graceful", "now"}, RequestStop(w, level)
      PROVE  ThreadInv'
  BY <1>2 DEF RequestStop
<1>3. ASSUME NEW w \in Workers, Poll(w) PROVE ThreadInv'
  BY <1>3 DEF Poll, Requeue, Stuck
<1>4. ASSUME NEW w \in Workers, Claim(w) PROVE ThreadInv'
  BY <1>4 DEF Claim, ClaimOldest, Unused, Queued, Goto
<1>5. ASSUME NEW w \in Workers, NoJobs(w) PROVE ThreadInv'
  BY <1>5 DEF NoJobs
<1>6. ASSUME NEW w \in Workers, Start(w) PROVE ThreadInv'
  BY <1>6 DEF Start, Current, Goto
<1>7. ASSUME NEW w \in Workers, Download(w) PROVE ThreadInv'
  BY <1>7 DEF Download, Current, Goto
<1>8. ASSUME NEW w \in Workers, Pipeline(w) PROVE ThreadInv'
  BY <1>8 DEF Pipeline, Current, Goto
<1>9. ASSUME NEW w \in Workers, ProcessFails(w) PROVE ThreadInv'
  BY <1>9 DEF ProcessFails, Current, Settle, Goto
<1>10. ASSUME NEW w \in Workers, StopNow(w) PROVE ThreadInv'
  BY <1>10 DEF StopNow, Current, Goto
<1>11. ASSUME NEW w \in Workers, Release(w) PROVE ThreadInv'
  <2>1. PICK c \in Runs : /\ Current(w, c) /\ pc[c] \in {"handback", "abandon"}
                          /\ Goto(c, "tidy") \/ Goto(c, "over")
                          /\ cur' = cur \/ cur' = [cur EXCEPT ![w] = NoRun]
    BY <1>11 DEF Release
  <2>2. \A b \in Runs : pc[b] # "unused" => pc'[b] # "unused"
    BY <2>1 DEF Goto
  <2>3. \A x \in Workers : cur'[x] \in {cur[x], NoRun}
    BY <2>1
  <2>4. by' = by /\ shipq' = shipq
    BY <1>11 DEF Release
  <2>5. \A x \in Workers : \A i \in 1..Len(shipq[x]) : shipq[x][i] \in Runs
    OBVIOUS
  <2>6. ASSUME NEW x \in Workers, cur'[x] \in Runs
        PROVE  pc'[cur'[x]] # "unused" /\ by'[cur'[x]] = x
    BY <2>2, <2>3, <2>4, <2>6
  <2>7. ASSUME NEW x \in Workers, NEW i \in 1..Len(shipq[x])
        PROVE  /\ pc'[shipq[x][i]] # "unused"
               /\ by'[shipq[x][i]] = x
               /\ shipq[x][i] # cur'[x]
    BY <2>2, <2>3, <2>4, <2>5, <2>7
  <2> QED
    BY <2>4, <2>6, <2>7
<1>12. ASSUME NEW w \in Workers, Submit(w) PROVE ThreadInv'
  BY <1>12 DEF Submit, Current, Goto, AfterSubmit
<1>13. ASSUME NEW w \in Workers, MainComplete(w) PROVE ThreadInv'
  <2>1. \A b \in Runs : pc[b] # "unused" => pc'[b] # "unused"
    BY <1>13 DEF MainComplete, Complete, Goto
  <2>2. UNCHANGED <<by, cur, shipq>>
    BY <1>13 DEF MainComplete, Complete
  <2>3. \A x \in Workers : \A i \in 1..Len(shipq[x]) : shipq[x][i] \in Runs
    OBVIOUS
  <2> QED
    BY <2>1, <2>2, <2>3
<1>14. ASSUME NEW w \in Workers, MainTidy(w) PROVE ThreadInv'
  BY <1>14 DEF MainTidy, Current, Tidy, Goto
<1>15. ASSUME NEW w \in Workers, LeaveLoop(w) PROVE ThreadInv'
  BY <1>15 DEF LeaveLoop
<1>16. ASSUME NEW w \in Workers, Drained(w) PROVE ThreadInv'
  BY <1>16 DEF Drained, NothingInHand
<1>17. ASSUME NEW w \in Workers, UploadClip(w) PROVE ThreadInv'
  BY <1>17 DEF UploadClip, Shipping, Goto
<1>18. ASSUME NEW w \in Workers, PostViolation(w) PROVE ThreadInv'
  BY <1>18 DEF PostViolation, Shipping, Settle, Goto
<1>19. ASSUME NEW w \in Workers, ShipNothing(w) PROVE ThreadInv'
  BY <1>19 DEF ShipNothing, Shipping, Settle, Goto
<1>20. ASSUME NEW w \in Workers, ShipFails(w) PROVE ThreadInv'
  BY <1>20 DEF ShipFails, Shipping, Settle, Goto
<1>21. ASSUME NEW w \in Workers, ShipComplete(w) PROVE ThreadInv'
  BY <1>21 DEF ShipComplete, Shipping, Complete, Goto
<1>22. ASSUME NEW w \in Workers, ShipTidy(w) PROVE ThreadInv'
  BY <1>22 DEF ShipTidy, Shipping, Tidy, Goto
<1>23. ASSUME NEW w \in Workers, ClaimReplyLost(w) PROVE ThreadInv'
  <2>1. PICK c \in Runs : /\ pc[c] = "unused" /\ pc' = [pc EXCEPT ![c] = "lost"]
                          /\ by' = [by EXCEPT ![c] = w]
    BY <1>23 DEF ClaimReplyLost, ClaimOldest, Goto, Unused
  <2>2. UNCHANGED <<cur, shipq>>
    BY <1>23 DEF ClaimReplyLost, ClaimOldest
  <2>3. \A x \in Workers : \A i \in 1..Len(shipq[x]) : shipq[x][i] \in Runs
    OBVIOUS
  <2>4. \A b \in Runs : pc[b] # "unused" => pc'[b] # "unused" /\ by'[b] = by[b]
    BY <2>1
  <2> QED
    BY <2>2, <2>3, <2>4
<1>24. ASSUME NEW w \in Workers, ForcedDrop(w) PROVE ThreadInv'
  BY <1>24 DEF ForcedDrop, Current, Goto
<1>25. ASSUME NEW w \in Workers, ForcedCut(w) PROVE ThreadInv'
  BY <1>25 DEF ForcedCut, Shipping, Goto
<1>26. ASSUME NEW w \in Workers, Crash(w) PROVE ThreadInv'
  BY <1>26 DEF Crash, Live
<1>27. ASSUME NEW c \in Runs, HandleComplete(c) PROVE ThreadInv'
  BY <1>27 DEF HandleComplete
<1>28. ASSUME NEW c \in Runs, PurgeRaw(c) PROVE ThreadInv'
  BY <1>28 DEF PurgeRaw
<1>29. ASSUME NEW c \in Runs, HandleRelease(c) PROVE ThreadInv'
  BY <1>29 DEF HandleRelease, Requeue
<1>30. ASSUME NEW c \in Runs, LoseCall(c) PROVE ThreadInv'
  BY <1>30 DEF LoseCall
<1>31. CASE UNCHANGED vars
  BY <1>31 DEF vars
<1> QED
  BY <1>1, <1>2, <1>3, <1>4, <1>5, <1>6, <1>7, <1>8, <1>9, <1>10,
     <1>11, <1>12, <1>13, <1>14, <1>15, <1>16, <1>17, <1>18, <1>19, <1>20,
     <1>21, <1>22, <1>23, <1>24, <1>25, <1>26, <1>27, <1>28, <1>29, <1>30,
     <1>31
     DEF Next, MainThread, ShipThread, Handler, Environment

\* Every step adds calls only of claimed runs.
LEMMA CallStep ==
  ASSUME TypeOK, TypeOK', RunInv, ThreadInv, CallUsed, [Next]_vars
  PROVE  CallUsed'
<1>. USE ConstantsOK DEF TypeOK, ThreadInv, CallUsed, Calls, backend, storage, job,
       work, local
<1>1. ASSUME NEW d \in Drives, ClaimExpires(d) PROVE CallUsed'
  BY <1>1 DEF ClaimExpires
<1>2. ASSUME NEW w \in Workers, NEW level \in {"graceful", "now"}, RequestStop(w, level)
      PROVE  CallUsed'
  BY <1>2 DEF RequestStop
<1>3. ASSUME NEW w \in Workers, Poll(w) PROVE CallUsed'
  BY <1>3 DEF Poll
<1>4. ASSUME NEW w \in Workers, Claim(w) PROVE CallUsed'
  BY <1>4 DEF Claim, ClaimOldest, Unused, Goto
<1>5. ASSUME NEW w \in Workers, NoJobs(w) PROVE CallUsed'
  BY <1>5 DEF NoJobs
<1>6. ASSUME NEW w \in Workers, Start(w) PROVE CallUsed'
  BY <1>6 DEF Start, Current, Goto
<1>7. ASSUME NEW w \in Workers, Download(w) PROVE CallUsed'
  BY <1>7 DEF Download, Current, Goto
<1>8. ASSUME NEW w \in Workers, Pipeline(w) PROVE CallUsed'
  BY <1>8 DEF Pipeline, Current, Goto
<1>9. ASSUME NEW w \in Workers, ProcessFails(w) PROVE CallUsed'
  BY <1>9 DEF ProcessFails, Current, Settle, Goto
<1>10. ASSUME NEW w \in Workers, StopNow(w) PROVE CallUsed'
  BY <1>10 DEF StopNow, Current, Goto
<1>11. ASSUME NEW w \in Workers, Release(w) PROVE CallUsed'
  BY <1>11 DEF Release, Current, Goto, Call
<1>12. ASSUME NEW w \in Workers, Submit(w) PROVE CallUsed'
  BY <1>12 DEF Submit, Current, Goto
<1>13. ASSUME NEW w \in Workers, MainComplete(w) PROVE CallUsed'
  BY <1>13 DEF MainComplete, Current, Complete, Goto, Call
<1>14. ASSUME NEW w \in Workers, MainTidy(w) PROVE CallUsed'
  BY <1>14 DEF MainTidy, Current, Tidy, Goto
<1>15. ASSUME NEW w \in Workers, LeaveLoop(w) PROVE CallUsed'
  BY <1>15 DEF LeaveLoop
<1>16. ASSUME NEW w \in Workers, Drained(w) PROVE CallUsed'
  BY <1>16 DEF Drained, NothingInHand
<1>17. ASSUME NEW w \in Workers, UploadClip(w) PROVE CallUsed'
  BY <1>17 DEF UploadClip, Shipping, Goto
<1>18. ASSUME NEW w \in Workers, PostViolation(w) PROVE CallUsed'
  BY <1>18 DEF PostViolation, Shipping, Settle, Goto
<1>19. ASSUME NEW w \in Workers, ShipNothing(w) PROVE CallUsed'
  BY <1>19 DEF ShipNothing, Shipping, Settle, Goto
<1>20. ASSUME NEW w \in Workers, ShipFails(w) PROVE CallUsed'
  BY <1>20 DEF ShipFails, Shipping, Settle, Goto
<1>21. ASSUME NEW w \in Workers, ShipComplete(w) PROVE CallUsed'
  BY <1>21 DEF ShipComplete, Shipping, Complete, Goto, Call
<1>22. ASSUME NEW w \in Workers, ShipTidy(w) PROVE CallUsed'
  BY <1>22 DEF ShipTidy, Shipping, Tidy, Goto
<1>23. ASSUME NEW w \in Workers, ClaimReplyLost(w) PROVE CallUsed'
  BY <1>23 DEF ClaimReplyLost, ClaimOldest, Unused, Goto
<1>24. ASSUME NEW w \in Workers, ForcedDrop(w) PROVE CallUsed'
  BY <1>24 DEF ForcedDrop, Current, Goto
<1>25. ASSUME NEW w \in Workers, ForcedCut(w) PROVE CallUsed'
  BY <1>25 DEF ForcedCut, Shipping, Goto
<1>26. ASSUME NEW w \in Workers, Crash(w) PROVE CallUsed'
  BY <1>26 DEF Crash, Live
<1>27. ASSUME NEW c \in Runs, HandleComplete(c) PROVE CallUsed'
  BY <1>27 DEF HandleComplete, Call, Purges
<1>28. ASSUME NEW c \in Runs, PurgeRaw(c) PROVE CallUsed'
  BY <1>28 DEF PurgeRaw, Call
<1>29. ASSUME NEW c \in Runs, HandleRelease(c) PROVE CallUsed'
  BY <1>29 DEF HandleRelease, Call
<1>30. ASSUME NEW c \in Runs, LoseCall(c) PROVE CallUsed'
  BY <1>30 DEF LoseCall, Call
<1>31. CASE UNCHANGED vars
  BY <1>31 DEF vars
<1> QED
  BY <1>1, <1>2, <1>3, <1>4, <1>5, <1>6, <1>7, <1>8, <1>9, <1>10,
     <1>11, <1>12, <1>13, <1>14, <1>15, <1>16, <1>17, <1>18, <1>19, <1>20,
     <1>21, <1>22, <1>23, <1>24, <1>25, <1>26, <1>27, <1>28, <1>29, <1>30,
     <1>31
     DEF Next, MainThread, ShipThread, Handler, Environment

\* Every step keeps the outcomes in their places.
LEMMA OutcomeStep ==
  ASSUME TypeOK, TypeOK', RunInv, ThreadInv, OutcomeInv, [Next]_vars
  PROVE  OutcomeInv'
<1>. USE ConstantsOK DEF TypeOK, ThreadInv, OutcomeInv, backend, storage, job,
       work, local
<1>1. ASSUME NEW d \in Drives, ClaimExpires(d) PROVE OutcomeInv'
  BY <1>1 DEF ClaimExpires
<1>2. ASSUME NEW w \in Workers, NEW level \in {"graceful", "now"}, RequestStop(w, level)
      PROVE  OutcomeInv'
  BY <1>2 DEF RequestStop
<1>3. ASSUME NEW w \in Workers, Poll(w) PROVE OutcomeInv'
  BY <1>3 DEF Poll, Requeue
<1>4. ASSUME NEW w \in Workers, Claim(w) PROVE OutcomeInv'
  BY <1>4 DEF Claim, ClaimOldest, Unused, Goto
<1>5. ASSUME NEW w \in Workers, NoJobs(w) PROVE OutcomeInv'
  BY <1>5 DEF NoJobs
<1>6. ASSUME NEW w \in Workers, Start(w) PROVE OutcomeInv'
  BY <1>6 DEF Start, Current, Goto
<1>7. ASSUME NEW w \in Workers, Download(w) PROVE OutcomeInv'
  BY <1>7 DEF Download, Current, Goto
<1>8. ASSUME NEW w \in Workers, Pipeline(w) PROVE OutcomeInv'
  BY <1>8 DEF Pipeline, Current, Goto
<1>9. ASSUME NEW w \in Workers, ProcessFails(w) PROVE OutcomeInv'
  BY <1>9 DEF ProcessFails, Current, Settle, Goto
<1>10. ASSUME NEW w \in Workers, StopNow(w) PROVE OutcomeInv'
  BY <1>10 DEF StopNow, Current, Goto
<1>11. ASSUME NEW w \in Workers, Release(w) PROVE OutcomeInv'
  BY <1>11 DEF Release, Current, Goto
<1>12. ASSUME NEW w \in Workers, Submit(w) PROVE OutcomeInv'
  BY <1>12 DEF Submit, Current, Goto
<1>13. ASSUME NEW w \in Workers, MainComplete(w) PROVE OutcomeInv'
  BY <1>13 DEF MainComplete, Current, Complete, Goto
<1>14. ASSUME NEW w \in Workers, MainTidy(w) PROVE OutcomeInv'
  BY <1>14 DEF MainTidy, Current, Tidy, Goto
<1>15. ASSUME NEW w \in Workers, LeaveLoop(w) PROVE OutcomeInv'
  BY <1>15 DEF LeaveLoop
<1>16. ASSUME NEW w \in Workers, Drained(w) PROVE OutcomeInv'
  BY <1>16 DEF Drained, NothingInHand
<1>17. ASSUME NEW w \in Workers, UploadClip(w) PROVE OutcomeInv'
  BY <1>17 DEF UploadClip, Shipping, Goto
<1>18. ASSUME NEW w \in Workers, PostViolation(w) PROVE OutcomeInv'
  <2>1. PICK c \in Runs :
            /\ Shipping(w, c) /\ pc[c] = "post"
            /\ \/ UNCHANGED <<pc, outcome>>
               \/ Settle(c, "processed")
               \/ Settle(c, "failed")
    BY <1>18 DEF PostViolation
  <2>2. \A x \in Workers : cur[x] # c
    BY <2>1, ShippingOwn
  <2>3. UNCHANGED <<cur, main>>
    BY <1>18 DEF PostViolation
  <2> QED
    BY <2>1, <2>2, <2>3 DEF Settle, Goto
<1>19. ASSUME NEW w \in Workers, ShipNothing(w) PROVE OutcomeInv'
  <2>1. PICK c \in Runs : Shipping(w, c) /\ pc[c] = "upload" /\ Settle(c, "processed")
    BY <1>19 DEF ShipNothing
  <2>2. \A x \in Workers : cur[x] # c
    BY <2>1, ShippingOwn
  <2> QED
    BY <1>19, <2>1, <2>2 DEF ShipNothing, Settle, Goto
<1>20. ASSUME NEW w \in Workers, ShipFails(w) PROVE OutcomeInv'
  BY <1>20 DEF ShipFails, Shipping, Settle, Goto
<1>21. ASSUME NEW w \in Workers, ShipComplete(w) PROVE OutcomeInv'
  BY <1>21 DEF ShipComplete, Shipping, Complete, Goto
<1>22. ASSUME NEW w \in Workers, ShipTidy(w) PROVE OutcomeInv'
  BY <1>22 DEF ShipTidy, Shipping, Tidy, Goto
<1>23. ASSUME NEW w \in Workers, ClaimReplyLost(w) PROVE OutcomeInv'
  BY <1>23 DEF ClaimReplyLost, ClaimOldest, Unused, Goto
<1>24. ASSUME NEW w \in Workers, ForcedDrop(w) PROVE OutcomeInv'
  BY <1>24 DEF ForcedDrop, Current, Goto
<1>25. ASSUME NEW w \in Workers, ForcedCut(w) PROVE OutcomeInv'
  BY <1>25 DEF ForcedCut, Shipping, Goto
<1>26. ASSUME NEW w \in Workers, Crash(w) PROVE OutcomeInv'
  BY <1>26 DEF Crash, Live
<1>27. ASSUME NEW c \in Runs, HandleComplete(c) PROVE OutcomeInv'
  BY <1>27 DEF HandleComplete
<1>28. ASSUME NEW c \in Runs, PurgeRaw(c) PROVE OutcomeInv'
  BY <1>28 DEF PurgeRaw
<1>29. ASSUME NEW c \in Runs, HandleRelease(c) PROVE OutcomeInv'
  BY <1>29 DEF HandleRelease, Requeue
<1>30. ASSUME NEW c \in Runs, LoseCall(c) PROVE OutcomeInv'
  BY <1>30 DEF LoseCall
<1>31. CASE UNCHANGED vars
  BY <1>31 DEF vars
<1> QED
  BY <1>1, <1>2, <1>3, <1>4, <1>5, <1>6, <1>7, <1>8, <1>9, <1>10,
     <1>11, <1>12, <1>13, <1>14, <1>15, <1>16, <1>17, <1>18, <1>19, <1>20,
     <1>21, <1>22, <1>23, <1>24, <1>25, <1>26, <1>27, <1>28, <1>29, <1>30,
     <1>31
     DEF Next, MainThread, ShipThread, Handler, Environment

\* Nothing is claimed at first.
LEMMA BasicInit == Init => BasicInv
BY ConstantsOK DEF Init, BasicInv, TypeOK, RunInv, ThreadInv, CallUsed, OutcomeInv,
                   Statuses, RunPC, MainPC, Outcomes, Calls, WorkDirs

\* Every step of a worker, a handler or the environment keeps what a run is.
LEMMA BasicStep == BasicInv /\ [Next]_vars => BasicInv'
<1> SUFFICES ASSUME BasicInv, [Next]_vars PROVE BasicInv'
  OBVIOUS
<1>1. TypeOK'
  BY TypeStep DEF BasicInv
<1>2. RunInv'
  BY <1>1, RunStep DEF BasicInv
<1>3. ThreadInv'
  BY <1>1, ThreadStep DEF BasicInv
<1>4. CallUsed'
  BY <1>1, CallStep DEF BasicInv
<1>5. OutcomeInv'
  BY <1>1, OutcomeStep DEF BasicInv
<1> QED
  BY <1>1, <1>2, <1>3, <1>4, <1>5 DEF BasicInv

\* What a run is, whatever crashes, gets lost or is stopped.
THEOREM BasicCorrect == Spec => []BasicInv
BY BasicInit, BasicStep, PTL DEF Spec

\* Every variable keeps its type, whatever happens.
THEOREM TypeCorrect == Spec => []TypeOK
<1>1. BasicInv => TypeOK
  BY DEF BasicInv
<1> QED
  BY <1>1, BasicCorrect, PTL

-----------------------------------------------------------------------------
(* Who holds a claim *)

\* A step within a worker: claims, calls and raw inputs stay, and no run comes
\* back to work.
Ended == {"tidy", "over", "dead"}
Quiet ==
    /\ UNCHANGED <<status, claimedAt, workerId, raw, by, of, calls>>
    /\ \A c \in Runs :
         /\ AtWork(c)' => AtWork(c)
         /\ Live(c)' => Live(c)
         /\ outcome[c] = "interrupted" => outcome'[c] = "interrupted"
         /\ pc[c] \in Ended => pc'[c] \in Ended \/ outcome'[c] = "interrupted"

\* A drive is claimed, and the worker may or may not learn of it.
Claims(w, c) == ClaimOldest(w, c, "reply") \/ ClaimOldest(w, c, "lost")

\* The steps ClaimInv has to distinguish.
StepKind ==
    \/ Quiet
    \/ \E d \in Drives : ClaimExpires(d)
    \/ \E w \in Workers : Poll(w)
    \/ \E w \in Workers, c \in Runs : Claims(w, c)
    \/ \E w \in Workers : Release(w)
    \/ \E c \in Runs : Complete(c)
    \/ \E c \in Runs : HandleComplete(c)
    \/ \E c \in Runs : PurgeRaw(c)
    \/ \E c \in Runs : HandleRelease(c)
    \/ \E c \in Runs : LoseCall(c)

\* Most of what a worker does is none of the backend's business.
LEMMA QuietSteps ==
  ASSUME TypeOK, TypeOK', ThreadInv, OutcomeInv, NEW w \in Workers,
         \/ Start(w) \/ Download(w) \/ Pipeline(w) \/ ProcessFails(w) \/ StopNow(w)
         \/ Submit(w) \/ MainTidy(w) \/ NoJobs(w) \/ LeaveLoop(w) \/ Drained(w)
         \/ UploadClip(w) \/ PostViolation(w) \/ ShipNothing(w) \/ ShipFails(w)
         \/ ShipTidy(w)
         \/ ForcedDrop(w) \/ ForcedCut(w) \/ Crash(w)
         \/ RequestStop(w, "graceful") \/ RequestStop(w, "now")
  PROVE Quiet
<1>. USE ConstantsOK DEF TypeOK, Quiet, AtWork, Live, Ended, Goto, Settle, backend,
       storage, job, work, local
<1>1. CASE Start(w)
  BY <1>1 DEF Start, Current
<1>2. CASE Download(w)
  BY <1>2 DEF Download, Current
<1>3. CASE Pipeline(w)
  BY <1>3 DEF Pipeline, Current
<1>4. CASE ProcessFails(w)
  BY <1>4 DEF ProcessFails, Current, OutcomeInv
<1>5. CASE StopNow(w)
  BY <1>5 DEF StopNow, Current, OutcomeInv
<1>6. CASE Submit(w)
  BY <1>6 DEF Submit, Current
<1>7. CASE MainTidy(w)
  BY <1>7 DEF MainTidy, Current, Tidy
<1>8. CASE NoJobs(w)
  BY <1>8 DEF NoJobs
<1>9. CASE LeaveLoop(w)
  BY <1>9 DEF LeaveLoop
<1>10. CASE Drained(w)
  BY <1>10 DEF Drained, NothingInHand
<1>11. CASE UploadClip(w)
  BY <1>11 DEF UploadClip, Shipping
<1>12. CASE PostViolation(w)
  BY <1>12 DEF PostViolation, Shipping, OutcomeInv
<1>13. CASE ShipNothing(w)
  BY <1>13 DEF ShipNothing, Shipping, OutcomeInv
<1>14. CASE ShipFails(w)
  BY <1>14 DEF ShipFails, Shipping, OutcomeInv
<1>15. CASE ShipTidy(w)
  BY <1>15 DEF ShipTidy, Shipping, Tidy
<1>16. CASE ForcedDrop(w)
  BY <1>16 DEF ForcedDrop, Current
<1>17. CASE ForcedCut(w)
  BY <1>17 DEF ForcedCut, Shipping
<1>18. CASE Crash(w)
  BY <1>18 DEF Crash
<1>19. CASE RequestStop(w, "graceful")
  BY <1>19 DEF RequestStop
<1>20. CASE RequestStop(w, "now")
  BY <1>20 DEF RequestStop
<1> QED
  BY <1>1, <1>2, <1>3, <1>4, <1>5, <1>6, <1>7, <1>8, <1>9, <1>10, <1>11, <1>12,
         <1>13, <1>14, <1>15, <1>16, <1>17, <1>18, <1>19, <1>20

\* Every step is quiet or is one of the steps that change a drive or a call.
LEMMA StepKinds ==
  ASSUME BasicInv, BasicInv', [Next]_vars
  PROVE  StepKind
<1>. USE DEF BasicInv, StepKind
<1>1. ASSUME NEW w \in Workers, MainThread(w) \/ ShipThread(w)
      PROVE  StepKind
  <2>1. CASE Claim(w)
    BY <2>1 DEF Claim, Claims
  <2>2. CASE MainComplete(w) \/ ShipComplete(w)
    BY <2>2 DEF MainComplete, ShipComplete
  <2>3. CASE Poll(w) \/ Release(w)
    BY <2>3
  <2> QED
    BY <1>1, <2>1, <2>2, <2>3, QuietSteps DEF MainThread, ShipThread
<1>2. ASSUME NEW c \in Runs, Handler(c) \/ LoseCall(c)
      PROVE  StepKind
  BY <1>2 DEF Handler
<1>3. ASSUME NEW w \in Workers, ClaimReplyLost(w)
      PROVE  StepKind
  BY <1>3 DEF ClaimReplyLost, Claims
<1>4. ASSUME NEW w \in Workers,
             \/ ForcedDrop(w) \/ ForcedCut(w) \/ Crash(w)
             \/ RequestStop(w, "graceful") \/ RequestStop(w, "now")
      PROVE  StepKind
  BY <1>4, QuietSteps
<1>5. CASE UNCHANGED vars
  BY <1>5 DEF vars, Quiet, AtWork, Live
<1> QED
  BY <1>1, <1>2, <1>3, <1>4, <1>5 DEF Next, Environment

\* No step starts work on a drive whose claim has expired.
LEMMA StaleStep ==
  ASSUME Timely, TypeOK, TypeOK', RunInv, CallUsed, OutcomeInv, StaleInv, StepKind
  PROVE  StaleInv'
<1>. USE DEF TypeOK, RunInv, CallUsed, StaleInv, Busy, Live, Calls, Call
<1>1. CASE Quiet
  BY <1>1 DEF Quiet
<1>2. ASSUME NEW d \in Drives, ClaimExpires(d)
      PROVE  StaleInv'
  <2>1. ~Busy(d)
    BY <1>2 DEF ClaimExpires
  <2>2. UNCHANGED <<status, of, pc, calls>>
    BY <1>2 DEF ClaimExpires, job
  <2>3. \A e \in Drives : Busy(e)' = Busy(e)
    BY <2>2
  <2>4. \A e \in Drives : e # d => claimedAt'[e] = claimedAt[e]
    BY <1>2 DEF ClaimExpires
  <2> QED
    BY <2>1, <2>2, <2>3, <2>4
<1>3. CASE \E w \in Workers : Poll(w)
  BY <1>3 DEF Poll, Requeue, Stuck, storage, job, work, local
<1>4. ASSUME NEW w \in Workers, NEW c \in Runs, Claims(w, c)
      PROVE  StaleInv'
  <2>1. PICK d \in Drives : /\ status[d] = "queued"
                            /\ status' = [status EXCEPT ![d] = "processing"]
                            /\ claimedAt' = [claimedAt EXCEPT ![d] = "fresh"]
                            /\ of' = [of EXCEPT ![c] = d]
    BY <1>4 DEF Claims, ClaimOldest, Queued
  <2>2. /\ calls' = calls /\ outcome' = outcome /\ raw' = raw
        /\ pc[c] = "unused" /\ outcome[c] = "none"
        /\ \A b \in Runs : b # c => pc'[b] = pc[b] /\ of'[b] = of[b]
        /\ \A m \in calls : m.run \in Runs /\ m.run # c
    BY <1>4 DEF Claims, ClaimOldest, Goto, Unused, OutcomeInv, CallUsed, storage
  <2>3. \A e \in Drives : e # d => (Busy(e)' => Busy(e))
    BY <2>1, <2>2
  <2>4. /\ claimedAt'[d] = "fresh"
        /\ \A e \in Drives : e # d =>
             status'[e] = status[e] /\ claimedAt'[e] = claimedAt[e]
    BY <2>1
  <2> QED
    BY <2>3, <2>4
<1>5. CASE \E w \in Workers : Release(w)
  <2>1. PICK c \in Runs : /\ pc[c] \in {"handback", "abandon"}
                          /\ calls' = calls \cup {Call("release", c)}
                          /\ \A b \in Runs : b # c => pc'[b] = pc[b]
    BY <1>5 DEF Release, Current, Goto
  <2>2. UNCHANGED <<status, claimedAt, of>>
    BY <1>5 DEF Release, backend, job
  <2>3. Busy(of[c])
    BY <2>1
  <2>4. ASSUME NEW d \in Drives, d # of[c], Busy(d)'
        PROVE  Busy(d)
    <3>1. ASSUME NEW b \in Runs, of[b] = d, Live(b)'
          PROVE  Live(b)
      BY <2>1, <2>4, <3>1
    <3>2. ASSUME NEW m \in calls', of[m.run] = d
          PROVE  m \in calls
      BY <2>1, <2>4, <3>2
    <3> QED
      BY <2>2, <2>4, <3>1, <3>2
  <2>5. \A d \in Drives : Busy(d)' => Busy(d)
    BY <2>3, <2>4
  <2> QED
    BY <2>2, <2>5
<1>6. CASE \E c \in Runs : Complete(c)
  BY <1>6 DEF Complete, Goto, Call, backend, storage, job, work
<1>7. CASE \E c \in Runs : HandleComplete(c)
  BY <1>7 DEF HandleComplete, Call, Purges, storage, job, work, local
<1>8. CASE \E c \in Runs : PurgeRaw(c)
  BY <1>8 DEF PurgeRaw, Call, backend, job, work, local
<1>9. CASE \E c \in Runs : HandleRelease(c)
  BY <1>9 DEF HandleRelease, Call, Requeue, storage, job, work, local
<1>10. CASE \E c \in Runs : LoseCall(c)
  BY <1>10 DEF LoseCall, Call, backend, storage, job, work, local
<1> QED
  BY <1>1, <1>2, <1>3, <1>4, <1>5, <1>6, <1>7, <1>8, <1>9, <1>10 DEF StepKind


\* No step adds a second last call to a run.
LEMMA CallInvStep ==
  ASSUME TypeOK, TypeOK', RunInv, CallUsed, OutcomeInv, CallInv, StepKind
  PROVE  CallInv'
<1>. USE DEF TypeOK, CallInv, Interrupted, Call, Calls, LastCalls, CallUsed,
       RunInv, Ended
<1>1. CASE Quiet
  BY <1>1 DEF Quiet
<1>2. CASE \E d \in Drives : ClaimExpires(d)
  BY <1>2 DEF ClaimExpires, backend, storage, job, work, local
<1>3. CASE \E w \in Workers : Poll(w)
  BY <1>3 DEF Poll, Requeue, Stuck, storage, job, work, local
<1>4. ASSUME NEW w \in Workers, NEW c \in Runs, Claims(w, c)
      PROVE  CallInv'
  <2>1. PICK d \in Drives : /\ status[d] = "queued"
                            /\ status' = [status EXCEPT ![d] = "processing"]
                            /\ claimedAt' = [claimedAt EXCEPT ![d] = "fresh"]
                            /\ of' = [of EXCEPT ![c] = d]
    BY <1>4 DEF Claims, ClaimOldest, Queued
  <2>2. /\ calls' = calls /\ outcome' = outcome /\ raw' = raw
        /\ pc[c] = "unused" /\ outcome[c] = "none"
        /\ \A b \in Runs : b # c => pc'[b] = pc[b] /\ of'[b] = of[b]
        /\ \A m \in calls : m.run \in Runs /\ m.run # c
    BY <1>4 DEF Claims, ClaimOldest, Goto, Unused, OutcomeInv, CallUsed, storage
  <2>3. \A e : Interrupted(e)' = Interrupted(e)
    BY <2>1, <2>2
  <2>4. \A b \in Runs : \A k \in LastCalls : Call(k, b) \in calls => b # c
    BY <2>2
  <2> QED
    BY <2>2, <2>3, <2>4
<1>5. CASE \E w \in Workers : Release(w)
  BY <1>5 DEF Release, Current, Goto, Call, backend, storage, job, work
<1>6. ASSUME NEW c \in Runs, Complete(c)
      PROVE  CallInv'
  <2>1. /\ calls' = calls \cup {Call(outcome[c], c)}
        /\ pc[c] = "report" /\ pc' = [pc EXCEPT ![c] = "tidy"]
        /\ UNCHANGED <<of, outcome>>
    BY <1>6 DEF Complete, Goto, job
  <2>2. \A d : Interrupted(d)' = Interrupted(d)
    BY <2>1
  <2>3. \A k \in LastCalls : Call(k, c) \in calls => Interrupted(of[c])
    BY <2>1
  <2> QED
    BY <2>1, <2>2, <2>3
<1>7. CASE \E c \in Runs : HandleComplete(c)
  BY <1>7 DEF HandleComplete, Call, Purges, storage, job, work, local
<1>8. CASE \E c \in Runs : PurgeRaw(c)
  BY <1>8 DEF PurgeRaw, Call, backend, job, work, local
<1>9. CASE \E c \in Runs : HandleRelease(c)
  BY <1>9 DEF HandleRelease, Call, Requeue, storage, job, work, local
<1>10. CASE \E c \in Runs : LoseCall(c)
  BY <1>10 DEF LoseCall, Call, backend, storage, job, work, local
<1> QED
  BY <1>1, <1>2, <1>3, <1>4, <1>5, <1>6, <1>7, <1>8, <1>9, <1>10 DEF StepKind


\* A step after which nobody new is engaged, and that leaves the claims of those
\* who still are, keeps EngagedInv.
LEMMA EngagedKept ==
  ASSUME TypeOK, TypeOK', RunInv, EngagedInv,
         UNCHANGED <<by, of>>,
         \A c \in Runs : Engaged(c)' /\ ~Interrupted(of[c])' =>
             /\ Engaged(c) /\ ~Interrupted(of[c])
             /\ status'[of[c]] = status[of[c]]
             /\ workerId'[of[c]] = workerId[of[c]]
  PROVE  EngagedInv'
BY DEF EngagedInv

\* A run with a last call under way is engaged ...
LEMMA CallsEngage ==
  ASSUME NEW c \in Runs, NEW k \in LastCalls, Call(k, c) \in calls
  PROVE  Engaged(c)
BY DEF Engaged

\* ... and an engaged run was claimed and keeps its drive busy.
LEMMA EngagedUsed ==
  ASSUME TypeOK, RunInv, CallUsed, NEW c \in Runs, Engaged(c)
  PROVE  pc[c] # "unused" /\ of[c] \in Drives /\ Busy(of[c])
BY DEF TypeOK, RunInv, CallUsed, Engaged, AtWork, Live, Busy, Calls, Call

\* Every step keeps a claim until the call that ends it is served.
LEMMA EngagedStep ==
  ASSUME TypeOK, TypeOK', RunInv, CallUsed, OutcomeInv, StaleInv, CallInv,
         EngagedInv, StepKind
  PROVE  EngagedInv'
<1>. USE DEF TypeOK
<1>1. CASE Quiet
  <2>1. \A d : Interrupted(d) => Interrupted(d)'
    BY <1>1 DEF Quiet, Interrupted
  <2>2. \A c \in Runs : Engaged(c)' => Engaged(c)
    BY <1>1 DEF Quiet, Engaged, Call
  <2> QED
    BY <1>1, <2>1, <2>2, EngagedKept DEF Quiet
<1>2. CASE \E d \in Drives : ClaimExpires(d)
  <2>1. \A d : Interrupted(d)' = Interrupted(d)
    BY <1>2 DEF ClaimExpires, Interrupted, job, work
  <2>2. \A c \in Runs : Engaged(c)' = Engaged(c)
    BY <1>2 DEF ClaimExpires, Engaged, AtWork, Call
  <2> QED
    BY <1>2, <2>1, <2>2, EngagedKept DEF ClaimExpires, job
<1>3. CASE \E w \in Workers : Poll(w)
  <2>1. \A d : Interrupted(d)' = Interrupted(d)
    BY <1>3 DEF Poll, Interrupted, job
  <2>2. \A c \in Runs : Engaged(c)' = Engaged(c)
    BY <1>3 DEF Poll, Engaged, AtWork, Call
  <2>3. \A c \in Runs : Engaged(c) => of[c] \in Drives /\ of[c] \notin Stuck
    BY EngagedUsed DEF Stuck, StaleInv
  <2> QED
    BY <1>3, <2>1, <2>2, <2>3, EngagedKept DEF Poll, Requeue, job
<1>4. ASSUME NEW w \in Workers, NEW c \in Runs, Claims(w, c)
      PROVE  EngagedInv'
  <2>1. PICK d \in Drives : /\ status[d] = "queued"
                            /\ status' = [status EXCEPT ![d] = "processing"]
                            /\ workerId' = [workerId EXCEPT ![d] = w]
                            /\ of' = [of EXCEPT ![c] = d]
    BY <1>4 DEF Claims, ClaimOldest, Queued
  <2>2. /\ by' = [by EXCEPT ![c] = w]
        /\ \A b \in Runs : b # c => pc'[b] = pc[b]
        /\ calls' = calls /\ outcome' = outcome
        /\ pc[c] = "unused" /\ outcome[c] = "none"
    BY <1>4 DEF Claims, ClaimOldest, Goto, Unused, OutcomeInv
  <2>3. \A b \in Runs : b # c => Engaged(b)' = Engaged(b)
    BY <2>2 DEF Engaged, AtWork, Call
  <2>4. \A e : Interrupted(e)' = Interrupted(e)
    BY <2>1, <2>2 DEF Interrupted
  <2>5. \A b \in Runs : Engaged(b) => pc[b] # "unused" /\ of[b] \in Drives
    BY EngagedUsed
  <2>6. \A b \in Runs : Engaged(b) /\ of[b] = d => Interrupted(d)
    BY <2>1 DEF EngagedInv
  <2> QED
    BY <2>1, <2>2, <2>3, <2>4, <2>5, <2>6 DEF EngagedInv
<1>5. CASE \E w \in Workers : Release(w)
  <2>1. PICK c \in Runs : /\ pc[c] \in {"handback", "abandon"}
                          /\ calls' = calls \cup {Call("release", c)}
                          /\ \E p \in {"tidy", "over"} : Goto(c, p)
    BY <1>5 DEF Release, Current
  <2>2. UNCHANGED <<status, workerId, by, of, outcome>>
    BY <1>5 DEF Release, backend, job
  <2>3. \A d : Interrupted(d)' = Interrupted(d)
    BY <2>2 DEF Interrupted
  <2>4. outcome[c] # "interrupted" => AtWork(c)
    BY <2>1 DEF AtWork
  <2>5. \A b \in Runs : b # c => (Engaged(b)' => Engaged(b))
    BY <2>1, <2>2 DEF Engaged, AtWork, Goto, Call
  <2>6. outcome[c] = "interrupted" => Interrupted(of[c])
    BY DEF Interrupted
  <2> QED
    BY <2>2, <2>3, <2>4, <2>5, <2>6, EngagedKept DEF Engaged
<1>6. ASSUME NEW c \in Runs, Complete(c)
      PROVE  EngagedInv'
  <2>1. UNCHANGED <<status, workerId, by, of, outcome>>
    BY <1>6 DEF Complete, backend, job
  <2>2. \A d : Interrupted(d)' = Interrupted(d)
    BY <2>1 DEF Interrupted
  <2>3. AtWork(c)
    BY <1>6 DEF Complete, AtWork, OutcomeInv
  <2>4. \A b \in Runs : b # c => (Engaged(b)' => Engaged(b))
    BY <1>6, <2>1 DEF Complete, Engaged, AtWork, Goto, Call
  <2> QED
    BY <2>1, <2>2, <2>3, <2>4, EngagedKept DEF Engaged
<1>7. ASSUME NEW c \in Runs, HandleComplete(c)
      PROVE  EngagedInv'
  <2>1. PICK k \in {"processed", "failed"} :
            /\ Call(k, c) \in calls
            /\ status' = [status EXCEPT ![of[c]] = k]
            /\ calls' = (calls \ {Call(k, c)})
                          \cup (IF Purges(k) THEN {Call("purge", c)} ELSE {})
    BY <1>7 DEF HandleComplete
  <2>2. UNCHANGED <<workerId, by, of, pc, outcome>>
    BY <1>7 DEF HandleComplete, job
  <2>3. \A d : Interrupted(d)' = Interrupted(d)
    BY <2>2 DEF Interrupted
  <2>4. Engaged(c) /\ of[c] \in Drives
    BY <2>1, CallsEngage, EngagedUsed DEF LastCalls
  <2>5. \A b \in Runs : Engaged(b)' => Engaged(b)
    BY <2>1, <2>2 DEF Engaged, AtWork, Call, LastCalls
  <2>6. ~Interrupted(of[c]) => ~Engaged(c)'
    BY <2>1, <2>2 DEF Engaged, AtWork, Call, LastCalls, CallInv
  <2>7. \A b \in Runs : Engaged(b)' /\ ~Interrupted(of[b]) => of[b] # of[c]
    BY <2>4, <2>5, <2>6 DEF EngagedInv
  <2>8. \A b \in Runs : Engaged(b) => of[b] \in Drives
    BY EngagedUsed
  <2> QED
    BY <2>1, <2>2, <2>3, <2>5, <2>7, <2>8, EngagedKept
<1>8. ASSUME NEW c \in Runs, PurgeRaw(c) \/ LoseCall(c)
      PROVE  EngagedInv'
  <2>1. UNCHANGED <<status, workerId, by, of, pc, outcome>> /\ calls' \subseteq calls
    BY <1>8 DEF PurgeRaw, LoseCall, backend, job
  <2>2. \A d : Interrupted(d)' = Interrupted(d)
    BY <2>1 DEF Interrupted
  <2>3. \A b \in Runs : Engaged(b)' => Engaged(b)
    BY <2>1 DEF Engaged, AtWork, Call
  <2> QED
    BY <2>1, <2>2, <2>3, EngagedKept
<1>9. ASSUME NEW c \in Runs, HandleRelease(c)
      PROVE  EngagedInv'
  <2>1. /\ Call("release", c) \in calls
        /\ calls' = calls \ {Call("release", c)}
    BY <1>9 DEF HandleRelease
  <2>2. UNCHANGED <<by, of, pc, outcome>>
    BY <1>9 DEF HandleRelease, job
  <2>3. \A d : Interrupted(d)' = Interrupted(d)
    BY <2>2 DEF Interrupted
  <2>4. Engaged(c)
    BY <2>1, CallsEngage DEF LastCalls
  <2>5. \A b \in Runs : Engaged(b)' => Engaged(b)
    BY <2>1, <2>2 DEF Engaged, AtWork, Call
  <2>6. ~Interrupted(of[c]) => ~Engaged(c)'
    BY <2>1, <2>2 DEF Engaged, AtWork, Call, LastCalls, CallInv
  <2>7. \A b \in Runs : Engaged(b)' /\ ~Interrupted(of[b]) => of[b] # of[c]
    BY <2>4, <2>5, <2>6 DEF EngagedInv
  <2>8. \A b \in Runs : Engaged(b) => of[b] \in Drives
    BY EngagedUsed
  <2>9. \A d \in Drives : d # of[c] =>
       status'[d] = status[d] /\ workerId'[d] = workerId[d]
    BY <1>9 DEF HandleRelease, Requeue
  <2> QED
    BY <2>2, <2>3, <2>5, <2>7, <2>8, <2>9, EngagedKept
<1> QED
  BY <1>1, <1>2, <1>3, <1>4, <1>5, <1>6, <1>7, <1>8, <1>9 DEF StepKind

\* Only a drive that is processed loses its raw inputs.
LEMMA PurgeStep ==
  ASSUME TypeOK, TypeOK', RunInv, CallUsed, OutcomeInv, CallInv, EngagedInv,
         PurgeInv, StepKind
  PROVE  PurgeInv'
<1>. USE DEF TypeOK, PurgeInv, RawKept, Calls, RunInv, CallUsed
<1>1. CASE Quiet
  BY <1>1 DEF Quiet, Interrupted, Call
<1>2. CASE \E d \in Drives : ClaimExpires(d)
  BY <1>2 DEF ClaimExpires, backend, storage, job, work, local, Interrupted, Call
<1>3. CASE \E w \in Workers : Poll(w)
  BY <1>3 DEF Poll, Requeue, Stuck, storage, job, work, local, Interrupted, Call
<1>4. ASSUME NEW w \in Workers, NEW c \in Runs, Claims(w, c)
      PROVE  PurgeInv'
  <2>1. PICK d \in Drives : /\ status[d] = "queued"
                            /\ status' = [status EXCEPT ![d] = "processing"]
                            /\ claimedAt' = [claimedAt EXCEPT ![d] = "fresh"]
                            /\ of' = [of EXCEPT ![c] = d]
    BY <1>4 DEF Claims, ClaimOldest, Queued
  <2>2. /\ calls' = calls /\ outcome' = outcome /\ raw' = raw
        /\ pc[c] = "unused" /\ outcome[c] = "none"
        /\ \A b \in Runs : b # c => pc'[b] = pc[b] /\ of'[b] = of[b]
        /\ \A m \in calls : m.run \in Runs /\ m.run # c
    BY <1>4 DEF Claims, ClaimOldest, Goto, Unused, OutcomeInv, CallUsed, storage
  <2>3. \A e : Interrupted(e)' = Interrupted(e)
    BY <2>1, <2>2 DEF Interrupted
  <2>4. \A e \in Drives : e # d => status'[e] = status[e]
    BY <2>1
  <2>5. d \in raw \/ Interrupted(d)
    BY <2>1
  <2>6. \A b \in Runs : Call("purge", b) \in calls => b # c
    BY <2>2 DEF Call
  <2>7. \A b \in Runs : Call("purge", b) \in calls =>
            /\ of[b] \in Drives
            /\ of[b] = d => Interrupted(d)
    BY <2>1 DEF Call
  <2> QED
    BY <2>1, <2>2, <2>3, <2>4, <2>5, <2>6, <2>7
<1>5. CASE \E w \in Workers : Release(w)
  BY <1>5 DEF Release, Current, Goto, Call, backend, storage, job, work,
         Interrupted, Call
<1>6. ASSUME NEW c \in Runs, Complete(c)
      PROVE  PurgeInv'
  <2>1. UNCHANGED <<status, raw, of, outcome>>
    BY <1>6 DEF Complete, backend, storage, job
  <2>2. \A b \in Runs : Call("purge", b) \in calls' => Call("purge", b) \in calls
    BY <1>6 DEF Complete, OutcomeInv, Call
  <2>3. \A d : Interrupted(d)' = Interrupted(d)
    BY <2>1 DEF Interrupted
  <2> QED
    BY <2>1, <2>2, <2>3
<1>7. ASSUME NEW c \in Runs, HandleComplete(c)
      PROVE  PurgeInv'
  <2>1. PICK k \in {"processed", "failed"} :
            /\ Call(k, c) \in calls
            /\ status' = [status EXCEPT ![of[c]] = k]
            /\ calls' = (calls \ {Call(k, c)})
                          \cup (IF Purges(k) THEN {Call("purge", c)} ELSE {})
    BY <1>7 DEF HandleComplete
  <2>2. UNCHANGED <<raw, of, pc, outcome>>
    BY <1>7 DEF HandleComplete, storage, job
  <2>3. \A e : Interrupted(e)' = Interrupted(e)
    BY <2>2 DEF Interrupted
  <2>4. of[c] \in Drives /\ (Interrupted(of[c]) \/ status[of[c]] = "processing")
    BY <2>1, CallsEngage, EngagedUsed DEF LastCalls, EngagedInv
  <2>5. of[c] \in raw \/ Interrupted(of[c])
    BY <2>4
  <2>6. ASSUME NEW b \in Runs, Call("purge", b) \in calls'
        PROVE  status'[of[b]] = "processed" \/ Interrupted(of[b])
    <3>1. CASE Call("purge", b) \in calls
      <4>1. of[b] \in Drives
        BY <3>1 DEF Call
      <4> QED
        BY <2>1, <2>4, <3>1, <4>1
    <3>2. CASE Call("purge", b) \notin calls
      <4>1. Purges(k) /\ b = c
        BY <2>1, <2>6, <3>2 DEF Call
      <4> QED
        BY <2>1, <2>4, <4>1 DEF Purges
    <3> QED
      BY <3>1, <3>2
  <2>7. \A d \in Drives : status'[d] # "processed" => d \in raw \/ Interrupted(d)
    BY <2>1, <2>4, <2>5
  <2> QED
    BY <2>2, <2>3, <2>6, <2>7
<1>8. CASE \E c \in Runs : PurgeRaw(c)
  BY <1>8 DEF PurgeRaw, Call, backend, job, work, local, Interrupted, Call
<1>9. CASE \E c \in Runs : HandleRelease(c)
  BY <1>9 DEF HandleRelease, Call, Requeue, storage, job, work, local, Interrupted, Call
<1>10. CASE \E c \in Runs : LoseCall(c)
  BY <1>10 DEF LoseCall, Call, backend, storage, job, work, local, Interrupted, Call
<1> QED
  BY <1>1, <1>2, <1>3, <1>4, <1>5, <1>6, <1>7, <1>8, <1>9, <1>10 DEF StepKind

\* Nothing is claimed at first.
LEMMA ClaimInit == Init => ClaimInv
BY ConstantsOK DEF Init, ClaimInv, StaleInv, CallInv, EngagedInv, PurgeInv, RawKept,
                   Engaged, AtWork, Call, LastCalls

\* If claims only expire when nobody works on the drive, a step keeps who holds it.
LEMMA ClaimStep ==
  ASSUME Timely, BasicInv, BasicInv', ClaimInv, [Next]_vars
  PROVE  ClaimInv'
<1>. USE DEF BasicInv, ClaimInv
<1>1. StepKind
  BY StepKinds
<1>2. StaleInv'
  BY <1>1, StaleStep
<1>3. CallInv'
  BY <1>1, CallInvStep
<1>4. EngagedInv'
  BY <1>1, EngagedStep
<1>5. PurgeInv'
  BY <1>1, PurgeStep
<1> QED
  BY <1>2, <1>3, <1>4, <1>5

\* Then a run at work, or with its last call under way, has its drive to itself.
THEOREM ClaimCorrect == Timely /\ Spec => []ClaimInv
<1> SUFFICES ASSUME Timely PROVE Spec => []ClaimInv
  OBVIOUS
<1>1. BasicInv /\ BasicInv' /\ ClaimInv /\ [Next]_vars => ClaimInv'
  BY ClaimStep
<1> QED
  BY <1>1, ClaimInit, BasicCorrect, PTL DEF Spec

\* As long as claims do not expire under a worker, a run whose worker will still
\* act on its drive holds the drive's claim, alone.
THEOREM ClaimIsHeld == Timely /\ Spec => []ClaimHeld
<1>1. ClaimInv => ClaimHeld
  BY DEF ClaimInv, EngagedInv, Engaged, ClaimHeld
<1> QED
  BY <1>1, ClaimCorrect, PTL

\* ... and the raw inputs of a drive stay in R2 until it is processed.
THEOREM RawIsKept == Timely /\ Spec => []RawKept
<1>1. ClaimInv => RawKept
  BY DEF ClaimInv, PurgeInv
<1> QED
  BY <1>1, ClaimCorrect, PTL

\* ... and a drive that was settled is never reopened or settled otherwise.
THEOREM SettledIsFinal == Timely /\ Spec => SettledStays
<1>1. ASSUME BasicInv, BasicInv', ClaimInv, [Next]_vars,
             NEW d \in Drives, status[d] \in {"processed", "failed"}, ~Interrupted(d)
      PROVE  status'[d] = status[d]
  <2>. USE DEF BasicInv, ClaimInv, TypeOK
  <2>1. StepKind
    BY <1>1, StepKinds
  <2>2. CASE Quiet \/ \E e \in Drives : ClaimExpires(e)
    BY <2>2 DEF Quiet, ClaimExpires
  <2>3. CASE \E w \in Workers : Poll(w)
    BY <1>1, <2>3 DEF Poll, Requeue, Stuck
  <2>4. CASE \E w \in Workers, c \in Runs : Claims(w, c)
    BY <1>1, <2>4 DEF Claims, ClaimOldest, Queued
  <2>5. CASE \E w \in Workers : Release(w)
    BY <2>5 DEF Release, backend
  <2>6. CASE \E c \in Runs : Complete(c) \/ PurgeRaw(c) \/ LoseCall(c)
    BY <2>6 DEF Complete, PurgeRaw, LoseCall, backend
  <2>7. ASSUME NEW c \in Runs, HandleComplete(c)
        PROVE  status'[d] = status[d]
    <3>1. PICK k \in {"processed", "failed"} :
              Call(k, c) \in calls /\ status' = [status EXCEPT ![of[c]] = k]
      BY <2>7 DEF HandleComplete
    <3>2. Engaged(c)
      BY <3>1, CallsEngage DEF LastCalls
    <3>3. of[c] # d
      BY <1>1, <3>2 DEF EngagedInv
    <3> QED
      BY <3>1, <3>3
  <2>8. CASE \E c \in Runs : HandleRelease(c)
    BY <1>1, <2>8 DEF HandleRelease, Requeue
  <2> QED
    BY <2>1, <2>2, <2>3, <2>4, <2>5, <2>6, <2>7, <2>8 DEF StepKind
<1>2. BasicInv /\ BasicInv' /\ ClaimInv /\ [Next]_vars =>
          [\A d \in Drives : status[d] \in {"processed", "failed"} /\ ~Interrupted(d)
              => status'[d] = status[d]]_vars
  BY <1>1
<1> QED
  BY <1>2, BasicCorrect, ClaimCorrect, PTL DEF Spec, SettledStays

-----------------------------------------------------------------------------
(* DriveQueue implements DriveClaims if claims only expire when nobody works *)
(* on the drive: each kind of step maps to a step of DriveClaims or to none. *)

seen == <<stateOf, holderOf, workingOn, raw>>

\* While no outcome changes, drives neither get nor stop being disputed.
LEMMA SameDisputes ==
  ASSUME UNCHANGED <<of, outcome>>
  PROVE  \A d \in Drives : Interrupted(d)' <=> Interrupted(d)
BY DEF Interrupted

\* A step that changes no claim and no engagement is not seen.
LEMMA Unseen ==
  ASSUME UNCHANGED <<of, outcome, status, workerId, raw>>,
         \A c \in Runs : ~Interrupted(of[c]) => (Engaged(c)' <=> Engaged(c))
  PROVE  UNCHANGED seen
<1>1. \A d \in Drives : Interrupted(d)' <=> Interrupted(d)
  BY SameDisputes
<1>2. stateOf' = stateOf /\ holderOf' = holderOf
  BY <1>1 DEF stateOf, holderOf
<1>3. workingOn' = workingOn
  BY <1>1 DEF workingOn
<1> QED
  BY <1>2, <1>3 DEF seen

\* The drive of a call is a drive.
LEMMA CalledDrive ==
  ASSUME TypeOK, RunInv, CallUsed, NEW c \in Runs, NEW k, Call(k, c) \in calls
  PROVE  of[c] \in Drives /\ by[c] \in Workers
BY DEF TypeOK, RunInv, CallUsed, Call, Calls

\* Workers that stop working leave their drives, or make them disputed.
LEMMA QuietSeen ==
  ASSUME TypeOK, TypeOK', Quiet
  PROVE  Promise!Next
<1>. DEFINE S == {d \in Drives : Interrupted(d)' /\ ~Interrupted(d)}
<1>1. \A d \in Drives : Interrupted(d) => Interrupted(d)'
  BY DEF TypeOK, Quiet, Interrupted
<1>2. \A c \in Runs : Engaged(c)' => Engaged(c)
  BY DEF Quiet, Engaged, Call
<1>3. stateOf' = [d \in Drives |-> IF d \in S THEN "disputed" ELSE stateOf[d]]
  BY <1>1 DEF Quiet, stateOf
<1>4. holderOf' = [d \in Drives |-> IF d \in S THEN NoWorker ELSE holderOf[d]]
  BY <1>1 DEF Quiet, holderOf
<1>5. workingOn' \subseteq workingOn \ S
  BY <1>1, <1>2 DEF Quiet, workingOn
<1>6. Promise!Dispute(S)
  BY <1>3, <1>4, <1>5 DEF Quiet, Promise!Dispute
<1> QED
  BY <1>6 DEF Promise!Next

\* The watchdog reclaims drives nobody works on.
LEMMA PollSeen ==
  ASSUME TypeOK, RunInv, CallUsed, StaleInv, NEW w \in Workers, Poll(w)
  PROVE  Promise!Next
<1>. DEFINE S == {d \in Stuck : ~Interrupted(d)}
<1>1. \A d \in Drives : Interrupted(d)' <=> Interrupted(d)
  BY SameDisputes DEF Poll, job
<1>2. \A c \in Runs : Engaged(c)' <=> Engaged(c)
  BY DEF Poll, Engaged, AtWork, Call
<1>3. S \cap workingOn = {}
  BY EngagedUsed DEF StaleInv, Stuck, workingOn
<1>4. workingOn' = workingOn
  BY <1>1, <1>2 DEF workingOn, Poll, job
<1>5. \A d \in S : stateOf[d] = "held"
  BY DEF Stuck, stateOf
<1>6. stateOf' = [d \in Drives |-> IF d \in S THEN "queued" ELSE stateOf[d]]
  BY <1>1 DEF Poll, Requeue, stateOf
<1>7. holderOf' = [d \in Drives |-> IF d \in S THEN NoWorker ELSE holderOf[d]]
  BY <1>1 DEF Poll, Requeue, holderOf
<1>8. Promise!Reclaim(S) /\ S \subseteq Drives
  BY <1>3, <1>4, <1>5, <1>6, <1>7 DEF Promise!Reclaim, Promise!Free, Poll, storage, Stuck
<1> QED
  BY <1>8 DEF Promise!Next

\* A claim takes the oldest drive, whether or not the worker learns of it.
LEMMA ClaimSeen ==
  ASSUME TypeOK, TypeOK', CallUsed, OutcomeInv, EngagedInv,
         NEW w \in Workers, NEW c \in Runs, Claims(w, c)
  PROVE  Promise!Next \/ UNCHANGED seen
<1>1. PICK d \in Queued :
        /\ Oldest(d)
        /\ status' = [status EXCEPT ![d] = "processing"]
        /\ workerId' = [workerId EXCEPT ![d] = w]
        /\ of' = [of EXCEPT ![c] = d]
  BY DEF Claims, ClaimOldest
<1>2. pc[c] = "unused" /\ pc' \in {[pc EXCEPT ![c] = "reply"], [pc EXCEPT ![c] = "lost"]}
  BY DEF Claims, ClaimOldest, Unused, Goto
<1>3. UNCHANGED <<outcome, calls, raw>> /\ outcome[c] = "none"
  BY <1>2 DEF Claims, ClaimOldest, OutcomeInv, storage
<1>4. \A e \in Drives : Interrupted(e)' <=> Interrupted(e)
  BY <1>1, <1>3 DEF Interrupted, TypeOK
<1>5. \A k : Call(k, c) \notin calls
  BY <1>2 DEF CallUsed, Call
<1>6. ~Engaged(c)
  BY <1>2, <1>5 DEF Engaged, AtWork
<1>7. \A b \in Runs \ {c} : of'[b] = of[b] /\ (Engaged(b)' <=> Engaged(b))
  BY <1>1, <1>2, <1>3 DEF Engaged, AtWork, Call, TypeOK
<1>8. workingOn' = IF Engaged(c)' /\ ~Interrupted(d) THEN workingOn \cup {d} ELSE workingOn
  <2>1. d \in Drives /\ of'[c] = d
    BY <1>1 DEF Queued, TypeOK
  <2>2. ASSUME NEW e \in Drives
        PROVE  (\E b \in Runs : of'[b] = e /\ Engaged(b)')
                 <=> (e = d /\ Engaged(c)') \/ (\E b \in Runs : of[b] = e /\ Engaged(b))
    BY <1>6, <1>7, <2>1
  <2> QED
    BY <1>4, <2>1, <2>2 DEF workingOn
<1>9. CASE Interrupted(d)
  <2>1. stateOf' = stateOf /\ holderOf' = holderOf
    BY <1>1, <1>4, <1>9 DEF stateOf, holderOf, TypeOK
  <2>2. workingOn' = workingOn
    BY <1>8, <1>9
  <2> QED
    BY <1>3, <2>1, <2>2 DEF seen
<1>10. CASE ~Interrupted(d)
  <2>1. stateOf[d] = "queued" /\ d \in Drives
    BY <1>1, <1>10 DEF stateOf, Queued
  <2>2. \A e \in Drives : stateOf[e] = "queued" => d <= e
    BY <1>1 DEF stateOf, Queued, Oldest
  <2>3. stateOf' = [stateOf EXCEPT ![d] = "held"]
    BY <1>1, <1>4, <1>10 DEF stateOf, TypeOK, Queued
  <2>4. holderOf' = [holderOf EXCEPT ![d] = w]
    BY <1>1, <1>4, <1>10 DEF holderOf, TypeOK, Queued
  <2>5. workingOn' \in {workingOn, workingOn \cup {d}}
    BY <1>8
  <2>6. Promise!Take(d, w)
    BY <1>3, <2>1, <2>2, <2>3, <2>4, <2>5 DEF Promise!Take
  <2> QED
    BY <2>1, <2>6 DEF Promise!Next
<1> QED
  BY <1>9, <1>10

\* Sending a last call keeps a run engaged.
LEMMA CallSeen ==
  ASSUME TypeOK, RunInv, OutcomeInv, NEW c \in Runs,
         \/ Complete(c)
         \/ \E w \in Workers : Current(w, c) /\ Release(w)
  PROVE  UNCHANGED seen
<1>1. PICK k \in LastCalls, next \in Ended :
        /\ pc[c] \in {"report", "handback", "abandon"}
        /\ pc' = [pc EXCEPT ![c] = next]
        /\ calls' = calls \cup {Call(k, c)}
        /\ UNCHANGED <<of, outcome, status, workerId, raw>>
  <2>1. CASE Complete(c)
    BY <2>1 DEF Complete, OutcomeInv, LastCalls, Ended, Goto, backend, storage, job
  <2>2. ASSUME NEW w \in Workers, Current(w, c), Release(w)
        PROVE  \E k \in LastCalls, next \in Ended :
                 /\ pc[c] \in {"report", "handback", "abandon"}
                 /\ pc' = [pc EXCEPT ![c] = next]
                 /\ calls' = calls \cup {Call(k, c)}
                 /\ UNCHANGED <<of, outcome, status, workerId, raw>>
    BY <2>2 DEF Release, Current, LastCalls, Ended, Goto, backend, storage, job
  <2> QED
    BY <2>1, <2>2
<1>2. ASSUME NEW b \in Runs, ~Interrupted(of[b])
      PROVE  Engaged(b)' <=> Engaged(b)
  <2>1. CASE b = c
    <3>1. AtWork(c)
      BY <1>1, <1>2, <2>1 DEF AtWork, Interrupted, TypeOK, RunInv
    <3>2. Call(k, c) \in calls'
      BY <1>1
    <3> QED
      BY <2>1, <3>1, <3>2 DEF Engaged, Call
  <2>2. CASE b # c
    BY <1>1, <2>2 DEF Engaged, AtWork, Call, TypeOK
  <2> QED
    BY <2>1, <2>2
<1> QED
  BY <1>1, <1>2, Unseen

\* The end of a last call ends the engagement of its run, and of the drive.
LEMMA LastCallEnds ==
  ASSUME TypeOK, RunInv, CallUsed, CallInv, EngagedInv,
         NEW c \in Runs, NEW k \in LastCalls, Call(k, c) \in calls,
         UNCHANGED <<pc, of, outcome>>,
         \A b \in Runs, j \in LastCalls :
            Call(j, b) \in calls' <=> Call(j, b) \in calls /\ <<j, b>> # <<k, c>>
  PROVE  workingOn' = workingOn \ {of[c]} \/ (Interrupted(of[c]) /\ workingOn' = workingOn)
<1>1. \A d \in Drives : Interrupted(d)' <=> Interrupted(d)
  BY SameDisputes
<1>2. \A b \in Runs \ {c} : Engaged(b)' <=> Engaged(b)
  BY DEF Engaged, AtWork, Call
<1>3. of[c] \in Drives
  BY CalledDrive
<1>4. CASE Interrupted(of[c])
  BY <1>1, <1>2, <1>3, <1>4 DEF workingOn
<1>5. CASE ~Interrupted(of[c])
  <2>1. Engaged(c)
    BY CallsEngage
  <2>2. \A b \in Runs \ {c} : of[b] = of[c] => ~Engaged(b)
    BY <1>5, <2>1 DEF EngagedInv
  <2>3. pc[c] \in Ended /\ \A j \in LastCalls : Call(j, c) \in calls => j = k
    BY <1>5 DEF CallInv, Ended
  <2>4. ~Engaged(c)'
    BY <2>3 DEF Engaged, AtWork, Ended, Call
  <2> QED
    BY <1>1, <1>2, <1>3, <2>2, <2>4 DEF workingOn
<1> QED
  BY <1>4, <1>5

\* complete settles the drive of the worker that works on it.
LEMMA CompleteSeen ==
  ASSUME TypeOK, RunInv, CallUsed, CallInv, EngagedInv, NEW c \in Runs, HandleComplete(c)
  PROVE  Promise!Next \/ UNCHANGED seen
<1>1. PICK result \in {"processed", "failed"} :
        /\ Call(result, c) \in calls
        /\ status' = [status EXCEPT ![of[c]] = result]
        /\ calls' = (calls \ {Call(result, c)})
                      \cup (IF Purges(result) THEN {Call("purge", c)} ELSE {})
  BY DEF HandleComplete
<1>2. UNCHANGED <<workerId, raw, pc, of, outcome>>
  BY DEF HandleComplete, storage, job
<1>3. \A d \in Drives : Interrupted(d)' <=> Interrupted(d)
  BY <1>2, SameDisputes
<1>4. \A b \in Runs, j \in LastCalls :
        Call(j, b) \in calls' <=> Call(j, b) \in calls /\ <<j, b>> # <<result, c>>
  BY <1>1 DEF Call, LastCalls
<1>5. of[c] \in Drives
  BY <1>1, CalledDrive
<1>6. workingOn' = workingOn \ {of[c]} \/ (Interrupted(of[c]) /\ workingOn' = workingOn)
  BY <1>1, <1>2, <1>4, LastCallEnds DEF LastCalls
<1>7. CASE Interrupted(of[c])
  <2>1. of[c] \notin workingOn
    BY <1>7 DEF workingOn
  <2>2. stateOf' = stateOf /\ holderOf' = holderOf
    BY <1>1, <1>2, <1>3, <1>7 DEF stateOf, holderOf, TypeOK
  <2> QED
    BY <1>2, <1>6, <2>1, <2>2 DEF seen
<1>8. CASE ~Interrupted(of[c])
  <2>1. Engaged(c)
    BY <1>1, CallsEngage DEF LastCalls
  <2>2. status[of[c]] = "processing" /\ of[c] \in workingOn
    BY <1>5, <1>8, <2>1 DEF EngagedInv, workingOn
  <2>3. stateOf[of[c]] = "held"
    BY <1>5, <1>8, <2>2 DEF stateOf
  <2>4. stateOf' = [stateOf EXCEPT ![of[c]] = result]
    BY <1>1, <1>3, <1>5, <1>8 DEF stateOf, TypeOK
  <2>5. holderOf' = holderOf
    BY <1>2, <1>3 DEF holderOf
  <2>6. Promise!Settle(of[c], result)
    BY <1>2, <1>6, <1>8, <2>2, <2>3, <2>4, <2>5 DEF Promise!Settle
  <2> QED
    BY <1>1, <1>5, <2>6 DEF Promise!Next
<1> QED
  BY <1>7, <1>8

\* release gives the drive of the worker that works on it back.
LEMMA ReleaseSeen ==
  ASSUME TypeOK, RunInv, CallUsed, CallInv, EngagedInv, NEW c \in Runs, HandleRelease(c)
  PROVE  Promise!Next \/ UNCHANGED seen
<1>. DEFINE S == {of[c]} \cap {d \in Drives : status[d] = "processing" /\ workerId[d] = by[c]}
<1>1. Call("release", c) \in calls /\ Requeue(S) /\ calls' = calls \ {Call("release", c)}
  BY DEF HandleRelease
<1>2. UNCHANGED <<raw, pc, of, outcome>>
  BY DEF HandleRelease, storage, job
<1>3. \A d \in Drives : Interrupted(d)' <=> Interrupted(d)
  BY <1>2, SameDisputes
<1>4. \A b \in Runs, j \in LastCalls :
        Call(j, b) \in calls' <=> Call(j, b) \in calls /\ <<j, b>> # <<"release", c>>
  BY <1>1 DEF Call, LastCalls
<1>5. of[c] \in Drives
  BY <1>1, CalledDrive
<1>6. workingOn' = workingOn \ {of[c]} \/ (Interrupted(of[c]) /\ workingOn' = workingOn)
  BY <1>1, <1>2, <1>4, LastCallEnds DEF LastCalls
<1>7. CASE Interrupted(of[c])
  <2>1. of[c] \notin workingOn
    BY <1>7 DEF workingOn
  <2>2. stateOf' = stateOf /\ holderOf' = holderOf
    BY <1>1, <1>3, <1>7 DEF stateOf, holderOf, Requeue
  <2> QED
    BY <1>2, <1>6, <2>1, <2>2 DEF seen
<1>8. CASE ~Interrupted(of[c])
  <2>1. Engaged(c)
    BY <1>1, CallsEngage DEF LastCalls
  <2>2. /\ status[of[c]] = "processing" /\ workerId[of[c]] = by[c]
        /\ of[c] \in workingOn
    BY <1>5, <1>8, <2>1 DEF EngagedInv, workingOn
  <2>3. S = {of[c]}
    BY <1>5, <2>2
  <2>4. \A d \in {of[c]} : stateOf[d] = "held"
    BY <1>5, <1>8, <2>2 DEF stateOf
  <2>5. stateOf' = [d \in Drives |-> IF d \in {of[c]} THEN "queued" ELSE stateOf[d]]
    BY <1>1, <1>3, <1>8, <2>3 DEF stateOf, Requeue
  <2>6. holderOf' = [d \in Drives |-> IF d \in {of[c]} THEN NoWorker ELSE holderOf[d]]
    BY <1>1, <1>3, <1>8, <2>3 DEF holderOf, Requeue
  <2>7. Promise!GiveBack(of[c])
    BY <1>2, <1>6, <1>8, <2>2, <2>4, <2>5, <2>6 DEF Promise!GiveBack, Promise!Free
  <2> QED
    BY <1>5, <2>7 DEF Promise!Next
<1> QED
  BY <1>7, <1>8

\* Retention deletes the raw inputs of a drive that is processed.
LEMMA PurgeSeen ==
  ASSUME TypeOK, RunInv, CallUsed, PurgeInv, NEW c \in Runs, PurgeRaw(c)
  PROVE  Promise!Next \/ UNCHANGED seen
<1>1. UNCHANGED <<status, workerId, of, outcome, pc>> /\ Call("purge", c) \in calls
  BY DEF PurgeRaw, backend, job
<1>2. \A b \in Runs : Engaged(b)' <=> Engaged(b)
  BY DEF PurgeRaw, Engaged, AtWork, Call, LastCalls
<1>3. \A d \in Drives : Interrupted(d)' <=> Interrupted(d)
  BY <1>1, SameDisputes
<1>4. stateOf' = stateOf /\ holderOf' = holderOf
  BY <1>1, <1>3 DEF stateOf, holderOf
<1>5. workingOn' = workingOn
  BY <1>1, <1>2, <1>3 DEF workingOn
<1>6. CASE raw' = raw
  BY <1>4, <1>5, <1>6 DEF seen
<1>7. CASE raw' = raw \ {of[c]}
  <2>1. of[c] \in Drives
    BY <1>1, CalledDrive
  <2>2. stateOf[of[c]] \in {"processed", "disputed"}
    BY <1>1, <2>1 DEF PurgeInv, stateOf
  <2>3. Promise!Purge(of[c])
    BY <1>4, <1>5, <1>7, <2>2 DEF Promise!Purge
  <2> QED
    BY <2>1, <2>3 DEF Promise!Next
<1> QED
  BY <1>6, <1>7 DEF PurgeRaw

\* A lost call leaves its drive to the watchdog.
LEMMA LossSeen ==
  ASSUME TypeOK, NEW c \in Runs, LoseCall(c)
  PROVE  Promise!Next
<1>1. UNCHANGED <<status, workerId, of, outcome, pc, raw>> /\ calls' \subseteq calls
  BY DEF LoseCall, backend, job, storage
<1>2. \A b \in Runs : Engaged(b)' => Engaged(b)
  BY <1>1 DEF Engaged, AtWork, Call
<1>3. \A d \in Drives : Interrupted(d)' <=> Interrupted(d)
  BY <1>1, SameDisputes
<1>4. stateOf' = stateOf /\ holderOf' = holderOf
  BY <1>1, <1>3 DEF stateOf, holderOf
<1>5. workingOn' \subseteq workingOn
  BY <1>1, <1>2, <1>3 DEF workingOn
<1> QED
  BY <1>1, <1>4, <1>5 DEF Promise!Next, Promise!Leave

-----------------------------------------------------------------------------
\* At first every drive is queued and nobody works.
LEMMA InitSeen == Init => Promise!Init
<1>. SUFFICES ASSUME Init PROVE Promise!Init
  OBVIOUS
<1>1. \A d \in Drives : ~Interrupted(d)
  BY DEF Init, Interrupted
<1>2. \A c \in Runs : ~Engaged(c)
  BY DEF Init, Engaged, AtWork
<1> QED
  BY <1>1, <1>2 DEF Init, Promise!Init, stateOf, holderOf, workingOn

\* Every step is one of DriveClaims, or is not seen there.
LEMMA StepSeen ==
  ASSUME BasicInv, BasicInv', ClaimInv, [Next]_vars
  PROVE  Promise!Next \/ UNCHANGED seen
<1>. USE DEF BasicInv, ClaimInv
<1>1. StepKind
  BY StepKinds
<1>2. CASE Quiet
  BY <1>2, QuietSeen
<1>3. ASSUME NEW d \in Drives, ClaimExpires(d) PROVE UNCHANGED seen
  BY <1>3, Unseen DEF ClaimExpires, job, storage, Engaged, AtWork, Call
<1>4. ASSUME NEW w \in Workers, Poll(w) PROVE Promise!Next
  BY <1>4, PollSeen
<1>5. ASSUME NEW w \in Workers, NEW c \in Runs, Claims(w, c)
      PROVE  Promise!Next \/ UNCHANGED seen
  BY <1>5, ClaimSeen
<1>6. ASSUME NEW w \in Workers, Release(w) PROVE UNCHANGED seen
  <2>1. PICK c \in Runs : Current(w, c)
    BY <1>6 DEF Release, Current
  <2> QED
    BY <1>6, <2>1, CallSeen
<1>7. ASSUME NEW c \in Runs, Complete(c) PROVE UNCHANGED seen
  BY <1>7, CallSeen
<1>8. ASSUME NEW c \in Runs, HandleComplete(c) \/ HandleRelease(c) \/ PurgeRaw(c)
      PROVE  Promise!Next \/ UNCHANGED seen
  BY <1>8, CompleteSeen, ReleaseSeen, PurgeSeen
<1>9. ASSUME NEW c \in Runs, LoseCall(c) PROVE Promise!Next
  BY <1>9, LossSeen
<1> QED
  BY <1>1, <1>2, <1>3, <1>4, <1>5, <1>6, <1>7, <1>8, <1>9 DEF StepKind

\* If claims only expire when nobody works on the drive, the queue keeps what
\* DriveClaims promises, whatever crashes, gets lost or is stopped.
THEOREM ImplementsClaims == Timely /\ Spec => OneHolderAtATime
<1>. SUFFICES ASSUME Timely PROVE Spec => OneHolderAtATime
  OBVIOUS
<1>1. BasicInv /\ BasicInv' /\ ClaimInv /\ [Next]_vars
        => [Promise!Next]_<<stateOf, holderOf, workingOn, raw>>
  BY StepSeen DEF seen
<1> QED
  BY <1>1, InitSeen, BasicCorrect, ClaimCorrect, PTL
  DEF Spec, OneHolderAtATime, Promise!Spec, Promise!vars
=============================================================================
