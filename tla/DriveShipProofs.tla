--------------------------- MODULE DriveShipProofs ---------------------------
(***************************************************************************)
(* Theorems about what the workers of DriveQueue ship: the ship queue, the   *)
(* end of a worker, and the evidence.  They hold of every instance, whether *)
(* claims expire or not.  The invariants are two more layers on BasicInv:   *)
(* where a worker's threads are (PlaceInv), and what a run has uploaded and *)
(* posted so far (EvidenceInv).  The second half is about the runs of one   *)
(* drive: which may still post, and which may touch a job dir.              *)
(***************************************************************************)
EXTENDS DriveQueueProofs, FiniteSetTheorems

\* Where the main thread is, and where the run is that it is busy with.
MainAt(w) ==
    /\ main[w] \in {"drive", "submit"} => cur[w] # NoRun
    /\ cur[w] # NoRun =>
         \/ /\ main[w] = "drive"
            /\ pc[cur[w]] \in {"reply", "download", "pipeline", "report", "tidy"}
         \/ main[w] = "submit" /\ pc[cur[w]] = "submit"
         \/ main[w] = "drain" /\ pc[cur[w]] \in {"handback", "abandon", "tidy"}
MainInv == \A w \in Workers : MainAt(w)

\* The ship queue: its head is being shipped, no run is in it twice, and it
\* holds what the slots allow; without a ship thread, the one drive in hand.
InOrder(w) ==
    \A i \in 1..Len(shipq[w]) :
        /\ pc[shipq[w][i]] \in {"upload", "post", "report", "tidy"}
        /\ i > 1 => pc[shipq[w][i]] = "upload"
        /\ \A j \in 1..Len(shipq[w]) : shipq[w][i] = shipq[w][j] => i = j
InSlots(w) ==
    /\ Len(shipq[w]) <= Slots
    /\ main[w] = "down" => Len(shipq[w]) = 0
    /\ main[w] = "ship" => w \notin ShipAsync
    /\ w \notin ShipAsync => Len(shipq[w]) = IF main[w] = "ship" THEN 1 ELSE 0
QueueInv == \A w \in Workers : InOrder(w) /\ InSlots(w)

\* A run that is not over is in the hands of a thread of its worker.
HeldInv ==
    \A c \in Runs : Live(c) =>
        \/ cur[by[c]] = c
        \/ \E i \in 1..Len(shipq[by[c]]) : shipq[by[c]][i] = c

PlaceInv == MainInv /\ QueueInv /\ HeldInv

\* What a run has uploaded and posted so far, and what "processed" rests on.
ShippedAt(c) ==
    /\ todo[c] \subseteq found[c]
    /\ pc[c] = "submit" => todo[c] = found[c]
    /\ pc[c] = "upload" => \A v \in found[c] \ todo[c] : <<of[c], v>> \in clips
    /\ pc[c] = "post" => \A v \in found[c] :
         /\ <<of[c], v>> \in clips
         /\ v \in todo[c] \cup refused[c] \/ <<of[c], v, c>> \in docs
    /\ outcome[c] = "processed" =>
         \A v \in found[c] \ refused[c] : <<of[c], v, c>> \in docs
    /\ Call("processed", c) \in calls => outcome[c] = "processed"
ShippedInv == \A c \in Runs : ShippedAt(c)
ProcessedInv ==
    \A d \in Drives : status[d] = "processed" =>
        \E c \in Runs : of[c] = d /\ outcome[c] = "processed"
EvidenceInv == ShippedInv /\ ProcessedInv /\ ClipBeforeDoc

-----------------------------------------------------------------------------
(* Where a worker's threads are *)

\* What the threads' variables are.
LEMMA ThreadTypes ==
  ASSUME TypeOK
  PROVE  /\ main \in [Workers -> MainPC] /\ cur \in [Workers -> Runs \cup {NoRun}]
         /\ shipq \in [Workers -> Seq(Runs)] /\ pc \in [Runs -> RunPC]
BY DEF TypeOK

\* The run the main thread is busy with is not in a ship queue.
LEMMA CurrentOwn ==
  ASSUME TypeOK, ThreadInv, NEW w \in Workers, NEW c \in Runs, cur[w] = c
  PROVE  /\ by[c] = w /\ pc[c] # "unused"
         /\ \A x \in Workers : cur[x] = c => x = w
         /\ \A x \in Workers : \A i \in 1..Len(shipq[x]) :
               shipq[x][i] \in Runs /\ shipq[x][i] # c
BY DEF TypeOK, ThreadInv

\* Where it is tells where the main thread is.
LEMMA CurrentAt ==
  ASSUME MainInv, NEW w \in Workers, NEW c \in Runs, cur[w] = c
  PROVE  /\ c # NoRun
         /\ \/ main[w] = "drive" /\ pc[c] \in {"reply", "download", "pipeline", "report", "tidy"}
            \/ main[w] = "submit" /\ pc[c] = "submit"
            \/ main[w] = "drain" /\ pc[c] \in {"handback", "abandon", "tidy"}
BY ConstantsOK DEF MainInv, MainAt

\* The run being shipped is at the head of its worker's queue and nowhere else.
LEMMA HeadOwn ==
  ASSUME TypeOK, ThreadInv, QueueInv, NEW w \in Workers, NEW c \in Runs, Shipping(w, c)
  PROVE  /\ by[c] = w /\ pc[c] # "unused"
         /\ \A x \in Workers : cur[x] # c
         /\ Len(shipq[w]) \in Nat \ {0} /\ shipq[w][1] = c
         /\ \A x \in Workers : \A i \in 1..Len(shipq[x]) :
               shipq[x][i] \in Runs /\ (shipq[x][i] = c => x = w /\ i = 1)
<1>1. by[c] = w /\ pc[c] # "unused" /\ \A x \in Workers : cur[x] # c
  BY ShippingOwn
<1>2. Len(shipq[w]) \in Nat \ {0} /\ shipq[w][1] = c
  BY DEF TypeOK, Shipping
<1>3. ASSUME NEW x \in Workers, NEW i \in 1..Len(shipq[x]), shipq[x][i] = c
      PROVE  x = w /\ i = 1
  <2>1. x = w
    BY <1>1, <1>3 DEF ThreadInv
  <2> QED
    BY <1>2, <1>3, <2>1 DEF QueueInv, InOrder
<1>4. \A x \in Workers : \A i \in 1..Len(shipq[x]) : shipq[x][i] \in Runs
  BY DEF TypeOK
<1> QED
  BY <1>1, <1>2, <1>3, <1>4

\* What the queue looks like once its head is gone.
LEMMA Popped ==
  ASSUME TypeOK, NEW w \in Workers, Len(shipq[w]) \in Nat \ {0},
         shipq' = [shipq EXCEPT ![w] = Tail(@)]
  PROVE  /\ Len(shipq'[w]) = Len(shipq[w]) - 1
         /\ \A i \in 1..Len(shipq'[w]) :
               i + 1 \in 2..Len(shipq[w]) /\ shipq'[w][i] = shipq[w][i + 1]
         /\ \A x \in Workers \ {w} : shipq'[x] = shipq[x]
BY DEF TypeOK

\* A step of one worker leaves the main threads of the others where they are.
LEMMA MainMoved ==
  ASSUME TypeOK, TypeOK', ThreadInv, MainInv, NEW w \in Workers,
         \A x \in Workers \ {w} : main'[x] = main[x] /\ cur'[x] = cur[x],
         \A b \in Runs : by[b] # w => pc'[b] = pc[b],
         MainAt(w)'
  PROVE  MainInv'
<1>1. ASSUME NEW x \in Workers \ {w} PROVE MainAt(x)'
  <2>1. MainAt(x) /\ main'[x] = main[x] /\ cur'[x] = cur[x]
    BY DEF MainInv
  <2>2. cur[x] # NoRun => pc'[cur[x]] = pc[cur[x]]
    BY DEF ThreadInv, TypeOK
  <2> QED
    BY <2>1, <2>2 DEF MainAt
<1> QED
  BY <1>1 DEF MainInv

\* Every step keeps the main thread and the run it is busy with together.
LEMMA MainStep ==
  ASSUME TypeOK, TypeOK', RunInv, ThreadInv, QueueInv, MainInv, [Next]_vars
  PROVE  MainInv'
<1>. USE ConstantsOK DEF backend, storage, job, work, local
<1>1. ASSUME NEW d \in Drives, ClaimExpires(d) PROVE MainInv'
  BY <1>1 DEF ClaimExpires,
         TypeOK, ThreadInv, MainInv, MainAt
<1>2. ASSUME NEW w \in Workers, NEW level \in {"graceful", "now"}, RequestStop(w, level)
      PROVE  MainInv'
  BY <1>2 DEF RequestStop,
         TypeOK, ThreadInv, MainInv, MainAt
<1>3. ASSUME NEW w \in Workers, Poll(w) PROVE MainInv'
  BY <1>3 DEF Poll, Requeue, Stuck,
         TypeOK, ThreadInv, MainInv, MainAt
<1>4. ASSUME NEW w \in Workers, Claim(w) PROVE MainInv'
  BY <1>4 DEF Claim, ClaimOldest, Unused, Queued, Goto,
         TypeOK, ThreadInv, MainInv, MainAt
<1>5. ASSUME NEW w \in Workers, NoJobs(w) PROVE MainInv'
  BY <1>5 DEF NoJobs,
         TypeOK, ThreadInv, MainInv, MainAt
<1>6. ASSUME NEW w \in Workers, Start(w) PROVE MainInv'
  <2>1. PICK c \in Runs :
            /\ cur[w] = c /\ pc[c] = "reply"
            /\ \/ Goto(c, "handback") /\ main' = [main EXCEPT ![w] = "drain"]
               \/ Goto(c, "download") /\ main' = main
    BY <1>6 DEF Start, Current, TypeOK
  <2>2. cur' = cur /\ by[c] = w /\ main[w] = "drive"
    BY <1>6, <2>1, CurrentOwn, CurrentAt DEF Start
  <2>3. main'[w] \in {"drive", "drain"} /\ cur'[w] = c /\ c # NoRun
    BY <2>1, <2>2, CurrentAt DEF TypeOK
  <2>4. pc'[c] = IF main'[w] = "drain" THEN "handback" ELSE "download"
    BY <2>1, <2>2 DEF TypeOK, Goto
  <2>5. MainAt(w)'
    BY <2>3, <2>4 DEF MainAt
  <2>6. \A b \in Runs : by[b] # w => pc'[b] = pc[b]
    BY <2>1, <2>2 DEF Goto, TypeOK
  <2>7. \A x \in Workers \ {w} : main'[x] = main[x] /\ cur'[x] = cur[x]
    BY <2>1, <2>2 DEF TypeOK
  <2> QED
    BY <2>5, <2>6, <2>7, MainMoved
<1>7. ASSUME NEW w \in Workers, Download(w) PROVE MainInv'
  BY <1>7 DEF Download, Current, Goto,
         TypeOK, ThreadInv, MainInv, MainAt
<1>8. ASSUME NEW w \in Workers, Pipeline(w) PROVE MainInv'
  BY <1>8 DEF Pipeline, Current, Goto,
         TypeOK, ThreadInv, MainInv, MainAt
<1>9. ASSUME NEW w \in Workers, ProcessFails(w) PROVE MainInv'
  BY <1>9 DEF ProcessFails, Current, Settle, Goto,
         TypeOK, ThreadInv, MainInv, MainAt
<1>10. ASSUME NEW w \in Workers, StopNow(w) PROVE MainInv'
  BY <1>10 DEF StopNow, Current, Goto,
         TypeOK, ThreadInv, MainInv, MainAt
<1>11. ASSUME NEW w \in Workers, Release(w) PROVE MainInv'
  <2>1. PICK c \in Runs :
            /\ cur[w] = c /\ main' = main
            /\ \/ pc[c] = "abandon" /\ Goto(c, "tidy") /\ cur' = cur
               \/ pc[c] = "handback" /\ Goto(c, "over") /\ cur' = [cur EXCEPT ![w] = NoRun]
    BY <1>11 DEF Release, Current, TypeOK
  <2>2. by[c] = w /\ main[w] = "drain"
    BY <2>1, CurrentOwn, CurrentAt
  <2>3. cur'[w] = NoRun \/ (cur'[w] = c /\ pc'[c] = "tidy")
    <3>1. CASE pc' = [pc EXCEPT ![c] = "tidy"] /\ cur' = cur
      BY <2>1, <3>1 DEF TypeOK
    <3>2. CASE cur' = [cur EXCEPT ![w] = NoRun]
      BY <3>2, ThreadTypes
    <3> QED
      BY <2>1, <3>1, <3>2 DEF Goto
  <2>4. MainAt(w)'
    BY <2>1, <2>2, <2>3 DEF MainAt
  <2>5. \A b \in Runs : by[b] # w => pc'[b] = pc[b]
    BY <2>1, <2>2 DEF Goto, TypeOK
  <2>6. \A x \in Workers \ {w} : main'[x] = main[x] /\ cur'[x] = cur[x]
    BY <2>1, <2>2 DEF TypeOK
  <2> QED
    BY <2>4, <2>5, <2>6, MainMoved
<1>12. ASSUME NEW w \in Workers, Submit(w) PROVE MainInv'
  BY <1>12 DEF Submit, Current, Goto, AfterSubmit, SlotFree,
         TypeOK, ThreadInv, MainInv, MainAt
<1>13. ASSUME NEW w \in Workers, MainComplete(w) PROVE MainInv'
  BY <1>13 DEF MainComplete, Current, Complete, Goto,
         TypeOK, ThreadInv, MainInv, MainAt
<1>14. ASSUME NEW w \in Workers, MainTidy(w) PROVE MainInv'
  BY <1>14 DEF MainTidy, Current, Tidy, Goto,
         TypeOK, ThreadInv, MainInv, MainAt
<1>15. ASSUME NEW w \in Workers, LeaveLoop(w) PROVE MainInv'
  BY <1>15 DEF LeaveLoop,
         TypeOK, ThreadInv, MainInv, MainAt
<1>16. ASSUME NEW w \in Workers, Drained(w) PROVE MainInv'
  BY <1>16 DEF Drained, NothingInHand,
         TypeOK, ThreadInv, MainInv, MainAt
<1>17. ASSUME NEW w \in Workers, UploadClip(w) PROVE MainInv'
  BY <1>17 DEF UploadClip, Shipping, Goto,
         TypeOK, ThreadInv, MainInv, MainAt
<1>18. ASSUME NEW w \in Workers, PostViolation(w) PROVE MainInv'
  BY <1>18 DEF PostViolation, Shipping, Settle, Goto,
         TypeOK, ThreadInv, MainInv, MainAt
<1>19. ASSUME NEW w \in Workers, ShipNothing(w) PROVE MainInv'
  BY <1>19 DEF ShipNothing, Shipping, Settle, Goto,
         TypeOK, ThreadInv, MainInv, MainAt
<1>20. ASSUME NEW w \in Workers, ShipFails(w) PROVE MainInv'
  BY <1>20 DEF ShipFails, Shipping, Settle, Goto,
         TypeOK, ThreadInv, MainInv, MainAt
<1>21. ASSUME NEW w \in Workers, ShipComplete(w) PROVE MainInv'
  BY <1>21 DEF ShipComplete, Shipping, Complete, Goto,
         TypeOK, ThreadInv, MainInv, MainAt
<1>22. ASSUME NEW w \in Workers, ShipTidy(w) PROVE MainInv'
  BY <1>22 DEF ShipTidy, Shipping, Tidy, Goto,
         TypeOK, ThreadInv, MainInv, MainAt
<1>23. ASSUME NEW w \in Workers, ClaimReplyLost(w) PROVE MainInv'
  BY <1>23 DEF ClaimReplyLost, ClaimOldest, Unused, Queued, Goto,
         TypeOK, ThreadInv, MainInv, MainAt
<1>24. ASSUME NEW w \in Workers, ForcedDrop(w) PROVE MainInv'
  BY <1>24 DEF ForcedDrop, Current, Goto,
         TypeOK, ThreadInv, MainInv, MainAt
<1>25. ASSUME NEW w \in Workers, ForcedCut(w) PROVE MainInv'
  BY <1>25 DEF ForcedCut, Shipping, Goto,
         TypeOK, ThreadInv, MainInv, MainAt
<1>26. ASSUME NEW w \in Workers, Crash(w) PROVE MainInv'
  BY <1>26 DEF Crash, Live,
         TypeOK, ThreadInv, MainInv, MainAt
<1>27. ASSUME NEW c \in Runs, HandleComplete(c) PROVE MainInv'
  BY <1>27 DEF HandleComplete,
         TypeOK, ThreadInv, MainInv, MainAt
<1>28. ASSUME NEW c \in Runs, PurgeRaw(c) PROVE MainInv'
  BY <1>28 DEF PurgeRaw,
         TypeOK, ThreadInv, MainInv, MainAt
<1>29. ASSUME NEW c \in Runs, HandleRelease(c) PROVE MainInv'
  BY <1>29 DEF HandleRelease, Requeue,
         TypeOK, ThreadInv, MainInv, MainAt
<1>30. ASSUME NEW c \in Runs, LoseCall(c) PROVE MainInv'
  BY <1>30 DEF LoseCall,
         TypeOK, ThreadInv, MainInv, MainAt
<1>31. CASE UNCHANGED vars
  BY <1>31 DEF vars,
         TypeOK, ThreadInv, MainInv, MainAt
<1> QED
  BY <1>1, <1>2, <1>3, <1>4, <1>5, <1>6, <1>7, <1>8, <1>9, <1>10,
     <1>11, <1>12, <1>13, <1>14, <1>15, <1>16, <1>17, <1>18, <1>19, <1>20,
     <1>21, <1>22, <1>23, <1>24, <1>25, <1>26, <1>27, <1>28, <1>29, <1>30,
     <1>31
     DEF Next, MainThread, ShipThread, Handler, Environment

\* A step that moves at most heads of queues on keeps the queues.
LEMMA QueueKept ==
  ASSUME TypeOK, TypeOK', QueueInv, UNCHANGED shipq,
         \A w \in Workers :
            /\ \A i \in 1..Len(shipq[w]) :
                 \/ pc'[shipq[w][i]] = pc[shipq[w][i]]
                 \/ i = 1 /\ pc'[shipq[w][i]] \in {"upload", "post", "report", "tidy"}
            /\ \/ main'[w] = main[w]
               \/ main[w] # "ship" /\ main'[w] \notin {"ship", "down"}
  PROVE  QueueInv'
<1>1. ASSUME NEW w \in Workers, NEW i \in 1..Len(shipq[w])
      PROVE  /\ pc'[shipq[w][i]] \in {"upload", "post", "report", "tidy"}
             /\ i > 1 => pc'[shipq[w][i]] = "upload"
             /\ \A j \in 1..Len(shipq[w]) : shipq[w][i] = shipq[w][j] => i = j
  BY <1>1 DEF QueueInv, InOrder, InSlots
<1>2. ASSUME NEW w \in Workers
      PROVE  /\ Len(shipq[w]) <= Slots
             /\ main'[w] = "down" => Len(shipq[w]) = 0
             /\ main'[w] = "ship" => w \notin ShipAsync
             /\ w \notin ShipAsync => Len(shipq[w]) = IF main'[w] = "ship" THEN 1 ELSE 0
  BY <1>2 DEF QueueInv, InOrder, InSlots
<1> QED
  BY <1>1, <1>2 DEF QueueInv, InOrder, InSlots

\* The main thread neither comes to ship a drive, nor has shipped it, nor ends.
MainApart(w) == \/ main'[w] = main[w]
                \/ main[w] # "ship" /\ main'[w] \notin {"ship", "down"}

\* Steps that move no run keep the queue ...
LEMMA QueueIdle ==
  ASSUME TypeOK, TypeOK', QueueInv, UNCHANGED <<pc, shipq>>, \A w \in Workers : MainApart(w)
  PROVE  QueueInv'
BY QueueKept DEF MainApart

\* ... and so do those that move a run outside it.
LEMMA QueueApart ==
  ASSUME TypeOK, TypeOK', QueueInv, UNCHANGED shipq, NEW c \in Runs,
         \A w \in Workers : MainApart(w),
         \A b \in Runs : b # c => pc'[b] = pc[b],
         \A x \in Workers : \A i \in 1..Len(shipq[x]) : shipq[x][i] \in Runs /\ shipq[x][i] # c
  PROVE  QueueInv'
BY QueueKept DEF MainApart

\* A step of one worker leaves the queues of the others alone.
LEMMA QueueMoved ==
  ASSUME TypeOK, TypeOK', ThreadInv, QueueInv, NEW w \in Workers,
         \A x \in Workers \ {w} : main'[x] = main[x] /\ shipq'[x] = shipq[x],
         \A b \in Runs : by[b] # w => pc'[b] = pc[b],
         InOrder(w)', InSlots(w)'
  PROVE  QueueInv'
<1>1. ASSUME NEW x \in Workers \ {w} PROVE InOrder(x)' /\ InSlots(x)'
  <2>1. InOrder(x) /\ InSlots(x) /\ main'[x] = main[x] /\ shipq'[x] = shipq[x]
    BY DEF QueueInv, InOrder, InSlots
  <2>2. \A i \in 1..Len(shipq[x]) : pc'[shipq[x][i]] = pc[shipq[x][i]]
    BY DEF ThreadInv, TypeOK
  <2> QED
    BY <2>1, <2>2 DEF InOrder, InSlots
<1> QED
  BY <1>1 DEF QueueInv, InOrder, InSlots

\* Every step keeps the ship queue in order and within the slots.
LEMMA QueueStep ==
  ASSUME TypeOK, TypeOK', RunInv, ThreadInv, MainInv, QueueInv, [Next]_vars
  PROVE  QueueInv'
<1>. USE ConstantsOK DEF backend, storage, job, work, local
<1>1. ASSUME NEW d \in Drives, ClaimExpires(d) PROVE QueueInv'
  BY <1>1, ThreadTypes, QueueIdle DEF ClaimExpires, MainApart
<1>2. ASSUME NEW w \in Workers, NEW level \in {"graceful", "now"}, RequestStop(w, level)
      PROVE  QueueInv'
  BY <1>2, ThreadTypes, QueueIdle DEF RequestStop, MainApart
<1>3. ASSUME NEW w \in Workers, Poll(w) PROVE QueueInv'
  BY <1>3, ThreadTypes, QueueIdle DEF Poll, MainApart
<1>4. ASSUME NEW w \in Workers, Claim(w) PROVE QueueInv'
  <2>1. PICK c \in Runs :
            /\ pc[c] = "unused" /\ \E p \in {"reply", "lost"} : pc' = [pc EXCEPT ![c] = p]
            /\ main[w] = "claiming" /\ shipq' = shipq
            /\ \E m \in {"drive", "poll"} : main' = [main EXCEPT ![w] = m]
    BY <1>4 DEF Claim, ClaimOldest, Unused, Goto
  <2>2. \A x \in Workers : \A i \in 1..Len(shipq[x]) : shipq[x][i] \in Runs /\ shipq[x][i] # c
    BY <2>1 DEF ThreadInv, TypeOK
  <2>3. \A x \in Workers : MainApart(x)
    BY <2>1, ThreadTypes DEF MainApart
  <2>4. \A b \in Runs : b # c => pc'[b] = pc[b]
    BY <2>1, ThreadTypes
  <2> QED
    BY <2>1, <2>2, <2>3, <2>4, QueueApart
<1>5. ASSUME NEW w \in Workers, NoJobs(w) PROVE QueueInv'
  BY <1>5, ThreadTypes, QueueIdle DEF NoJobs, MainApart
<1>6. ASSUME NEW w \in Workers, Start(w) PROVE QueueInv'
  <2>1. PICK c \in Runs : cur[w] = c /\ \A b \in Runs : b # c => pc'[b] = pc[b]
    BY <1>6 DEF Start, Current, Goto, Settle, TypeOK
  <2>2. \A x \in Workers : \A i \in 1..Len(shipq[x]) : shipq[x][i] \in Runs /\ shipq[x][i] # c
    BY <2>1, CurrentOwn
  <2>3. \A x \in Workers : MainApart(x)
    <3>1. main[w] \in {"drive", "submit", "drain"}
      BY <2>1, CurrentAt
    <3>2. main' = main \/ main' = [main EXCEPT ![w] = "drain"]
      BY <1>6 DEF Start
    <3> QED
      BY <3>1, <3>2, ThreadTypes DEF MainApart
  <2>4. shipq' = shipq
    BY <1>6 DEF Start, TypeOK
  <2> QED
    BY <2>1, <2>2, <2>3, <2>4, QueueApart
<1>7. ASSUME NEW w \in Workers, Download(w) PROVE QueueInv'
  <2>1. PICK c \in Runs : cur[w] = c /\ \A b \in Runs : b # c => pc'[b] = pc[b]
    BY <1>7 DEF Download, Current, Goto, Settle, TypeOK
  <2>2. \A x \in Workers : \A i \in 1..Len(shipq[x]) : shipq[x][i] \in Runs /\ shipq[x][i] # c
    BY <2>1, CurrentOwn
  <2>3. \A x \in Workers : MainApart(x)
    <3>1. main[w] \in {"drive", "submit", "drain"}
      BY <2>1, CurrentAt
    <3>2. main' = main
      BY <1>7, ThreadTypes DEF Download
    <3> QED
      BY <3>1, <3>2, ThreadTypes DEF MainApart
  <2>4. shipq' = shipq
    BY <1>7 DEF Download
  <2> QED
    BY <2>1, <2>2, <2>3, <2>4, QueueApart
<1>8. ASSUME NEW w \in Workers, Pipeline(w) PROVE QueueInv'
  <2>1. PICK c \in Runs : cur[w] = c /\ \A b \in Runs : b # c => pc'[b] = pc[b]
    BY <1>8 DEF Pipeline, Current, Goto, Settle, TypeOK
  <2>2. \A x \in Workers : \A i \in 1..Len(shipq[x]) : shipq[x][i] \in Runs /\ shipq[x][i] # c
    BY <2>1, CurrentOwn
  <2>3. \A x \in Workers : MainApart(x)
    <3>1. main[w] \in {"drive", "submit", "drain"}
      BY <2>1, CurrentAt
    <3>2. main' = [main EXCEPT ![w] = "submit"]
      BY <1>8 DEF Pipeline
    <3> QED
      BY <3>1, <3>2, ThreadTypes DEF MainApart
  <2>4. shipq' = shipq
    BY <1>8 DEF Pipeline, TypeOK
  <2> QED
    BY <2>1, <2>2, <2>3, <2>4, QueueApart
<1>9. ASSUME NEW w \in Workers, ProcessFails(w) PROVE QueueInv'
  <2>1. PICK c \in Runs : cur[w] = c /\ \A b \in Runs : b # c => pc'[b] = pc[b]
    BY <1>9 DEF ProcessFails, Current, Goto, Settle, TypeOK
  <2>2. \A x \in Workers : \A i \in 1..Len(shipq[x]) : shipq[x][i] \in Runs /\ shipq[x][i] # c
    BY <2>1, CurrentOwn
  <2>3. \A x \in Workers : MainApart(x)
    <3>1. main[w] \in {"drive", "submit", "drain"}
      BY <2>1, CurrentAt
    <3>2. main' = main
      BY <1>9, ThreadTypes DEF ProcessFails
    <3> QED
      BY <3>1, <3>2, ThreadTypes DEF MainApart
  <2>4. shipq' = shipq
    BY <1>9 DEF ProcessFails
  <2> QED
    BY <2>1, <2>2, <2>3, <2>4, QueueApart
<1>10. ASSUME NEW w \in Workers, StopNow(w) PROVE QueueInv'
  <2>1. PICK c \in Runs : cur[w] = c /\ \A b \in Runs : b # c => pc'[b] = pc[b]
    BY <1>10 DEF StopNow, Current, Goto, Settle, TypeOK
  <2>2. \A x \in Workers : \A i \in 1..Len(shipq[x]) : shipq[x][i] \in Runs /\ shipq[x][i] # c
    BY <2>1, CurrentOwn
  <2>3. \A x \in Workers : MainApart(x)
    <3>1. main[w] \in {"drive", "submit", "drain"}
      BY <2>1, CurrentAt
    <3>2. main' = [main EXCEPT ![w] = "drain"]
      BY <1>10, ThreadTypes DEF StopNow
    <3> QED
      BY <3>1, <3>2, ThreadTypes DEF MainApart
  <2>4. shipq' = shipq
    BY <1>10 DEF StopNow
  <2> QED
    BY <2>1, <2>2, <2>3, <2>4, QueueApart
<1>11. ASSUME NEW w \in Workers, Release(w) PROVE QueueInv'
  <2>1. PICK c \in Runs : cur[w] = c /\ \A b \in Runs : b # c => pc'[b] = pc[b]
    BY <1>11 DEF Release, Current, Goto, Settle, TypeOK
  <2>2. \A x \in Workers : \A i \in 1..Len(shipq[x]) : shipq[x][i] \in Runs /\ shipq[x][i] # c
    BY <2>1, CurrentOwn
  <2>3. \A x \in Workers : MainApart(x)
    <3>1. main[w] \in {"drive", "submit", "drain"}
      BY <2>1, CurrentAt
    <3>2. main' = main
      BY <1>11, ThreadTypes DEF Release
    <3> QED
      BY <3>1, <3>2, ThreadTypes DEF MainApart
  <2>4. shipq' = shipq
    BY <1>11 DEF Release
  <2> QED
    BY <2>1, <2>2, <2>3, <2>4, QueueApart
<1>12. ASSUME NEW w \in Workers, Submit(w) PROVE QueueInv'
  <2>1. PICK c \in Runs :
            /\ cur[w] = c /\ Len(shipq[w]) < Slots
            /\ pc' = [pc EXCEPT ![c] = "upload"]
            /\ shipq' = [shipq EXCEPT ![w] = Append(@, c)]
            /\ main' = [main EXCEPT ![w] = AfterSubmit(w)]
            /\ main[w] = "submit" /\ by[c] = w
    <3>1. PICK c \in Runs :
              /\ cur[w] = c /\ Len(shipq[w]) < Slots /\ pc[c] = "submit"
              /\ pc' = [pc EXCEPT ![c] = "upload"]
              /\ shipq' = [shipq EXCEPT ![w] = Append(@, c)]
              /\ main' = [main EXCEPT ![w] = AfterSubmit(w)]
      BY <1>12 DEF Submit, Current, Goto, SlotFree, TypeOK
    <3>2. MainAt(w) /\ c # NoRun /\ by[c] = w
      BY <3>1, CurrentOwn DEF MainInv
    <3> QED
      BY <3>1, <3>2 DEF MainAt, TypeOK
  <2>2. \A x \in Workers : \A i \in 1..Len(shipq[x]) : shipq[x][i] \in Runs /\ shipq[x][i] # c
    BY <2>1, CurrentOwn
  <2>3. /\ Len(shipq'[w]) = Len(shipq[w]) + 1
        /\ \A i \in 1..Len(shipq[w]) : shipq'[w][i] = shipq[w][i]
        /\ shipq'[w][Len(shipq[w]) + 1] = c
        /\ \A x \in Workers \ {w} : shipq'[x] = shipq[x]
    BY <2>1 DEF TypeOK
  <2>4. Len(shipq[w]) \in Nat
    BY DEF TypeOK
  <2>5. ASSUME NEW i \in 1..Len(shipq'[w]), NEW j \in 1..Len(shipq'[w])
        PROVE  /\ pc'[shipq'[w][i]] \in {"upload", "post", "report", "tidy"}
               /\ i > 1 => pc'[shipq'[w][i]] = "upload"
               /\ shipq'[w][i] = shipq'[w][j] => i = j
    <3>1. i \in 1..Len(shipq[w]) \/ i = Len(shipq[w]) + 1
      BY <2>3, <2>4 DEF TypeOK
    <3>2. j \in 1..Len(shipq[w]) \/ j = Len(shipq[w]) + 1
      BY <2>3, <2>4 DEF TypeOK
    <3> QED
      BY <2>1, <2>2, <2>3, <3>1, <3>2 DEF TypeOK, InOrder, QueueInv
  <2>6. InOrder(w)'
    BY <2>5 DEF InOrder, TypeOK
  <2>7. InSlots(w)'
    BY <2>1, <2>3, <2>4 DEF AfterSubmit, TypeOK, InSlots, QueueInv
  <2> QED
    BY <2>1, <2>3, <2>6, <2>7, QueueMoved
<1>13. ASSUME NEW w \in Workers, MainComplete(w) PROVE QueueInv'
  <2>1. PICK c \in Runs : cur[w] = c /\ \A b \in Runs : b # c => pc'[b] = pc[b]
    BY <1>13 DEF MainComplete, Complete, Current, Goto, Settle, TypeOK
  <2>2. \A x \in Workers : \A i \in 1..Len(shipq[x]) : shipq[x][i] \in Runs /\ shipq[x][i] # c
    BY <2>1, CurrentOwn
  <2>3. \A x \in Workers : MainApart(x)
    <3>1. main[w] \in {"drive", "submit", "drain"}
      BY <2>1, CurrentAt
    <3>2. main' = main
      BY <1>13, ThreadTypes DEF MainComplete, Complete
    <3> QED
      BY <3>1, <3>2, ThreadTypes DEF MainApart
  <2>4. shipq' = shipq
    BY <1>13 DEF MainComplete, Complete
  <2> QED
    BY <2>1, <2>2, <2>3, <2>4, QueueApart
<1>14. ASSUME NEW w \in Workers, MainTidy(w) PROVE QueueInv'
  <2>1. PICK c \in Runs : cur[w] = c /\ \A b \in Runs : b # c => pc'[b] = pc[b]
    BY <1>14 DEF MainTidy, Tidy, Current, Goto, Settle, TypeOK
  <2>2. \A x \in Workers : \A i \in 1..Len(shipq[x]) : shipq[x][i] \in Runs /\ shipq[x][i] # c
    BY <2>1, CurrentOwn
  <2>3. \A x \in Workers : MainApart(x)
    <3>1. main[w] \in {"drive", "submit", "drain"}
      BY <2>1, CurrentAt
    <3>2. main' \in {main, [main EXCEPT ![w] = "poll"]}
      BY <1>14, ThreadTypes DEF MainTidy, Tidy
    <3> QED
      BY <3>1, <3>2, ThreadTypes DEF MainApart
  <2>4. shipq' = shipq
    BY <1>14 DEF MainTidy, Tidy
  <2> QED
    BY <2>1, <2>2, <2>3, <2>4, QueueApart
<1>15. ASSUME NEW w \in Workers, LeaveLoop(w) PROVE QueueInv'
  BY <1>15, ThreadTypes, QueueIdle DEF LeaveLoop, MainApart
<1>16. ASSUME NEW w \in Workers, Drained(w) PROVE QueueInv'
  BY <1>16 DEF Drained, NothingInHand,
         TypeOK, ThreadInv, QueueInv, InOrder, InSlots
<1>17. ASSUME NEW w \in Workers, UploadClip(w) PROVE QueueInv'
  <2>1. PICK c \in Runs :
            /\ Shipping(w, c)
            /\ \A b \in Runs : b # c => pc'[b] = pc[b]
            /\ pc'[c] \in {"upload", "post", "report", "tidy"}
    BY <1>17 DEF UploadClip, Goto, Settle, TypeOK
  <2>2. \A x \in Workers : \A i \in 1..Len(shipq[x]) :
            shipq[x][i] \in Runs /\ (shipq[x][i] = c => i = 1)
    BY <2>1, HeadOwn
  <2> QED
    BY <1>17, <2>1, <2>2, QueueKept DEF UploadClip
<1>18. ASSUME NEW w \in Workers, PostViolation(w) PROVE QueueInv'
  BY <1>18 DEF PostViolation, Shipping, Settle, Goto,
         TypeOK, ThreadInv, QueueInv, InOrder, InSlots
<1>19. ASSUME NEW w \in Workers, ShipNothing(w) PROVE QueueInv'
  <2>1. PICK c \in Runs :
            /\ Shipping(w, c)
            /\ \A b \in Runs : b # c => pc'[b] = pc[b]
            /\ pc'[c] \in {"upload", "post", "report", "tidy"}
    BY <1>19 DEF ShipNothing, Goto, Settle, TypeOK
  <2>2. \A x \in Workers : \A i \in 1..Len(shipq[x]) :
            shipq[x][i] \in Runs /\ (shipq[x][i] = c => i = 1)
    BY <2>1, HeadOwn
  <2> QED
    BY <1>19, <2>1, <2>2, QueueKept DEF ShipNothing
<1>20. ASSUME NEW w \in Workers, ShipFails(w) PROVE QueueInv'
  BY <1>20 DEF ShipFails, Shipping, Settle, Goto,
         TypeOK, ThreadInv, QueueInv, InOrder, InSlots
<1>21. ASSUME NEW w \in Workers, ShipComplete(w) PROVE QueueInv'
  BY <1>21 DEF ShipComplete, Shipping, Complete, Goto,
         TypeOK, ThreadInv, QueueInv, InOrder, InSlots
<1>22. ASSUME NEW w \in Workers, ShipTidy(w) PROVE QueueInv'
  <2>1. PICK c \in Runs :
            /\ Shipping(w, c)
            /\ \A b \in Runs : b # c => pc'[b] = pc[b]
            /\ shipq' = [shipq EXCEPT ![w] = Tail(@)]
            /\ main' = [main EXCEPT ![w] = IF @ = "ship" THEN "poll" ELSE @]
    BY <1>22 DEF ShipTidy, Tidy, Goto, TypeOK
  <2>2. /\ Len(shipq[w]) \in Nat \ {0} /\ by[c] = w
        /\ \A x \in Workers : \A i \in 1..Len(shipq[x]) :
              shipq[x][i] \in Runs /\ (shipq[x][i] = c => x = w /\ i = 1)
    BY <2>1, HeadOwn
  <2>3. /\ Len(shipq'[w]) = Len(shipq[w]) - 1
        /\ \A i \in 1..Len(shipq'[w]) :
              i + 1 \in 2..Len(shipq[w]) /\ shipq'[w][i] = shipq[w][i + 1]
        /\ \A x \in Workers \ {w} : shipq'[x] = shipq[x]
    BY <2>1, <2>2, Popped
  <2>4. ASSUME NEW i \in 1..Len(shipq'[w]), NEW j \in 1..Len(shipq'[w])
        PROVE  /\ pc'[shipq'[w][i]] = "upload"
               /\ shipq'[w][i] = shipq'[w][j] => i = j
    BY <2>1, <2>2, <2>3 DEF TypeOK, InOrder, QueueInv
  <2>5. InOrder(w)'
    BY <2>4 DEF InOrder, TypeOK
  <2>6. InSlots(w)'
    BY <1>22, <2>1, <2>2, <2>3 DEF TypeOK, InSlots, QueueInv
  <2> QED
    BY <2>1, <2>2, <2>3, <2>5, <2>6, QueueMoved
<1>23. ASSUME NEW w \in Workers, ClaimReplyLost(w) PROVE QueueInv'
  <2>1. PICK c \in Runs :
            /\ pc[c] = "unused" /\ \E p \in {"reply", "lost"} : pc' = [pc EXCEPT ![c] = p]
            /\ main[w] = "claiming" /\ shipq' = shipq
            /\ \E m \in {"drive", "poll"} : main' = [main EXCEPT ![w] = m]
    BY <1>23 DEF ClaimReplyLost, ClaimOldest, Unused, Goto
  <2>2. \A x \in Workers : \A i \in 1..Len(shipq[x]) : shipq[x][i] \in Runs /\ shipq[x][i] # c
    BY <2>1 DEF ThreadInv, TypeOK
  <2>3. \A x \in Workers : MainApart(x)
    BY <2>1, ThreadTypes DEF MainApart
  <2>4. \A b \in Runs : b # c => pc'[b] = pc[b]
    BY <2>1, ThreadTypes
  <2> QED
    BY <2>1, <2>2, <2>3, <2>4, QueueApart
<1>24. ASSUME NEW w \in Workers, ForcedDrop(w) PROVE QueueInv'
  <2>1. PICK c \in Runs : cur[w] = c /\ \A b \in Runs : b # c => pc'[b] = pc[b]
    BY <1>24 DEF ForcedDrop, Current, Goto, Settle, TypeOK
  <2>2. \A x \in Workers : \A i \in 1..Len(shipq[x]) : shipq[x][i] \in Runs /\ shipq[x][i] # c
    BY <2>1, CurrentOwn
  <2>3. \A x \in Workers : MainApart(x)
    <3>1. main[w] \in {"drive", "submit", "drain"}
      BY <2>1, CurrentAt
    <3>2. main' = [main EXCEPT ![w] = "drain"]
      BY <1>24 DEF ForcedDrop
    <3> QED
      BY <3>1, <3>2, ThreadTypes DEF MainApart
  <2>4. shipq' = shipq
    BY <1>24 DEF ForcedDrop, TypeOK
  <2> QED
    BY <2>1, <2>2, <2>3, <2>4, QueueApart
<1>25. ASSUME NEW w \in Workers, ForcedCut(w) PROVE QueueInv'
  <2>1. PICK c \in Runs :
            /\ Shipping(w, c)
            /\ \A b \in Runs : b # c => pc'[b] = pc[b]
            /\ shipq' = [shipq EXCEPT ![w] = Tail(@)]
            /\ main' = [main EXCEPT ![w] = "drain"]
    BY <1>25 DEF ForcedCut, Tidy, Goto, TypeOK
  <2>2. /\ Len(shipq[w]) \in Nat \ {0} /\ by[c] = w
        /\ \A x \in Workers : \A i \in 1..Len(shipq[x]) :
              shipq[x][i] \in Runs /\ (shipq[x][i] = c => x = w /\ i = 1)
    BY <2>1, HeadOwn
  <2>3. /\ Len(shipq'[w]) = Len(shipq[w]) - 1
        /\ \A i \in 1..Len(shipq'[w]) :
              i + 1 \in 2..Len(shipq[w]) /\ shipq'[w][i] = shipq[w][i + 1]
        /\ \A x \in Workers \ {w} : shipq'[x] = shipq[x]
    BY <2>1, <2>2, Popped
  <2>4. ASSUME NEW i \in 1..Len(shipq'[w]), NEW j \in 1..Len(shipq'[w])
        PROVE  /\ pc'[shipq'[w][i]] = "upload"
               /\ shipq'[w][i] = shipq'[w][j] => i = j
    BY <2>1, <2>2, <2>3 DEF TypeOK, InOrder, QueueInv
  <2>5. InOrder(w)'
    BY <2>4 DEF InOrder, TypeOK
  <2>6. InSlots(w)'
    BY <1>25, <2>1, <2>2, <2>3 DEF ForcedCut, TypeOK, InSlots, QueueInv
  <2> QED
    BY <2>1, <2>2, <2>3, <2>5, <2>6, QueueMoved
<1>26. ASSUME NEW w \in Workers, Crash(w) PROVE QueueInv'
  <2>1. /\ shipq' = [shipq EXCEPT ![w] = << >>]
        /\ main' = [main EXCEPT ![w] = "down"]
        /\ \A c \in Runs : by[c] # w => pc'[c] = pc[c]
    BY <1>26 DEF Crash, TypeOK
  <2>2. shipq'[w] = << >> /\ main'[w] = "down"
    BY <2>1 DEF TypeOK
  <2>3. InOrder(w)' /\ InSlots(w)'
    BY <2>2, ConstantsOK DEF InOrder, InSlots
  <2>4. \A x \in Workers \ {w} : main'[x] = main[x] /\ shipq'[x] = shipq[x]
    BY <2>1 DEF TypeOK
  <2> QED
    BY <2>1, <2>3, <2>4, QueueMoved
<1>27. ASSUME NEW c \in Runs, HandleComplete(c) PROVE QueueInv'
  BY <1>27, ThreadTypes, QueueIdle DEF HandleComplete, MainApart
<1>28. ASSUME NEW c \in Runs, PurgeRaw(c) PROVE QueueInv'
  BY <1>28, ThreadTypes, QueueIdle DEF PurgeRaw, MainApart
<1>29. ASSUME NEW c \in Runs, HandleRelease(c) PROVE QueueInv'
  BY <1>29, ThreadTypes, QueueIdle DEF HandleRelease, MainApart
<1>30. ASSUME NEW c \in Runs, LoseCall(c) PROVE QueueInv'
  BY <1>30, ThreadTypes, QueueIdle DEF LoseCall, MainApart
<1>31. CASE UNCHANGED vars
  BY <1>31, QueueIdle DEF vars, MainApart
<1> QED
  BY <1>1, <1>2, <1>3, <1>4, <1>5, <1>6, <1>7, <1>8, <1>9, <1>10,
     <1>11, <1>12, <1>13, <1>14, <1>15, <1>16, <1>17, <1>18, <1>19, <1>20,
     <1>21, <1>22, <1>23, <1>24, <1>25, <1>26, <1>27, <1>28, <1>29, <1>30,
     <1>31
     DEF Next, MainThread, ShipThread, Handler, Environment

\* A step that changes no thread's hands and revives no run keeps HeldInv.
LEMMA HeldKept ==
  ASSUME HeldInv, UNCHANGED <<by, cur, shipq>>, \A c \in Runs : Live(c)' => Live(c)
  PROVE  HeldInv'
BY DEF HeldInv

\* Every step leaves a run that is not over in some thread's hands.
LEMMA HeldStep ==
  ASSUME TypeOK, TypeOK', RunInv, ThreadInv, QueueInv, MainInv, HeldInv, [Next]_vars
  PROVE  HeldInv'
<1>. USE ConstantsOK DEF backend, storage, job, work, local
<1>1. ASSUME NEW d \in Drives, ClaimExpires(d) PROVE HeldInv'
  BY <1>1, HeldKept DEF ClaimExpires, Live
<1>2. ASSUME NEW w \in Workers, NEW level \in {"graceful", "now"}, RequestStop(w, level)
      PROVE  HeldInv'
  BY <1>2, HeldKept DEF RequestStop, Live
<1>3. ASSUME NEW w \in Workers, Poll(w) PROVE HeldInv'
  BY <1>3, HeldKept DEF Poll, Live
<1>4. ASSUME NEW w \in Workers, Claim(w) PROVE HeldInv'
  <2>1. PICK c \in Runs :
            /\ pc[c] = "unused" /\ by' = [by EXCEPT ![c] = w]
            /\ pc' = [pc EXCEPT ![c] = "reply"] /\ cur' = [cur EXCEPT ![w] = c]
    BY <1>4 DEF Claim, ClaimOldest, Unused, Goto, TypeOK
  <2>2. cur[w] = NoRun /\ shipq' = shipq
    BY <1>4, ConstantsOK DEF Claim, ClaimOldest, MainInv, MainAt, TypeOK
  <2>3. ASSUME NEW b \in Runs, Live(b)'
        PROVE  \/ cur'[by'[b]] = b
               \/ \E i \in 1..Len(shipq[by'[b]]) : shipq[by'[b]][i] = b
    <3>1. CASE b = c
      BY <2>1, <3>1, ThreadTypes DEF TypeOK
    <3>2. CASE b # c
      <4>1. Live(b) /\ by'[b] = by[b] /\ by[b] \in Workers
        BY <2>1, <2>3, <3>2 DEF TypeOK, RunInv, Live
      <4> QED
        BY <2>1, <2>2, <4>1, ThreadTypes, ConstantsOK DEF HeldInv
    <3> QED
      BY <3>1, <3>2
  <2> QED
    BY <2>2, <2>3 DEF HeldInv
<1>5. ASSUME NEW w \in Workers, NoJobs(w) PROVE HeldInv'
  BY <1>5, HeldKept DEF NoJobs, Live
<1>6. ASSUME NEW w \in Workers, Start(w) PROVE HeldInv'
  BY <1>6 DEF Start, Current, Goto,
         TypeOK, RunInv, ThreadInv, HeldInv, Live
<1>7. ASSUME NEW w \in Workers, Download(w) PROVE HeldInv'
  <2>1. UNCHANGED <<by, cur, shipq>> /\ \E c \in Runs : pc[c] = "download" /\ Goto(c, "pipeline")
    BY <1>7 DEF Download, TypeOK
  <2> QED
    BY <2>1, HeldKept DEF Goto, TypeOK, Live
<1>8. ASSUME NEW w \in Workers, Pipeline(w) PROVE HeldInv'
  BY <1>8 DEF Pipeline, Current, Goto,
         TypeOK, RunInv, ThreadInv, HeldInv, Live
<1>9. ASSUME NEW w \in Workers, ProcessFails(w) PROVE HeldInv'
  <2>1. /\ UNCHANGED <<by, cur, shipq>>
        /\ \E c \in Runs : pc[c] \in {"download", "pipeline"} /\ Settle(c, "failed")
    BY <1>9 DEF ProcessFails
  <2> QED
    BY <2>1, HeldKept DEF Settle, Goto, TypeOK, Live
<1>10. ASSUME NEW w \in Workers, StopNow(w) PROVE HeldInv'
  BY <1>10 DEF StopNow, Current, Goto,
         TypeOK, RunInv, ThreadInv, HeldInv, Live
<1>11. ASSUME NEW w \in Workers, Release(w) PROVE HeldInv'
  BY <1>11 DEF Release, Current, Goto,
         TypeOK, RunInv, ThreadInv, HeldInv, Live
<1>12. ASSUME NEW w \in Workers, Submit(w) PROVE HeldInv'
  <2>1. PICK c \in Runs :
            /\ cur[w] = c /\ pc[c] = "submit" /\ pc' = [pc EXCEPT ![c] = "upload"]
            /\ shipq' = [shipq EXCEPT ![w] = Append(@, c)]
            /\ cur' = [cur EXCEPT ![w] = NoRun]
    BY <1>12 DEF Submit, Current, Goto, TypeOK
  <2>2. by' = by /\ by[c] = w /\ Len(shipq[w]) \in Nat
    BY <1>12, <2>1, CurrentOwn DEF Submit
  <2>3. /\ Len(shipq'[w]) = Len(shipq[w]) + 1
        /\ \A i \in 1..Len(shipq[w]) : shipq'[w][i] = shipq[w][i]
        /\ shipq'[w][Len(shipq[w]) + 1] = c
        /\ \A x \in Workers \ {w} : shipq'[x] = shipq[x]
    BY <2>1 DEF TypeOK
  <2>4. ASSUME NEW b \in Runs \ {c}, Live(b)'
        PROVE  \/ cur'[by[b]] = b
               \/ \E i \in 1..Len(shipq'[by[b]]) : shipq'[by[b]][i] = b
    <3>1. Live(b) /\ by[b] \in Workers
      BY <2>1, <2>4 DEF TypeOK, Live, RunInv
    <3>2. CASE cur[by[b]] = b
      BY <2>1, <2>2, <3>1, <3>2 DEF TypeOK
    <3>3. ASSUME NEW i \in 1..Len(shipq[by[b]]), shipq[by[b]][i] = b
          PROVE  i \in 1..Len(shipq'[by[b]]) /\ shipq'[by[b]][i] = b
      <4>1. CASE by[b] = w
        BY <2>2, <2>3, <3>3, <4>1 DEF TypeOK
      <4>2. CASE by[b] # w
        BY <2>3, <3>1, <3>3, <4>2 DEF TypeOK
      <4> QED
        BY <4>1, <4>2 DEF TypeOK
    <3> QED
      BY <3>1, <3>2, <3>3 DEF HeldInv
  <2>5. Len(shipq[w]) + 1 \in 1..Len(shipq'[w])
    BY <2>2, <2>3 DEF TypeOK
  <2>6. \E i \in 1..Len(shipq'[by[c]]) : shipq'[by[c]][i] = c
    BY <2>2, <2>3, <2>5 DEF TypeOK
  <2> QED
    BY <2>2, <2>4, <2>6 DEF HeldInv
<1>13. ASSUME NEW w \in Workers, MainComplete(w) PROVE HeldInv'
  BY <1>13 DEF MainComplete, Current, Complete, Goto,
         TypeOK, RunInv, ThreadInv, HeldInv, Live
<1>14. ASSUME NEW w \in Workers, MainTidy(w) PROVE HeldInv'
  BY <1>14 DEF MainTidy, Current, Tidy, Goto,
         TypeOK, RunInv, ThreadInv, HeldInv, Live
<1>15. ASSUME NEW w \in Workers, LeaveLoop(w) PROVE HeldInv'
  BY <1>15, HeldKept DEF LeaveLoop, Live
<1>16. ASSUME NEW w \in Workers, Drained(w) PROVE HeldInv'
  BY <1>16, HeldKept DEF Drained, Live
<1>17. ASSUME NEW w \in Workers, UploadClip(w) PROVE HeldInv'
  <2>1. /\ UNCHANGED <<by, cur, shipq>>
        /\ \E c \in Runs : pc[c] \in {"upload"} /\ (pc' = pc \/ Goto(c, "post"))
    BY <1>17 DEF UploadClip
  <2> QED
    BY <2>1, HeldKept DEF Settle, Goto, TypeOK, Live
<1>18. ASSUME NEW w \in Workers, PostViolation(w) PROVE HeldInv'
  BY <1>18 DEF PostViolation, Shipping, Settle, Goto,
         TypeOK, RunInv, ThreadInv, HeldInv, Live
<1>19. ASSUME NEW w \in Workers, ShipNothing(w) PROVE HeldInv'
  BY <1>19 DEF ShipNothing, Shipping, Settle, Goto,
         TypeOK, RunInv, ThreadInv, HeldInv, Live
<1>20. ASSUME NEW w \in Workers, ShipFails(w) PROVE HeldInv'
  BY <1>20 DEF ShipFails, Shipping, Settle, Goto,
         TypeOK, RunInv, ThreadInv, HeldInv, Live
<1>21. ASSUME NEW w \in Workers, ShipComplete(w) PROVE HeldInv'
  <2>1. /\ UNCHANGED <<by, cur, shipq>>
        /\ \E c \in Runs : pc[c] \in {"report"} /\ Goto(c, "tidy")
    BY <1>21 DEF ShipComplete, Complete
  <2> QED
    BY <2>1, HeldKept DEF Settle, Goto, TypeOK, Live
<1>22. ASSUME NEW w \in Workers, ShipTidy(w) PROVE HeldInv'
  <2>1. PICK c \in Runs :
            /\ Shipping(w, c) /\ pc' = [pc EXCEPT ![c] = "over"]
            /\ shipq' = [shipq EXCEPT ![w] = Tail(@)]
    BY <1>22 DEF ShipTidy, Tidy, Goto, TypeOK
  <2>2. by' = by /\ cur' = cur
    BY <1>22 DEF ShipTidy, Tidy, TypeOK
  <2>3. Len(shipq[w]) \in Nat \ {0} /\ shipq[w][1] = c
    BY <2>1, HeadOwn
  <2>4. ASSUME NEW b \in Runs, Live(b)'
        PROVE  \/ cur[by[b]] = b
               \/ \E i \in 1..Len(shipq'[by[b]]) : shipq'[by[b]][i] = b
    <3>1. Live(b) /\ by[b] \in Workers /\ b # c
      BY <2>1, <2>4 DEF TypeOK, Live, RunInv
    <3>2. ASSUME NEW i \in 1..Len(shipq[by[b]]), shipq[by[b]][i] = b
          PROVE  \E j \in 1..Len(shipq'[by[b]]) : shipq'[by[b]][j] = b
      <4>1. CASE by[b] = w
        <5>1. i - 1 \in 1..Len(Tail(shipq[w])) /\ Tail(shipq[w])[i - 1] = b
          BY <2>3, <3>1, <3>2, <4>1 DEF TypeOK
        <5> QED
          BY <2>1, <4>1, <5>1 DEF TypeOK
      <4>2. CASE by[b] # w
        BY <2>1, <3>1, <3>2, <4>2 DEF TypeOK
      <4> QED
        BY <4>1, <4>2 DEF TypeOK
    <3> QED
      BY <3>1, <3>2 DEF HeldInv
  <2> QED
    BY <2>2, <2>4 DEF HeldInv
<1>23. ASSUME NEW w \in Workers, ClaimReplyLost(w) PROVE HeldInv'
  BY <1>23 DEF ClaimReplyLost, ClaimOldest, Unused, Queued, Goto,
         TypeOK, RunInv, ThreadInv, HeldInv, Live
<1>24. ASSUME NEW w \in Workers, ForcedDrop(w) PROVE HeldInv'
  BY <1>24 DEF ForcedDrop, Current, Goto,
         TypeOK, RunInv, ThreadInv, HeldInv, Live
<1>25. ASSUME NEW w \in Workers, ForcedCut(w) PROVE HeldInv'
  <2>1. PICK c \in Runs :
            /\ Shipping(w, c) /\ pc' = [pc EXCEPT ![c] = "dead"]
            /\ shipq' = [shipq EXCEPT ![w] = Tail(@)]
    BY <1>25 DEF ForcedCut, Tidy, Goto, TypeOK
  <2>2. by' = by /\ cur' = cur
    BY <1>25 DEF ForcedCut, Tidy, TypeOK
  <2>3. Len(shipq[w]) \in Nat \ {0} /\ shipq[w][1] = c
    BY <2>1, HeadOwn
  <2>4. ASSUME NEW b \in Runs, Live(b)'
        PROVE  \/ cur[by[b]] = b
               \/ \E i \in 1..Len(shipq'[by[b]]) : shipq'[by[b]][i] = b
    <3>1. Live(b) /\ by[b] \in Workers /\ b # c
      BY <2>1, <2>4 DEF TypeOK, Live, RunInv
    <3>2. ASSUME NEW i \in 1..Len(shipq[by[b]]), shipq[by[b]][i] = b
          PROVE  \E j \in 1..Len(shipq'[by[b]]) : shipq'[by[b]][j] = b
      <4>1. CASE by[b] = w
        <5>1. i - 1 \in 1..Len(Tail(shipq[w])) /\ Tail(shipq[w])[i - 1] = b
          BY <2>3, <3>1, <3>2, <4>1 DEF TypeOK
        <5> QED
          BY <2>1, <4>1, <5>1 DEF TypeOK
      <4>2. CASE by[b] # w
        BY <2>1, <3>1, <3>2, <4>2 DEF TypeOK
      <4> QED
        BY <4>1, <4>2 DEF TypeOK
    <3> QED
      BY <3>1, <3>2 DEF HeldInv
  <2> QED
    BY <2>2, <2>4 DEF HeldInv
<1>26. ASSUME NEW w \in Workers, Crash(w) PROVE HeldInv'
  BY <1>26 DEF Crash, Live,
         TypeOK, RunInv, ThreadInv, HeldInv, Live
<1>27. ASSUME NEW c \in Runs, HandleComplete(c) PROVE HeldInv'
  BY <1>27, HeldKept DEF HandleComplete, Live
<1>28. ASSUME NEW c \in Runs, PurgeRaw(c) PROVE HeldInv'
  BY <1>28, HeldKept DEF PurgeRaw, Live
<1>29. ASSUME NEW c \in Runs, HandleRelease(c) PROVE HeldInv'
  BY <1>29, HeldKept DEF HandleRelease, Live
<1>30. ASSUME NEW c \in Runs, LoseCall(c) PROVE HeldInv'
  BY <1>30, HeldKept DEF LoseCall, Live
<1>31. CASE UNCHANGED vars
  BY <1>31, HeldKept DEF vars, Live
<1> QED
  BY <1>1, <1>2, <1>3, <1>4, <1>5, <1>6, <1>7, <1>8, <1>9, <1>10,
     <1>11, <1>12, <1>13, <1>14, <1>15, <1>16, <1>17, <1>18, <1>19, <1>20,
     <1>21, <1>22, <1>23, <1>24, <1>25, <1>26, <1>27, <1>28, <1>29, <1>30,
     <1>31
     DEF Next, MainThread, ShipThread, Handler, Environment

\* At first the threads have nothing in hand.
LEMMA PlaceInit == Init => PlaceInv
BY ConstantsOK DEF Init, PlaceInv, MainInv, MainAt, QueueInv, InOrder, InSlots, HeldInv, Live

\* Every step keeps each run in its place.
LEMMA PlaceStep == BasicInv /\ BasicInv' /\ PlaceInv /\ [Next]_vars => PlaceInv'
<1> SUFFICES ASSUME BasicInv, BasicInv', PlaceInv, [Next]_vars PROVE PlaceInv'
  OBVIOUS
<1>. USE DEF BasicInv, PlaceInv
<1>1. MainInv'
  BY MainStep
<1>2. QueueInv'
  BY QueueStep
<1>3. HeldInv'
  BY HeldStep
<1> QED
  BY <1>1, <1>2, <1>3

\* Each worker's threads are where their runs are, whatever happens.
THEOREM PlaceCorrect == Spec => [](BasicInv /\ PlaceInv)
BY PlaceInit, PlaceStep, BasicCorrect, PTL DEF Spec

\* A worker that is down has nothing in hand ...
LEMMA DownHoldsNothing ==
  ASSUME BasicInv, PlaceInv, NEW w \in Workers, main[w] = "down",
         NEW c \in Runs, by[c] = w
  PROVE  ~Live(c)
<1>. USE DEF BasicInv, PlaceInv
<1>1. Len(shipq[w]) = 0
  BY DEF QueueInv, InSlots
<1>2. cur[w] # c
  BY CurrentAt
<1> QED
  BY <1>1, <1>2 DEF HeldInv

\* ... so an orderly exit leaves no run half-way.
THEOREM ExitIsOrderly == Spec => []ExitLeavesNothing
<1>1. BasicInv /\ PlaceInv => ExitLeavesNothing
  BY DownHoldsNothing DEF ExitLeavesNothing
<1> QED
  BY <1>1, PlaceCorrect, PTL

\* The members of a sequence are no more than its length.
LEMMA MembersBound ==
  ASSUME NEW S, NEW q \in Seq(S)
  PROVE  /\ IsFiniteSet({q[i] : i \in 1..Len(q)})
         /\ Cardinality({q[i] : i \in 1..Len(q)}) <= Len(q)
<1> DEFINE M == {q[i] : i \in 1..Len(q)}
           f == [i \in 1..Len(q) |-> q[i]]
<1>1. Len(q) \in Nat
  OBVIOUS
<1>2. f \in Surjection(1..Len(q), M)
  BY DEF Surjection
<1>3. IsFiniteSet(1..Len(q)) /\ Cardinality(1..Len(q)) = Len(q)
  <2>1. IsFiniteSet(1..Len(q))
    BY <1>1, FS_Interval
  <2>2. Cardinality(1..Len(q)) = IF 1 > Len(q) THEN 0 ELSE Len(q) - 1 + 1
    BY <1>1, FS_Interval
  <2> QED
    BY <1>1, <2>1, <2>2
<1> QED
  BY <1>2, <1>3, FS_Surjection

\* The runs a worker has in hand are those in its queue and the one it works on.
LEMMA HandsBound ==
  ASSUME BasicInv, PlaceInv, NEW w \in Workers, main[w] # "down"
  PROVE  Cardinality({c \in Runs : by[c] = w /\ Live(c)})
           <= IF w \in ShipAsync THEN Slots + 1 ELSE 1
<1>. USE DEF BasicInv, PlaceInv
<1> DEFINE mine == {c \in Runs : by[c] = w /\ Live(c)}
           queued == {shipq[w][i] : i \in 1..Len(shipq[w])}
<1>1. shipq[w] \in Seq(Runs)
  BY ThreadTypes
<1>2. Len(shipq[w]) \in Nat /\ IsFiniteSet(queued) /\ Cardinality(queued) <= Len(shipq[w])
  <2>1. Len(shipq[w]) \in Nat
    BY <1>1
  <2>2. IsFiniteSet(queued) /\ Cardinality(queued) <= Len(shipq[w])
    BY <1>1, MembersBound, Zenon
  <2> QED
    BY <2>1, <2>2
<1>3. Cardinality(queued) \in Nat
  BY <1>2, FS_CardinalityType
<1>4. mine \subseteq queued \cup {cur[w]}
  BY DEF HeldInv
<1> HIDE DEF queued, mine
<1>5. /\ IsFiniteSet(queued \cup {cur[w]})
      /\ Cardinality(queued \cup {cur[w]}) <= Cardinality(queued) + 1
  <2>1. IsFiniteSet(queued \cup {cur[w]})
    BY <1>2, FS_AddElement
  <2>2. Cardinality(queued \cup {cur[w]})
          = IF cur[w] \in queued THEN Cardinality(queued) ELSE Cardinality(queued) + 1
    BY <1>2, FS_AddElement
  <2> QED
    BY <1>3, <2>1, <2>2
<1>6. Cardinality(mine) <= Cardinality(queued \cup {cur[w]}) /\ IsFiniteSet(mine)
  BY <1>4, <1>5, FS_Subset
<1>7. Cardinality(mine) \in Nat /\ Cardinality(queued \cup {cur[w]}) \in Nat
  BY <1>5, <1>6, FS_CardinalityType
<1>8. CASE w \in ShipAsync
  <2>1. Len(shipq[w]) <= Slots /\ Slots \in Nat
    BY ConstantsOK DEF QueueInv, InSlots
  <2> QED
    BY <1>2, <1>3, <1>5, <1>6, <1>7, <1>8, <2>1 DEF mine
<1>9. CASE w \notin ShipAsync /\ cur[w] \in Runs
  <2>1. Len(shipq[w]) = 0
    BY <1>9, CurrentAt DEF QueueInv, InSlots
  <2> QED
    BY <1>2, <1>3, <1>5, <1>6, <1>7, <1>9, <2>1 DEF mine
<1>10. CASE w \notin ShipAsync /\ cur[w] \notin Runs
  <2>1. mine \subseteq queued
    BY <1>4, <1>10 DEF mine
  <2>2. Cardinality(mine) <= Cardinality(queued)
    BY <1>2, <2>1, FS_Subset
  <2>3. Len(shipq[w]) <= 1
    BY <1>10 DEF QueueInv, InSlots
  <2> QED
    BY <1>2, <1>3, <1>7, <1>10, <2>2, <2>3 DEF mine
<1> QED
  BY <1>8, <1>9, <1>10 DEF mine

\* A worker never has more drives in hand than its slots and the one it works
\* on; without a ship thread, one.
THEOREM BacklogIsBounded == Spec => []BacklogBounded
<1>1. BasicInv /\ PlaceInv => BacklogBounded
  BY HandsBound DEF BacklogBounded
<1> QED
  BY <1>1, PlaceCorrect, PTL

-----------------------------------------------------------------------------
(* What a run has shipped *)

\* What a step that ships nothing does with a run.
ShipsNothing(c) ==
    /\ UNCHANGED <<of[c], found[c], todo[c], refused[c]>>
    /\ pc'[c] = pc[c] \/ pc'[c] \notin {"submit", "upload", "post"}
    /\ outcome'[c] = "processed" => outcome[c] = "processed"
    /\ outcome[c] = "processed" => outcome'[c] = "processed"
    /\ Call("processed", c) \in calls' => Call("processed", c) \in calls \/ outcome[c] = "processed"

\* It leaves what was shipped as it is.
LEMMA ShippedKept ==
  ASSUME NEW c \in Runs, ShippedAt(c), clips \subseteq clips', docs \subseteq docs', ShipsNothing(c)
  PROVE  ShippedAt(c)'
BY DEF ShippedAt, ShipsNothing, Call

\* What PostViolation does with one violation of a run.
PostsOne(c, v) ==
    /\ todo' = [todo EXCEPT ![c] = @ \ {v}]
    /\ docs \subseteq docs' /\ docs' \subseteq docs \cup {<<of[c], v, c>>}
    /\ refused[c] \subseteq refused'[c]
    /\ \A b \in Runs \ {c} : refused'[b] = refused[b]
    /\ \/ /\ v \in refused'[c] \/ <<of[c], v, c>> \in docs'
          /\ \/ todo[c] = {v} /\ Settle(c, "processed")
             \/ UNCHANGED <<pc, outcome>>
       \/ Settle(c, "failed")

\* One violation at a time.
LEMMA PostsOneAtATime ==
  ASSUME TypeOK, NEW w \in Workers, PostViolation(w)
  PROVE  \E c \in Runs : /\ Shipping(w, c) /\ pc[c] = "post"
                         /\ \E v \in todo[c] : PostsOne(c, v)
<1>1. PICK c \in Runs : /\ Shipping(w, c) /\ pc[c] = "post"
         /\ \E v \in todo[c] :
         /\ todo' = [todo EXCEPT ![c] = @ \ {v}]
         /\ \/ /\ docs' = docs \cup {<<of[c], v, c>>}
               /\ IF LastOf(c, v) THEN Settle(c, "processed") ELSE UNCHANGED <<pc, outcome>>
               /\ UNCHANGED <<refused, faults>>
            \/ /\ Fault
               /\ refused' = [refused EXCEPT ![c] = @ \cup {v}]
               /\ IF LastOf(c, v) THEN Settle(c, "processed") ELSE UNCHANGED <<pc, outcome>>
               /\ UNCHANGED docs
            \/ /\ Fault
               /\ Settle(c, "failed")
               /\ docs' \in {docs, docs \cup {<<of[c], v, c>>}}
               /\ UNCHANGED refused
  BY DEF PostViolation
<1>2. PICK v \in todo[c] :
         /\ todo' = [todo EXCEPT ![c] = @ \ {v}]
         /\ \/ /\ docs' = docs \cup {<<of[c], v, c>>}
               /\ (todo[c] = {v} /\ Settle(c, "processed")) \/ UNCHANGED <<pc, outcome>>
               /\ refused' = refused
            \/ /\ refused' = [refused EXCEPT ![c] = @ \cup {v}]
               /\ (todo[c] = {v} /\ Settle(c, "processed")) \/ UNCHANGED <<pc, outcome>>
               /\ docs' = docs
            \/ /\ Settle(c, "failed")
               /\ docs' \in {docs, docs \cup {<<of[c], v, c>>}}
               /\ refused' = refused
  BY <1>1 DEF LastOf
<1>3. refused[c] \subseteq refused'[c] /\ \A b \in Runs \ {c} : refused'[b] = refused[b]
  BY <1>2 DEF TypeOK
<1>4. PostsOne(c, v)
  BY <1>2, <1>3 DEF PostsOne, TypeOK
<1> QED
  BY <1>1, <1>4

\* Every step keeps what the evidence of a run rests on.
LEMMA ShippedStep ==
  ASSUME TypeOK, TypeOK', CallUsed, OutcomeInv, ShippedInv, [Next]_vars
  PROVE  ShippedInv'
<1>. USE DEF Call, backend, storage, job, work, local
<1>1. ASSUME NEW d \in Drives, ClaimExpires(d) PROVE ShippedInv'
  <2>1. \A c \in Runs : ShipsNothing(c)
    BY <1>1 DEF ClaimExpires, ShipsNothing, TypeOK
  <2>2. clips' = clips /\ docs' = docs
    BY <1>1 DEF ClaimExpires, TypeOK
  <2> QED
    BY <2>1, <2>2, ShippedKept DEF ShippedInv
<1>2. ASSUME NEW w \in Workers, NEW level \in {"graceful", "now"}, RequestStop(w, level)
      PROVE  ShippedInv'
  <2>1. \A c \in Runs : ShipsNothing(c)
    BY <1>2 DEF RequestStop, ShipsNothing, TypeOK
  <2>2. clips' = clips /\ docs' = docs
    BY <1>2 DEF RequestStop, TypeOK
  <2> QED
    BY <2>1, <2>2, ShippedKept DEF ShippedInv
<1>3. ASSUME NEW w \in Workers, Poll(w) PROVE ShippedInv'
  <2>1. \A c \in Runs : ShipsNothing(c)
    BY <1>3 DEF Poll, Requeue, Stuck, ShipsNothing, TypeOK
  <2>2. clips' = clips /\ docs' = docs
    BY <1>3 DEF Poll, TypeOK
  <2> QED
    BY <2>1, <2>2, ShippedKept DEF ShippedInv
<1>4. ASSUME NEW w \in Workers, Claim(w) PROVE ShippedInv'
  <2>0. PICK c \in Runs : ClaimOldest(w, c, "reply") \/ ClaimOldest(w, c, "lost")
    BY <1>4 DEF Claim
  <2>1. /\ pc[c] = "unused" /\ \E p \in {"reply", "lost"} : pc' = [pc EXCEPT ![c] = p]
        /\ \E d \in Drives : of' = [of EXCEPT ![c] = d]
    BY <2>0 DEF ClaimOldest, Queued, Unused, Goto
  <2>2. UNCHANGED <<clips, docs, found, todo, refused, outcome, calls>>
    BY <1>4 DEF Claim, ClaimOldest, TypeOK
  <2>3. \A b \in Runs \ {c} : ShipsNothing(b)
    BY <2>1, <2>2 DEF ShipsNothing, TypeOK
  <2>4. ShippedAt(c)'
    BY <2>1, <2>2 DEF ShippedInv, ShippedAt, OutcomeInv, CallUsed, TypeOK
  <2> QED
    BY <2>2, <2>3, <2>4, ShippedKept DEF ShippedInv
<1>5. ASSUME NEW w \in Workers, NoJobs(w) PROVE ShippedInv'
  <2>1. \A c \in Runs : ShipsNothing(c)
    BY <1>5 DEF NoJobs, ShipsNothing, TypeOK
  <2>2. clips' = clips /\ docs' = docs
    BY <1>5 DEF NoJobs, TypeOK
  <2> QED
    BY <2>1, <2>2, ShippedKept DEF ShippedInv
<1>6. ASSUME NEW w \in Workers, Start(w) PROVE ShippedInv'
  <2>1. \A c \in Runs : ShipsNothing(c)
    BY <1>6 DEF Start, Current, Goto, ShipsNothing, TypeOK
  <2>2. clips' = clips /\ docs' = docs
    BY <1>6 DEF Start, TypeOK
  <2> QED
    BY <2>1, <2>2, ShippedKept DEF ShippedInv
<1>7. ASSUME NEW w \in Workers, Download(w) PROVE ShippedInv'
  <2>1. \A c \in Runs : ShipsNothing(c)
    BY <1>7 DEF Download, Current, Goto, ShipsNothing, TypeOK
  <2>2. clips' = clips /\ docs' = docs
    BY <1>7 DEF Download, TypeOK
  <2> QED
    BY <2>1, <2>2, ShippedKept DEF ShippedInv
<1>8. ASSUME NEW w \in Workers, Pipeline(w) PROVE ShippedInv'
  <2>1. PICK c \in Runs, manifest \in SUBSET Viols :
            /\ pc[c] = "pipeline" /\ pc' = [pc EXCEPT ![c] = "submit"]
            /\ found' = [found EXCEPT ![c] = manifest]
            /\ todo' = [todo EXCEPT ![c] = manifest]
    BY <1>8 DEF Pipeline, Goto
  <2>2. UNCHANGED <<clips, docs, of, refused, outcome, calls>>
    BY <1>8 DEF Pipeline, TypeOK
  <2>3. \A b \in Runs \ {c} : ShipsNothing(b)
    BY <2>1, <2>2 DEF ShipsNothing, TypeOK
  <2>4. ShippedAt(c)'
    BY <2>1, <2>2 DEF ShippedInv, ShippedAt, OutcomeInv, CallUsed, TypeOK
  <2> QED
    BY <2>2, <2>3, <2>4, ShippedKept DEF ShippedInv
<1>9. ASSUME NEW w \in Workers, ProcessFails(w) PROVE ShippedInv'
  <2>1. \A c \in Runs : ShipsNothing(c)
    BY <1>9 DEF ProcessFails, Current, Settle, Goto, OutcomeInv, ShipsNothing, TypeOK
  <2>2. clips' = clips /\ docs' = docs
    BY <1>9 DEF ProcessFails, TypeOK
  <2> QED
    BY <2>1, <2>2, ShippedKept DEF ShippedInv
<1>10. ASSUME NEW w \in Workers, StopNow(w) PROVE ShippedInv'
  <2>1. \A c \in Runs : ShipsNothing(c)
    BY <1>10 DEF StopNow, Current, Goto, ShipsNothing, TypeOK
  <2>2. clips' = clips /\ docs' = docs
    BY <1>10 DEF StopNow, TypeOK
  <2> QED
    BY <2>1, <2>2, ShippedKept DEF ShippedInv
<1>11. ASSUME NEW w \in Workers, Release(w) PROVE ShippedInv'
  <2>1. \A c \in Runs : ShipsNothing(c)
    BY <1>11 DEF Release, Current, Goto, ShipsNothing, TypeOK
  <2>2. clips' = clips /\ docs' = docs
    BY <1>11 DEF Release, TypeOK
  <2> QED
    BY <2>1, <2>2, ShippedKept DEF ShippedInv
<1>12. ASSUME NEW w \in Workers, Submit(w) PROVE ShippedInv'
  <2>1. PICK c \in Runs : pc[c] = "submit" /\ pc' = [pc EXCEPT ![c] = "upload"]
    BY <1>12 DEF Submit, Goto
  <2>2. UNCHANGED <<clips, docs, of, found, todo, refused, outcome, calls>>
    BY <1>12 DEF Submit, TypeOK
  <2>3. \A b \in Runs \ {c} : ShipsNothing(b)
    BY <2>1, <2>2 DEF ShipsNothing, TypeOK
  <2>4. ShippedAt(c)'
    BY <2>1, <2>2 DEF ShippedInv, ShippedAt, OutcomeInv, CallUsed, TypeOK
  <2> QED
    BY <2>2, <2>3, <2>4, ShippedKept DEF ShippedInv
<1>13. ASSUME NEW w \in Workers, MainComplete(w) PROVE ShippedInv'
  <2>1. \A c \in Runs : ShipsNothing(c)
    BY <1>13 DEF MainComplete, Current, Complete, Goto, ShipsNothing, TypeOK
  <2>2. clips' = clips /\ docs' = docs
    BY <1>13 DEF MainComplete, Complete, TypeOK
  <2> QED
    BY <2>1, <2>2, ShippedKept DEF ShippedInv
<1>14. ASSUME NEW w \in Workers, MainTidy(w) PROVE ShippedInv'
  <2>1. \A c \in Runs : ShipsNothing(c)
    BY <1>14 DEF MainTidy, Current, Tidy, Goto, ShipsNothing, TypeOK
  <2>2. clips' = clips /\ docs' = docs
    BY <1>14 DEF MainTidy, Tidy, TypeOK
  <2> QED
    BY <2>1, <2>2, ShippedKept DEF ShippedInv
<1>15. ASSUME NEW w \in Workers, LeaveLoop(w) PROVE ShippedInv'
  <2>1. \A c \in Runs : ShipsNothing(c)
    BY <1>15 DEF LeaveLoop, ShipsNothing, TypeOK
  <2>2. clips' = clips /\ docs' = docs
    BY <1>15 DEF LeaveLoop, TypeOK
  <2> QED
    BY <2>1, <2>2, ShippedKept DEF ShippedInv
<1>16. ASSUME NEW w \in Workers, Drained(w) PROVE ShippedInv'
  <2>1. \A c \in Runs : ShipsNothing(c)
    BY <1>16 DEF Drained, NothingInHand, ShipsNothing, TypeOK
  <2>2. clips' = clips /\ docs' = docs
    BY <1>16 DEF Drained, TypeOK
  <2> QED
    BY <2>1, <2>2, ShippedKept DEF ShippedInv
<1>17. ASSUME NEW w \in Workers, UploadClip(w) PROVE ShippedInv'
  <2>1. PICK c \in Runs : pc[c] = "upload" /\ \E v \in todo[c] :
            /\ clips' = clips \cup {<<of[c], v>>}
            /\ IF LastOf(c, v)
               THEN Goto(c, "post") /\ todo' = [todo EXCEPT ![c] = found[c]]
               ELSE todo' = [todo EXCEPT ![c] = @ \ {v}] /\ UNCHANGED pc
    BY <1>17 DEF UploadClip
  <2>2. PICK v \in todo[c] :
            /\ clips' = clips \cup {<<of[c], v>>}
            /\ \/ /\ todo[c] = {v} /\ pc' = [pc EXCEPT ![c] = "post"]
                  /\ todo' = [todo EXCEPT ![c] = found[c]]
               \/ todo' = [todo EXCEPT ![c] = @ \ {v}] /\ pc' = pc
    BY <2>1 DEF LastOf, Goto
  <2>3. UNCHANGED <<docs, of, found, refused, outcome, calls>>
    BY <1>17 DEF UploadClip
  <2>4. \A b \in Runs \ {c} : ShipsNothing(b)
    BY <2>1, <2>2, <2>3 DEF ShipsNothing, TypeOK
  <2>5. ShippedAt(c) /\ outcome[c] = "none"
    BY <2>1 DEF ShippedInv, OutcomeInv, TypeOK
  <2>6. ShippedAt(c)'
    <3>1. CASE /\ todo[c] = {v} /\ pc' = [pc EXCEPT ![c] = "post"]
               /\ todo' = [todo EXCEPT ![c] = found[c]]
      BY <2>1, <2>2, <2>3, <2>5, <3>1 DEF ShippedAt, TypeOK
    <3>2. CASE todo' = [todo EXCEPT ![c] = @ \ {v}] /\ pc' = pc
      BY <2>1, <2>2, <2>3, <2>5, <3>2 DEF ShippedAt, TypeOK
    <3> QED
      BY <2>2, <3>1, <3>2
  <2>7. clips \subseteq clips' /\ docs \subseteq docs'
    BY <2>2, <2>3
  <2> QED
    BY <2>4, <2>6, <2>7, ShippedKept DEF ShippedInv
<1>18. ASSUME NEW w \in Workers, PostViolation(w) PROVE ShippedInv'
  <2>1. PICK c \in Runs : pc[c] = "post" /\ \E v \in todo[c] : PostsOne(c, v)
    BY <1>18, PostsOneAtATime
  <2>2. PICK v \in todo[c] : PostsOne(c, v)
    BY <2>1
  <2>3. UNCHANGED <<clips, of, found, calls>>
    BY <1>18 DEF PostViolation
  <2>4. \A b \in Runs \ {c} : ShipsNothing(b)
    BY <2>1, <2>2, <2>3 DEF PostsOne, ShipsNothing, Settle, Goto, TypeOK
  <2>5. ShippedAt(c) /\ outcome[c] = "none"
    BY <2>1 DEF ShippedInv, OutcomeInv, TypeOK
  <2>6. ShippedAt(c)'
    <3>1. CASE Settle(c, "failed")
      BY <2>1, <2>2, <2>3, <2>5, <3>1 DEF PostsOne, ShippedAt, Settle, Goto, TypeOK
    <3>2. CASE UNCHANGED <<pc, outcome>> /\ (v \in refused'[c] \/ <<of[c], v, c>> \in docs')
      BY <2>1, <2>2, <2>3, <2>5, <3>2 DEF PostsOne, ShippedAt, TypeOK
    <3>3. CASE /\ todo[c] = {v} /\ Settle(c, "processed")
               /\ v \in refused'[c] \/ <<of[c], v, c>> \in docs'
      <4>1. /\ pc'[c] = "report" /\ todo'[c] = {} /\ found'[c] = found[c] /\ of'[c] = of[c]
            /\ \A x \in refused[c] : x \in refused'[c]
        BY <2>2, <2>3, <3>3, ThreadTypes DEF PostsOne, Settle, Goto, TypeOK
      <4>2. \A x \in found[c] : x = v \/ x \in refused[c] \/ <<of[c], x, c>> \in docs
        BY <2>1, <2>5, <3>3 DEF ShippedAt
      <4>3. \A x \in found[c] : x \in refused'[c] \/ <<of[c], x, c>> \in docs'
        BY <2>2, <3>3, <4>1, <4>2 DEF PostsOne
      <4>4. Call("processed", c)' \notin calls'
        BY <2>3, <2>5 DEF ShippedAt
      <4> QED
        BY <4>1, <4>3, <4>4 DEF ShippedAt
    <3> QED
      BY <2>2, <3>1, <3>2, <3>3 DEF PostsOne
  <2>7. docs \subseteq docs'
    BY <2>2 DEF PostsOne
  <2> QED
    BY <2>3, <2>4, <2>6, <2>7, ShippedKept DEF ShippedInv
<1>19. ASSUME NEW w \in Workers, ShipNothing(w) PROVE ShippedInv'
  <2>1. PICK c \in Runs : pc[c] = "upload" /\ found[c] = {} /\ Settle(c, "processed")
    BY <1>19 DEF ShipNothing, NothingFound
  <2>2. UNCHANGED <<clips, docs, of, found, todo, refused, calls>>
    BY <1>19 DEF ShipNothing, TypeOK
  <2>3. \A b \in Runs \ {c} : ShipsNothing(b)
    BY <2>1, <2>2 DEF ShipsNothing, Settle, Goto, TypeOK
  <2>4. ShippedAt(c)'
    <3>1. /\ pc'[c] = "report" /\ found'[c] = {} /\ todo'[c] = todo[c]
          /\ outcome'[c] = "processed"
      BY <2>1, <2>2, ThreadTypes DEF Settle, Goto, TypeOK
    <3>2. todo[c] \subseteq found[c]
      BY DEF ShippedInv, ShippedAt
    <3> QED
      BY <2>1, <3>1, <3>2 DEF ShippedAt
  <2> QED
    BY <2>2, <2>3, <2>4, ShippedKept DEF ShippedInv
<1>20. ASSUME NEW w \in Workers, ShipFails(w) PROVE ShippedInv'
  <2>1. \A c \in Runs : ShipsNothing(c)
    BY <1>20 DEF ShipFails, Shipping, Settle, Goto, OutcomeInv, ShipsNothing, TypeOK
  <2>2. clips' = clips /\ docs' = docs
    BY <1>20 DEF ShipFails, TypeOK
  <2> QED
    BY <2>1, <2>2, ShippedKept DEF ShippedInv
<1>21. ASSUME NEW w \in Workers, ShipComplete(w) PROVE ShippedInv'
  <2>1. \A c \in Runs : ShipsNothing(c)
    BY <1>21 DEF ShipComplete, Shipping, Complete, Goto, ShipsNothing, TypeOK
  <2>2. clips' = clips /\ docs' = docs
    BY <1>21 DEF ShipComplete, Complete, TypeOK
  <2> QED
    BY <2>1, <2>2, ShippedKept DEF ShippedInv
<1>22. ASSUME NEW w \in Workers, ShipTidy(w) PROVE ShippedInv'
  <2>1. \A c \in Runs : ShipsNothing(c)
    BY <1>22 DEF ShipTidy, Shipping, Tidy, Goto, ShipsNothing, TypeOK
  <2>2. clips' = clips /\ docs' = docs
    BY <1>22 DEF ShipTidy, Tidy, TypeOK
  <2> QED
    BY <2>1, <2>2, ShippedKept DEF ShippedInv
<1>23. ASSUME NEW w \in Workers, ClaimReplyLost(w) PROVE ShippedInv'
  <2>0. PICK c \in Runs : ClaimOldest(w, c, "reply") \/ ClaimOldest(w, c, "lost")
    BY <1>23 DEF ClaimReplyLost
  <2>1. /\ pc[c] = "unused" /\ \E p \in {"reply", "lost"} : pc' = [pc EXCEPT ![c] = p]
        /\ \E d \in Drives : of' = [of EXCEPT ![c] = d]
    BY <2>0 DEF ClaimOldest, Queued, Unused, Goto
  <2>2. UNCHANGED <<clips, docs, found, todo, refused, outcome, calls>>
    BY <1>23 DEF ClaimReplyLost, ClaimOldest, TypeOK
  <2>3. \A b \in Runs \ {c} : ShipsNothing(b)
    BY <2>1, <2>2 DEF ShipsNothing, TypeOK
  <2>4. ShippedAt(c)'
    BY <2>1, <2>2 DEF ShippedInv, ShippedAt, OutcomeInv, CallUsed, TypeOK
  <2> QED
    BY <2>2, <2>3, <2>4, ShippedKept DEF ShippedInv
<1>24. ASSUME NEW w \in Workers, ForcedDrop(w) PROVE ShippedInv'
  <2>1. \A c \in Runs : ShipsNothing(c)
    BY <1>24 DEF ForcedDrop, Current, Goto, ShipsNothing, TypeOK
  <2>2. clips' = clips /\ docs' = docs
    BY <1>24 DEF ForcedDrop, TypeOK
  <2> QED
    BY <2>1, <2>2, ShippedKept DEF ShippedInv
<1>25. ASSUME NEW w \in Workers, ForcedCut(w) PROVE ShippedInv'
  <2>1. \A c \in Runs : ShipsNothing(c)
    BY <1>25 DEF ForcedCut, Shipping, Goto, ShipsNothing, TypeOK
  <2>2. clips' = clips /\ docs' = docs
    BY <1>25 DEF ForcedCut, TypeOK
  <2> QED
    BY <2>1, <2>2, ShippedKept DEF ShippedInv
<1>26. ASSUME NEW w \in Workers, Crash(w) PROVE ShippedInv'
  <2>1. \A c \in Runs : ShipsNothing(c)
    BY <1>26 DEF Crash, Live, ShipsNothing, TypeOK
  <2>2. clips' = clips /\ docs' = docs
    BY <1>26 DEF Crash, TypeOK
  <2> QED
    BY <2>1, <2>2, ShippedKept DEF ShippedInv
<1>27. ASSUME NEW c \in Runs, HandleComplete(c) PROVE ShippedInv'
  <2>1. \A b \in Runs : ShipsNothing(b)
    BY <1>27 DEF HandleComplete, ShipsNothing, TypeOK
  <2>2. clips' = clips /\ docs' = docs
    BY <1>27 DEF HandleComplete, TypeOK
  <2> QED
    BY <2>1, <2>2, ShippedKept DEF ShippedInv
<1>28. ASSUME NEW c \in Runs, PurgeRaw(c) PROVE ShippedInv'
  <2>1. \A b \in Runs : ShipsNothing(b)
    BY <1>28 DEF PurgeRaw, ShipsNothing, TypeOK
  <2>2. clips' = clips /\ docs' = docs
    BY <1>28 DEF PurgeRaw, TypeOK
  <2> QED
    BY <2>1, <2>2, ShippedKept DEF ShippedInv
<1>29. ASSUME NEW c \in Runs, HandleRelease(c) PROVE ShippedInv'
  <2>1. \A b \in Runs : ShipsNothing(b)
    BY <1>29 DEF HandleRelease, Requeue, ShipsNothing, TypeOK
  <2>2. clips' = clips /\ docs' = docs
    BY <1>29 DEF HandleRelease, TypeOK
  <2> QED
    BY <2>1, <2>2, ShippedKept DEF ShippedInv
<1>30. ASSUME NEW c \in Runs, LoseCall(c) PROVE ShippedInv'
  <2>1. \A b \in Runs : ShipsNothing(b)
    BY <1>30 DEF LoseCall, ShipsNothing, TypeOK
  <2>2. clips' = clips /\ docs' = docs
    BY <1>30 DEF LoseCall, TypeOK
  <2> QED
    BY <2>1, <2>2, ShippedKept DEF ShippedInv
<1>31. CASE UNCHANGED vars
  BY <1>31 DEF vars, ShippedInv, ShippedAt
<1> QED
  BY <1>1, <1>2, <1>3, <1>4, <1>5, <1>6, <1>7, <1>8, <1>9, <1>10,
     <1>11, <1>12, <1>13, <1>14, <1>15, <1>16, <1>17, <1>18, <1>19, <1>20,
     <1>21, <1>22, <1>23, <1>24, <1>25, <1>26, <1>27, <1>28, <1>29, <1>30,
     <1>31
     DEF Next, MainThread, ShipThread, Handler, Environment

\* A claim takes one queued drive for one unused run.
LEMMA ClaimTakes ==
  ASSUME NEW w \in Workers, Claim(w) \/ ClaimReplyLost(w)
  PROVE  \E c \in Runs, d \in Drives :
            /\ main[w] = "claiming" /\ pc[c] = "unused" /\ status[d] = "queued"
            /\ status' = [status EXCEPT ![d] = "processing"]
            /\ workerId' = [workerId EXCEPT ![d] = w]
            /\ of' = [of EXCEPT ![c] = d] /\ by' = [by EXCEPT ![c] = w]
            /\ pc' \in {[pc EXCEPT ![c] = "reply"], [pc EXCEPT ![c] = "lost"]}
            /\ main' \in {[main EXCEPT ![w] = "drive"], [main EXCEPT ![w] = "poll"]}
            /\ cur' \in {cur, [cur EXCEPT ![w] = c]} /\ lost \subseteq lost'
            /\ UNCHANGED <<outcome, calls, docs>>
<1>1. PICK c \in Runs :
         /\ ClaimOldest(w, c, "reply") \/ ClaimOldest(w, c, "lost")
         /\ main' \in {[main EXCEPT ![w] = "drive"], [main EXCEPT ![w] = "poll"]}
         /\ cur' \in {cur, [cur EXCEPT ![w] = c]} /\ lost \subseteq lost'
  BY DEF Claim, ClaimReplyLost
<1>2. /\ main[w] = "claiming" /\ pc[c] = "unused" /\ by' = [by EXCEPT ![c] = w]
      /\ pc' \in {[pc EXCEPT ![c] = "reply"], [pc EXCEPT ![c] = "lost"]}
      /\ UNCHANGED <<outcome, calls, docs>>
  BY <1>1 DEF ClaimOldest, Unused, Goto, storage
<1>3. PICK d \in Drives :
         /\ status[d] = "queued" /\ status' = [status EXCEPT ![d] = "processing"]
         /\ workerId' = [workerId EXCEPT ![d] = w] /\ of' = [of EXCEPT ![c] = d]
  BY <1>1 DEF ClaimOldest, Queued
<1> QED
  BY <1>1, <1>2, <1>3

\* A step that processes no drive keeps the run each processed drive rests on.
LEMMA ProcessedKept ==
  ASSUME ProcessedInv,
         \A d \in Drives : status'[d] = "processed" => status[d] = "processed",
         \A b \in Runs : outcome[b] = "processed" =>
            outcome'[b] = "processed" /\ of'[b] = of[b]
  PROVE  ProcessedInv'
BY DEF ProcessedInv

\* A drive is only processed on the report of a whole run.
LEMMA ProcessedStep ==
  ASSUME TypeOK, TypeOK', RunInv, CallUsed, OutcomeInv, ShippedInv, ProcessedInv, [Next]_vars
  PROVE  ProcessedInv'
<1>. USE ConstantsOK DEF TypeOK, OutcomeInv, ProcessedInv, backend, storage, job, work, local
<1>1. ASSUME NEW d \in Drives, ClaimExpires(d) PROVE ProcessedInv'
  <2>1. UNCHANGED <<status, of, outcome>>
    BY <1>1 DEF ClaimExpires
  <2> QED
    BY <2>1, ProcessedKept
<1>2. ASSUME NEW w \in Workers, NEW level \in {"graceful", "now"}, RequestStop(w, level)
      PROVE  ProcessedInv'
  BY <1>2 DEF RequestStop
<1>3. ASSUME NEW w \in Workers, Poll(w) PROVE ProcessedInv'
  BY <1>3 DEF Poll, Requeue, Stuck
<1>4. ASSUME NEW w \in Workers, Claim(w) PROVE ProcessedInv'
  <2>1. \E c \in Runs, d \in Drives :
            /\ pc[c] = "unused" /\ of' = [of EXCEPT ![c] = d] /\ outcome' = outcome
            /\ status' = [status EXCEPT ![d] = "processing"]
    <3> HIDE DEF TypeOK, OutcomeInv, ProcessedInv, backend, storage, job, work, local
    <3> QED
      BY <1>4, ClaimTakes
  <2>2. PICK c \in Runs, d \in Drives :
            /\ pc[c] = "unused" /\ of' = [of EXCEPT ![c] = d] /\ outcome' = outcome
            /\ status' = [status EXCEPT ![d] = "processing"]
    BY <2>1
  <2>3. outcome[c] = "none"
    BY <2>2
  <2> QED
    BY <2>2, <2>3, ProcessedKept
<1>5. ASSUME NEW w \in Workers, NoJobs(w) PROVE ProcessedInv'
  BY <1>5 DEF NoJobs
<1>6. ASSUME NEW w \in Workers, Start(w) PROVE ProcessedInv'
  BY <1>6 DEF Start, Current, Goto
<1>7. ASSUME NEW w \in Workers, Download(w) PROVE ProcessedInv'
  BY <1>7 DEF Download, Current, Goto
<1>8. ASSUME NEW w \in Workers, Pipeline(w) PROVE ProcessedInv'
  <2>1. UNCHANGED <<status, of, outcome>>
    BY <1>8 DEF Pipeline
  <2> QED
    BY <2>1, ProcessedKept
<1>9. ASSUME NEW w \in Workers, ProcessFails(w) PROVE ProcessedInv'
  BY <1>9 DEF ProcessFails, Current, Settle, Goto
<1>10. ASSUME NEW w \in Workers, StopNow(w) PROVE ProcessedInv'
  BY <1>10 DEF StopNow, Current, Goto
<1>11. ASSUME NEW w \in Workers, Release(w) PROVE ProcessedInv'
  BY <1>11 DEF Release, Current, Goto
<1>12. ASSUME NEW w \in Workers, Submit(w) PROVE ProcessedInv'
  BY <1>12 DEF Submit, Current, Goto, AfterSubmit, SlotFree
<1>13. ASSUME NEW w \in Workers, MainComplete(w) PROVE ProcessedInv'
  BY <1>13 DEF MainComplete, Current, Complete, Goto
<1>14. ASSUME NEW w \in Workers, MainTidy(w) PROVE ProcessedInv'
  BY <1>14 DEF MainTidy, Current, Tidy, Goto
<1>15. ASSUME NEW w \in Workers, LeaveLoop(w) PROVE ProcessedInv'
  BY <1>15 DEF LeaveLoop
<1>16. ASSUME NEW w \in Workers, Drained(w) PROVE ProcessedInv'
  BY <1>16 DEF Drained, NothingInHand
<1>17. ASSUME NEW w \in Workers, UploadClip(w) PROVE ProcessedInv'
  BY <1>17 DEF UploadClip, Shipping, Goto
<1>18. ASSUME NEW w \in Workers, PostViolation(w) PROVE ProcessedInv'
  BY <1>18 DEF PostViolation, Shipping, Settle, Goto
<1>19. ASSUME NEW w \in Workers, ShipNothing(w) PROVE ProcessedInv'
  BY <1>19 DEF ShipNothing, Shipping, Settle, Goto
<1>20. ASSUME NEW w \in Workers, ShipFails(w) PROVE ProcessedInv'
  BY <1>20 DEF ShipFails, Shipping, Settle, Goto
<1>21. ASSUME NEW w \in Workers, ShipComplete(w) PROVE ProcessedInv'
  BY <1>21 DEF ShipComplete, Shipping, Complete, Goto
<1>22. ASSUME NEW w \in Workers, ShipTidy(w) PROVE ProcessedInv'
  BY <1>22 DEF ShipTidy, Shipping, Tidy, Goto
<1>23. ASSUME NEW w \in Workers, ClaimReplyLost(w) PROVE ProcessedInv'
  <2>1. \E c \in Runs, d \in Drives :
            /\ pc[c] = "unused" /\ of' = [of EXCEPT ![c] = d] /\ outcome' = outcome
            /\ status' = [status EXCEPT ![d] = "processing"]
    <3> HIDE DEF TypeOK, OutcomeInv, ProcessedInv, backend, storage, job, work, local
    <3> QED
      BY <1>23, ClaimTakes
  <2>2. PICK c \in Runs, d \in Drives :
            /\ pc[c] = "unused" /\ of' = [of EXCEPT ![c] = d] /\ outcome' = outcome
            /\ status' = [status EXCEPT ![d] = "processing"]
    BY <2>1
  <2>3. outcome[c] = "none"
    BY <2>2
  <2> QED
    BY <2>2, <2>3, ProcessedKept
<1>24. ASSUME NEW w \in Workers, ForcedDrop(w) PROVE ProcessedInv'
  BY <1>24 DEF ForcedDrop, Current, Goto
<1>25. ASSUME NEW w \in Workers, ForcedCut(w) PROVE ProcessedInv'
  BY <1>25 DEF ForcedCut, Shipping, Goto
<1>26. ASSUME NEW w \in Workers, Crash(w) PROVE ProcessedInv'
  BY <1>26 DEF Crash, Live
<1>27. ASSUME NEW c \in Runs, HandleComplete(c) PROVE ProcessedInv'
  <2>1. PICK result \in {"processed", "failed"} :
            Call(result, c) \in calls /\ status' = [status EXCEPT ![of[c]] = result]
    BY <1>27 DEF HandleComplete
  <2>2. UNCHANGED <<of, outcome>>
    BY <1>27 DEF HandleComplete
  <2>3. result = "processed" => outcome[c] = "processed"
    BY <2>1 DEF ShippedInv, ShippedAt
  <2>4. of[c] \in Drives
    BY <2>1 DEF CallUsed, RunInv, Call
  <2>5. ASSUME NEW d \in Drives, status'[d] = "processed"
        PROVE  \E b \in Runs : of'[b] = d /\ outcome'[b] = "processed"
    <3>1. CASE d = of[c] /\ result = "processed"
      BY <2>2, <2>3, <3>1
    <3>2. CASE status[d] = "processed"
      BY <2>2, <3>2
    <3> QED
      BY <2>1, <2>4, <2>5, <3>1, <3>2
  <2> HIDE DEF TypeOK, OutcomeInv
  <2> QED
    BY <2>5
<1>28. ASSUME NEW c \in Runs, PurgeRaw(c) PROVE ProcessedInv'
  BY <1>28 DEF PurgeRaw
<1>29. ASSUME NEW c \in Runs, HandleRelease(c) PROVE ProcessedInv'
  BY <1>29 DEF HandleRelease, Requeue
<1>30. ASSUME NEW c \in Runs, LoseCall(c) PROVE ProcessedInv'
  <2>1. UNCHANGED <<status, of, outcome>>
    BY <1>30 DEF LoseCall
  <2> QED
    BY <2>1, ProcessedKept
<1>31. CASE UNCHANGED vars
  BY <1>31 DEF vars
<1> QED
  BY <1>1, <1>2, <1>3, <1>4, <1>5, <1>6, <1>7, <1>8, <1>9, <1>10,
     <1>11, <1>12, <1>13, <1>14, <1>15, <1>16, <1>17, <1>18, <1>19, <1>20,
     <1>21, <1>22, <1>23, <1>24, <1>25, <1>26, <1>27, <1>28, <1>29, <1>30,
     <1>31
     DEF Next, MainThread, ShipThread, Handler, Environment

\* A document is only posted by a run that has uploaded all its clips.
LEMMA ClipStep ==
  ASSUME TypeOK, TypeOK', OutcomeInv, ShippedInv, ClipBeforeDoc, [Next]_vars
  PROVE  ClipBeforeDoc'
<1>. USE DEF backend, storage, job, work, local
<1>1. ASSUME NEW w \in Workers, PostViolation(w) PROVE ClipBeforeDoc'
  <2>1. PICK c \in Runs : pc[c] = "post" /\ \E v \in todo[c] : PostsOne(c, v)
    BY <1>1, PostsOneAtATime
  <2>2. PICK v \in todo[c] : docs' \subseteq docs \cup {<<of[c], v, c>>}
    BY <2>1 DEF PostsOne
  <2>3. v \in found[c] /\ <<of[c], v>> \in clips
    BY <2>1, <2>2 DEF ShippedInv, ShippedAt
  <2>4. clips' = clips
    BY <1>1 DEF PostViolation
  <2>5. ASSUME NEW t \in docs' PROVE <<t[1], t[2]>> \in clips
    BY <2>2, <2>3, <2>5 DEF ClipBeforeDoc
  <2> QED
    BY <2>4, <2>5 DEF ClipBeforeDoc
<1>2. docs' = docs /\ clips \subseteq clips' => ClipBeforeDoc'
  BY DEF ClipBeforeDoc
<1>3. CASE \E w \in Workers : MainThread(w)
  BY <1>2, <1>3 DEF MainThread, Poll, Claim, ClaimOldest, NoJobs, Start, Download, Pipeline,
     ProcessFails, StopNow, Release, Submit, MainComplete, Complete, MainTidy, Tidy,
     LeaveLoop, Drained
<1>4. CASE \E w \in Workers : UploadClip(w) \/ ShipNothing(w) \/ ShipFails(w)
                                \/ ShipComplete(w) \/ ShipTidy(w)
  BY <1>2, <1>4 DEF UploadClip, ShipNothing, ShipFails, ShipComplete, Complete, ShipTidy, Tidy
<1>5. CASE \E c \in Runs : Handler(c)
  BY <1>2, <1>5 DEF Handler, HandleComplete, PurgeRaw, HandleRelease
<1>6. CASE Environment
  BY <1>2, <1>6 DEF Environment, ClaimExpires, ClaimReplyLost, ClaimOldest, ForcedDrop,
     ForcedCut, Crash, RequestStop, LoseCall
<1>7. CASE UNCHANGED vars
  BY <1>2, <1>7 DEF vars
<1> QED
  BY <1>1, <1>3, <1>4, <1>5, <1>6, <1>7 DEF Next, ShipThread

\* The evidence invariant holds at the start ...
LEMMA EvidenceInit == Init => EvidenceInv
BY DEF Init, EvidenceInv, ShippedInv, ShippedAt, ProcessedInv, ClipBeforeDoc, Call

\* ... and every step keeps it.
LEMMA EvidenceStep == BasicInv /\ BasicInv' /\ EvidenceInv /\ [Next]_vars => EvidenceInv'
<1> SUFFICES ASSUME BasicInv, BasicInv', EvidenceInv, [Next]_vars
             PROVE  EvidenceInv'
  OBVIOUS
<1>. USE DEF BasicInv, EvidenceInv
<1>1. ShippedInv'
  BY ShippedStep
<1>2. ProcessedInv'
  BY ProcessedStep
<1>3. ClipBeforeDoc'
  BY ClipStep
<1> QED
  BY <1>1, <1>2, <1>3

\* What a drive's evidence and its "processed" rest on.
THEOREM EvidenceCorrect == Spec => []EvidenceInv
BY EvidenceInit, EvidenceStep, BasicCorrect, PTL DEF Spec

\* A reviewer never gets a violation whose clip is not there.
THEOREM ClipsComeFirst == Spec => []ClipBeforeDoc
<1>1. EvidenceInv => ClipBeforeDoc
  BY DEF EvidenceInv
<1> QED
  BY <1>1, EvidenceCorrect, PTL

\* A processed drive has had a whole run, each of whose violations is recorded
\* or was refused by the backend.
THEOREM ReportsAreComplete == Spec => []AllReported
<1>1. EvidenceInv => AllReported
  <2> SUFFICES ASSUME EvidenceInv, NEW d \in Drives, status[d] = "processed"
               PROVE  \E c \in Runs :
                        /\ of[c] = d /\ outcome[c] = "processed"
                        /\ \A v \in found[c] \ refused[c] : <<d, v, c>> \in docs
    BY DEF AllReported
  <2>1. PICK c \in Runs : of[c] = d /\ outcome[c] = "processed"
    BY DEF EvidenceInv, ProcessedInv
  <2> QED
    BY <2>1 DEF EvidenceInv, ShippedInv, ShippedAt
<1> QED
  BY <1>1, EvidenceCorrect, PTL

-----------------------------------------------------------------------------
(***************************************************************************)
(* The runs of one drive: which of them may still post, and which may touch *)
(* a job dir.  DirInv holds of every instance; SoleInv needs Timely, and    *)
(* rests on BasicInv, PlaceInv and the StaleInv of ClaimInv.                *)
(***************************************************************************)


\* A run that may still work, or whose last call is not served yet.
Bound(c) == Live(c) \/ \E k \in LastCalls : Call(k, c) \in calls
\* A run that may still come to post a violation or to report its outcome.
InHand(c) == pc[c] \in {"reply", "handback", "download", "pipeline", "submit",
                        "upload", "post", "report"}
Leaving(w) == main[w] \in {"drain", "down"}
\* The backend shows the drive as free, or as another worker's.
Displaced(c) == \/ status[of[c]] = "queued"
                \/ status[of[c]] = "processing" /\ workerId[of[c]] # by[c]
Posted(c) == \E t \in docs : t[3] = c
Clean(c)  == pc[c] # "dead" /\ c \notin lost
\* Its outcome is still to be sent or to be served.
Reporting(c) == \/ pc[c] \in {"post", "report"}
                \/ \E k \in {"processed", "failed"} : Call(k, c) \in calls

\* A worker has one run of a drive at a time.
AloneInv ==
    \A b, c \in Runs : Bound(b) /\ Bound(c) /\ of[b] = of[c] /\ by[b] = by[c] => b = c

\* A run only loses its drive when its worker is on its way out and nothing but
\* the job dir is left to be done.
OnlyTidies(c) == Leaving(by[c]) /\ (Live(c) => pc[c] = "tidy")
DisplacedInv == \A c \in Runs : Bound(c) /\ Displaced(c) => OnlyTidies(c)
ReleaseInv == \A c \in Runs : Call("release", c) \in calls => OnlyTidies(c) /\ ~Posted(c)

\* Of all runs of a drive, one can still post.
OneInHand == \A b, c \in Runs : InHand(b) /\ InHand(c) /\ of[b] = of[c] => b = c

\* A run that has posted, whose worker did not die and whose calls were not lost,
\* keeps its drive until the drive is settled, and is the only one ever to post.
DocsInv == \A t \in docs : t[1] = of[t[3]] /\ pc[t[3]] # "unused"
PostedInv ==
    \A c \in Runs : Posted(c) =>
        /\ \A w \in Workers : cur[w] # c
        /\ Clean(c) =>
             /\ status[of[c]] # "queued"
             /\ status[of[c]] = "processing" => workerId[of[c]] = by[c] /\ Reporting(c)
             /\ \A b \in Runs \ {c} : of[b] = of[c] =>
                  ~InHand(b) /\ ~(Posted(b) /\ Clean(b))

SoleInv == AloneInv /\ DisplacedInv /\ ReleaseInv /\ OneInHand /\ DocsInv /\ PostedInv

\* Workers that share no WORK_DIR.
OwnWorkDirs == \A u, w \in Workers : WorkDirOf[u] = WorkDirOf[w] => u = w

\* A job dir has an owner: a run that has made it and not removed it.
OwnsDir(c) == pc[c] \in {"download", "pipeline", "submit", "upload", "post", "report",
                         "abandon", "tidy", "dead"}
DirInv == \A t \in dirs : \E c \in Runs : OwnsDir(c) /\ JobDir(c) = t

-----------------------------------------------------------------------------
(* The steps SoleInv has to distinguish *)

\* A step within a worker: the backend and the calls stay, and no run comes
\* back into hand or out of tidying up.
Inside ==
    /\ UNCHANGED <<status, workerId, by, of, calls, lost>>
    /\ \A w \in Workers, c \in Runs : cur'[w] = c => cur[w] = c
    /\ \A c \in Runs :
         /\ pc[c] # "unused" => pc'[c] # "unused"
         /\ Live(c)' => Live(c)
         /\ InHand(c)' => InHand(c)
         /\ pc[c] # "unused" /\ OnlyTidies(c) => OnlyTidies(c)'
         /\ pc[c] = "dead" => pc'[c] = "dead"
         /\ pc[c] \in {"post", "report"} /\ (\A w \in Workers : cur[w] # c) =>
               pc'[c] \in {"post", "report", "dead"}

SoleKind ==
    \/ Inside /\ docs' = docs
    \/ \E w \in Workers : Inside /\ PostViolation(w)
    \/ \E d \in Drives : ClaimExpires(d)
    \/ \E w \in Workers : Poll(w)
    \/ \E w \in Workers : Claim(w) \/ ClaimReplyLost(w)
    \/ \E w \in Workers : Release(w)
    \/ \E c \in Runs : Complete(c) /\ UNCHANGED <<main, cur>>
    \/ \E c \in Runs : HandleComplete(c) \/ PurgeRaw(c) \/ HandleRelease(c) \/ LoseCall(c)

\* Most of what a worker does changes no claim.
LEMMA InsideSteps ==
  ASSUME TypeOK, TypeOK', RunInv, ThreadInv, MainInv, NEW w \in Workers,
         \/ Start(w) \/ Download(w) \/ Pipeline(w) \/ ProcessFails(w) \/ StopNow(w)
         \/ Submit(w) \/ NoJobs(w) \/ LeaveLoop(w) \/ Drained(w) \/ MainTidy(w)
         \/ UploadClip(w) \/ ShipNothing(w) \/ ShipFails(w) \/ ShipTidy(w)
         \/ ForcedDrop(w) \/ ForcedCut(w) \/ Crash(w)
         \/ RequestStop(w, "graceful") \/ RequestStop(w, "now")
  PROVE  Inside /\ docs' = docs
<1>. USE ConstantsOK DEF TypeOK, Inside, Live, InHand, OnlyTidies, Leaving, Goto, Settle,
       backend, storage, job, work, local
<1>1. CASE Start(w)
  <2>1. PICK c \in Runs :
            /\ cur[w] = c /\ pc[c] = "reply"
            /\ \/ Goto(c, "handback") /\ main' = [main EXCEPT ![w] = "drain"]
               \/ Goto(c, "download") /\ main' = main
    BY <1>1 DEF Start, Current
  <2>2. UNCHANGED <<status, workerId, by, of, calls, lost, cur, docs>>
    BY <1>1 DEF Start
  <2>3. main[w] = "drive"
    BY <2>1, CurrentAt
  <2>4. CASE Goto(c, "handback") /\ main' = [main EXCEPT ![w] = "drain"]
    BY <2>1, <2>2, <2>3, <2>4
  <2>5. CASE Goto(c, "download") /\ main' = main
    BY <2>1, <2>2, <2>5
  <2> QED
    BY <2>1, <2>4, <2>5
<1>2. CASE Download(w)
  BY <1>2 DEF Download, Current
<1>3. CASE Pipeline(w)
  <2>1. PICK c \in Runs : /\ cur[w] = c /\ pc[c] = "pipeline" /\ Goto(c, "submit")
                          /\ main' = [main EXCEPT ![w] = "submit"]
    BY <1>3 DEF Pipeline, Current
  <2>2. UNCHANGED <<status, workerId, by, of, calls, lost, cur, docs>>
    BY <1>3 DEF Pipeline
  <2>3. main[w] = "drive"
    BY <2>1, CurrentAt
  <2> QED
    BY <2>1, <2>2, <2>3
<1>4. CASE ProcessFails(w)
  BY <1>4 DEF ProcessFails, Current
<1>5. CASE StopNow(w)
  BY <1>5, CurrentOwn DEF StopNow, Current
<1>6. CASE Submit(w)
  BY <1>6, CurrentOwn, CurrentAt DEF Submit, Current, AfterSubmit, SlotFree
<1>7. CASE NoJobs(w)
  BY <1>7 DEF NoJobs
<1>8. CASE LeaveLoop(w)
  BY <1>8 DEF LeaveLoop
<1>9. CASE Drained(w)
  BY <1>9 DEF Drained, NothingInHand
<1>10. CASE MainTidy(w)
  BY <1>10 DEF MainTidy, Current, Tidy
<1>11. CASE UploadClip(w)
  BY <1>11 DEF UploadClip, Shipping
<1>12. CASE ShipNothing(w)
  BY <1>12 DEF ShipNothing, Shipping
<1>13. CASE ShipFails(w)
  BY <1>13 DEF ShipFails, Shipping
<1>14. CASE ShipTidy(w)
  BY <1>14 DEF ShipTidy, Shipping, Tidy
<1>15. CASE ForcedDrop(w)
  BY <1>15 DEF ForcedDrop, Current
<1>16. CASE ForcedCut(w)
  BY <1>16 DEF ForcedCut, Shipping
<1>17. CASE Crash(w)
  BY <1>17 DEF Crash
<1>18. CASE RequestStop(w, "graceful")
  BY <1>18 DEF RequestStop
<1>19. CASE RequestStop(w, "now")
  BY <1>19 DEF RequestStop
<1> QED
  BY <1>1, <1>2, <1>3, <1>4, <1>5, <1>6, <1>7, <1>8, <1>9, <1>10, <1>11, <1>12,
     <1>13, <1>14, <1>15, <1>16, <1>17, <1>18, <1>19

\* Nor does posting a violation.
LEMMA PostInside ==
  ASSUME TypeOK, TypeOK', NEW w \in Workers, PostViolation(w)
  PROVE  Inside
<1>1. PICK c \in Runs : pc[c] = "post" /\ \E v \in todo[c] : PostsOne(c, v)
  BY PostsOneAtATime
<1>2. pc' = pc \/ pc' = [pc EXCEPT ![c] = "report"]
  BY <1>1 DEF PostsOne, Settle, Goto
<1>3. UNCHANGED <<status, workerId, by, of, calls, lost, main, cur>>
  BY DEF PostViolation, backend, job, local
<1> QED
  BY <1>1, <1>2, <1>3 DEF Inside, Live, InHand, OnlyTidies, Leaving, TypeOK

\* Every step is of one of these kinds.
LEMMA SoleKinds ==
  ASSUME TypeOK, TypeOK', RunInv, ThreadInv, MainInv, [Next]_vars
  PROVE  SoleKind
<1>. USE DEF SoleKind
<1>1. ASSUME NEW w \in Workers, MainThread(w) \/ ShipThread(w)
      PROVE  SoleKind
  <2>1. CASE MainComplete(w) \/ ShipComplete(w)
    BY <2>1 DEF MainComplete, ShipComplete, Complete, local
  <2>2. CASE Poll(w) \/ Release(w) \/ Claim(w)
    BY <2>2
  <2>3. CASE PostViolation(w)
    BY <2>3, PostInside
  <2> QED
    BY <1>1, <2>1, <2>2, <2>3, InsideSteps DEF MainThread, ShipThread
<1>2. ASSUME NEW c \in Runs, Handler(c) \/ LoseCall(c)
      PROVE  SoleKind
  BY <1>2 DEF Handler
<1>3. ASSUME NEW w \in Workers,
             \/ ClaimReplyLost(w) \/ ForcedDrop(w) \/ ForcedCut(w) \/ Crash(w)
             \/ RequestStop(w, "graceful") \/ RequestStop(w, "now")
      PROVE  SoleKind
  BY <1>3, InsideSteps
<1>4. CASE UNCHANGED vars
  BY <1>4 DEF vars, Inside, Live, InHand, OnlyTidies, Leaving
<1> QED
  BY <1>1, <1>2, <1>3, <1>4 DEF Next, Environment

-----------------------------------------------------------------------------
(* Which run of a drive may still post *)

\* A run that is bound was claimed and keeps its drive busy ...
LEMMA BoundUsed ==
  ASSUME TypeOK, RunInv, CallUsed, NEW c \in Runs, Bound(c)
  PROVE  pc[c] # "unused" /\ of[c] \in Drives /\ by[c] \in Workers /\ Busy(of[c])
BY DEF TypeOK, RunInv, CallUsed, Bound, Live, Busy, Calls, Call

\* ... and one that may still post or report is at work on its drive: it still
\* has it.
LEMMA InHandBound ==
  ASSUME DisplacedInv, ReleaseInv, NEW c \in Runs, InHand(c)
  PROVE  Bound(c) /\ ~OnlyTidies(c) /\ ~Displaced(c) /\ Call("release", c) \notin calls
BY DEF DisplacedInv, ReleaseInv, InHand, Bound, Live, OnlyTidies

\* A run about to report is bound until the report is served.
LEMMA ReportingBound ==
  ASSUME NEW c \in Runs, Reporting(c)
  PROVE  Bound(c)
BY DEF Reporting, Bound, Live, LastCalls

\* A step within a worker keeps all of SoleInv but what it says of documents.
LEMMA InsideKeeps ==
  ASSUME TypeOK, TypeOK', RunInv, CallUsed, SoleInv, Inside
  PROVE  /\ AloneInv' /\ DisplacedInv' /\ OneInHand'
         /\ \A c \in Runs : Call("release", c) \in calls' => OnlyTidies(c)'
         /\ \A c \in Runs : Posted(c) => \A w \in Workers : cur'[w] # c
         /\ \A c \in Runs : Clean(c)' => Clean(c)
         /\ \A c \in Runs : Posted(c) /\ Clean(c)' /\ Reporting(c) => Reporting(c)'
<1>. USE DEF SoleInv
<1>1. \A c \in Runs : Bound(c)' => Bound(c)
  BY DEF Inside, Bound, Call
<1>2. \A c \in Runs : Bound(c) /\ OnlyTidies(c) => OnlyTidies(c)'
  BY BoundUsed DEF Inside
<1>3. AloneInv'
  BY <1>1 DEF AloneInv, Inside
<1>4. DisplacedInv'
  BY <1>1, <1>2 DEF DisplacedInv, Displaced, Inside
<1>5. OneInHand'
  BY DEF OneInHand, Inside
<1>6. \A c \in Runs : Call("release", c) \in calls' => OnlyTidies(c)'
  <2>1. \A c \in Runs : Call("release", c) \in calls => Bound(c)
    BY DEF Bound, LastCalls
  <2> QED
    BY <1>2, <2>1 DEF ReleaseInv, Inside, Call
<1>7. \A c \in Runs : Posted(c) => \A w \in Workers : cur'[w] # c
  BY DEF PostedInv, Inside
<1>8. \A c \in Runs : Clean(c)' => Clean(c)
  BY DEF Clean, Inside
<1>9. ASSUME NEW c \in Runs, Posted(c), Clean(c)', Reporting(c)
      PROVE  Reporting(c)'
  <2>1. \A w \in Workers : cur[w] # c
    BY <1>9 DEF PostedInv
  <2> QED
    BY <1>9, <2>1 DEF Reporting, Clean, Inside, Call
<1> QED
  BY <1>3, <1>4, <1>5, <1>6, <1>7, <1>8, <1>9

\* A step that posts nothing and leaves calls and runs where they are keeps
\* SoleInv if it displaces nobody who still has something to do.
LEMMA BackendKeeps ==
  ASSUME TypeOK, TypeOK', RunInv, CallUsed, SoleInv,
         UNCHANGED <<pc, by, of, cur, docs, lost, calls>>,
         \A w \in Workers : Leaving(w)' = Leaving(w),
         \A c \in Runs : Bound(c) =>
            status'[of[c]] = status[of[c]] /\ workerId'[of[c]] = workerId[of[c]],
         \A d \in Drives : status[d] # "queued" /\ status'[d] # status[d] =>
            status[d] = "processing" /\ ~Busy(d),
         \A d \in Drives : status[d] # "queued" /\ status'[d] = "processing" =>
            workerId'[d] = workerId[d]
  PROVE  SoleInv'
<1>. USE DEF SoleInv
<1>1. \A c \in Runs : /\ Bound(c)' = Bound(c) /\ InHand(c)' = InHand(c)
                      /\ Posted(c)' = Posted(c) /\ Clean(c)' = Clean(c)
                      /\ Reporting(c)' = Reporting(c)
  BY DEF Bound, InHand, Posted, Clean, Reporting, Live, Call
<1>2. \A c \in Runs : Bound(c) /\ OnlyTidies(c) => OnlyTidies(c)'
  BY BoundUsed DEF OnlyTidies, Live
<1>3. AloneInv'
  BY <1>1 DEF AloneInv
<1>4. DisplacedInv'
  BY <1>1, <1>2 DEF DisplacedInv, Displaced
<1>5. ReleaseInv'
  <2>1. \A c \in Runs : Call("release", c) \in calls => Bound(c)
    BY DEF Bound, LastCalls
  <2> QED
    BY <1>1, <1>2, <2>1 DEF ReleaseInv, Call
<1>6. OneInHand'
  BY <1>1 DEF OneInHand
<1>7. DocsInv'
  BY DEF DocsInv
<1>8. PostedInv'
  <2>1. ASSUME NEW c \in Runs, Posted(c), Clean(c)
        PROVE  /\ status'[of[c]] # "queued"
               /\ status'[of[c]] = "processing" =>
                     workerId'[of[c]] = by[c] /\ Reporting(c)
    <3>1. /\ status[of[c]] # "queued" /\ of[c] \in Drives
          /\ status[of[c]] = "processing" => workerId[of[c]] = by[c] /\ Reporting(c)
      BY <2>1 DEF PostedInv, DocsInv, Posted, RunInv
    <3>2. Reporting(c) => Busy(of[c])
      BY ReportingBound, BoundUsed
    <3> QED
      BY <3>1, <3>2
  <2>2. ASSUME NEW c \in Runs, Posted(c)
        PROVE  \A w \in Workers : cur'[w] # c
    BY <2>2 DEF PostedInv
  <2>3. ASSUME NEW c \in Runs, Posted(c), Clean(c), NEW b \in Runs \ {c}, of[b] = of[c]
        PROVE  ~InHand(b) /\ ~(Posted(b) /\ Clean(b))
    BY <2>3 DEF PostedInv
  <2> QED
    BY <1>1, <2>1, <2>2, <2>3 DEF PostedInv
<1> QED
  BY <1>3, <1>4, <1>5, <1>6, <1>7, <1>8

\* A step within a worker that posts nothing.
LEMMA SoleInside ==
  ASSUME TypeOK, TypeOK', RunInv, CallUsed, SoleInv, Inside, docs' = docs
  PROVE  SoleInv'
<1>1. \A c \in Runs : Posted(c)' = Posted(c)
  BY DEF Posted
<1>2. AloneInv' /\ DisplacedInv' /\ OneInHand'
  BY InsideKeeps
<1>3. ReleaseInv'
  BY <1>1, InsideKeeps DEF ReleaseInv, SoleInv, Inside, Call
<1>4. DocsInv'
  BY DEF DocsInv, SoleInv, Inside, TypeOK
<1>5. PostedInv'
  <2>1. ASSUME NEW c \in Runs, Posted(c), Clean(c)'
        PROVE  /\ status'[of'[c]] # "queued"
               /\ status'[of'[c]] = "processing" =>
                     workerId'[of'[c]] = by'[c] /\ Reporting(c)'
    BY <2>1, InsideKeeps DEF PostedInv, SoleInv, Inside
  <2>2. ASSUME NEW c \in Runs, Posted(c), Clean(c)', NEW b \in Runs \ {c}, of'[b] = of'[c]
        PROVE  ~InHand(b)' /\ ~(Posted(b)' /\ Clean(b)')
    <3>1. Clean(c) /\ of[b] = of[c] /\ (Clean(b)' => Clean(b))
      BY <2>2, InsideKeeps DEF Inside
    <3> QED
      BY <1>1, <2>2, <3>1 DEF PostedInv, SoleInv, Inside
  <2> QED
    BY <1>1, <2>1, <2>2, InsideKeeps DEF PostedInv
<1> QED
  BY <1>2, <1>3, <1>4, <1>5 DEF SoleInv

\* A run that posts is the only one that can, and no other has.
LEMMA SolePost ==
  ASSUME TypeOK, TypeOK', RunInv, ThreadInv, CallUsed, SoleInv,
         NEW w \in Workers, PostViolation(w), Inside
  PROVE  SoleInv'
<1>1. PICK c \in Runs : /\ Shipping(w, c) /\ pc[c] = "post"
                        /\ \E v \in todo[c] : PostsOne(c, v)
  BY PostsOneAtATime
<1>2. PICK v \in todo[c] : PostsOne(c, v)
  BY <1>1
<1>3. /\ docs \subseteq docs' /\ docs' \subseteq docs \cup {<<of[c], v, c>>}
      /\ pc'[c] \in {"post", "report"} /\ of' = of
  BY <1>1, <1>2 DEF PostsOne, Settle, Goto, Inside, TypeOK
<1>4. \A b \in Runs \ {c} : Posted(b)' = Posted(b)
  BY <1>3 DEF Posted
<1>5. InHand(c) /\ Reporting(c)' /\ \A x \in Workers : cur[x] # c
  BY <1>1, <1>3, ShippingOwn DEF InHand, Reporting
<1>6. Bound(c) /\ ~Displaced(c) /\ Call("release", c) \notin calls /\ pc[c] # "unused"
  BY <1>1, <1>5, InHandBound DEF SoleInv
<1>7. AloneInv' /\ DisplacedInv' /\ OneInHand'
  BY InsideKeeps
<1>8. ReleaseInv'
  BY <1>4, <1>6, InsideKeeps DEF ReleaseInv, SoleInv, Inside, Call
<1>9. DocsInv'
  <2>1. \A t \in docs : t[3] \in Runs
    BY DEF TypeOK
  <2> QED
    BY <1>3, <1>6, <2>1 DEF DocsInv, SoleInv, Inside
<1>10. PostedInv'
  <2>1. \A b \in Runs \ {c} : of[b] = of[c] => ~InHand(b) /\ ~(Posted(b) /\ Clean(b))
    BY <1>5 DEF SoleInv, OneInHand, PostedInv
  <2>2. ASSUME NEW b \in Runs, Posted(b)', Clean(b)'
        PROVE  /\ status'[of'[b]] # "queued"
               /\ status'[of'[b]] = "processing" =>
                     workerId'[of'[b]] = by'[b] /\ Reporting(b)'
    <3>1. CASE b = c
      BY <1>5, <1>6, <3>1 DEF Displaced, Inside
    <3>2. CASE b # c
      BY <1>4, <2>2, <3>2, InsideKeeps DEF PostedInv, SoleInv, Inside
    <3> QED
      BY <3>1, <3>2
  <2>3. ASSUME NEW b \in Runs, Posted(b)' PROVE \A x \in Workers : cur'[x] # b
    BY <1>4, <1>5, <2>3, InsideKeeps DEF Inside
  <2>4. ASSUME NEW b \in Runs, Posted(b)', Clean(b)', NEW a \in Runs \ {b}, of'[a] = of'[b]
        PROVE  ~InHand(a)' /\ ~(Posted(a)' /\ Clean(a)')
    <3>1. Clean(b) /\ of[a] = of[b] /\ (Clean(a)' => Clean(a)) /\ (InHand(a)' => InHand(a))
      BY <1>3, <2>4, InsideKeeps DEF Inside
    <3>2. CASE b = c
      BY <1>4, <2>1, <3>1, <3>2
    <3>3. CASE b # c
      <4>1. Posted(b)
        BY <1>4, <2>4, <3>3
      <4>2. a # c
        BY <2>1, <3>1, <3>3, <4>1
      <4> QED
        BY <1>4, <3>1, <4>1, <4>2 DEF PostedInv, SoleInv
    <3> QED
      BY <3>2, <3>3
  <2> QED
    BY <2>2, <2>3, <2>4 DEF PostedInv
<1> QED
  BY <1>7, <1>8, <1>9, <1>10 DEF SoleInv

\* Whoever is claimed a drive anew finds nobody of its own at it, and nobody
\* else who has more to do than tidy up.
LEMMA SoleClaim ==
  ASSUME TypeOK, TypeOK', RunInv, CallUsed, ThreadInv, SoleInv,
         NEW w \in Workers, Claim(w) \/ ClaimReplyLost(w)
  PROVE  SoleInv'
<1>. USE DEF SoleInv
<1>1. PICK c \in Runs, d \in Drives :
         /\ main[w] = "claiming" /\ pc[c] = "unused" /\ status[d] = "queued"
         /\ status' = [status EXCEPT ![d] = "processing"]
         /\ workerId' = [workerId EXCEPT ![d] = w]
         /\ of' = [of EXCEPT ![c] = d] /\ by' = [by EXCEPT ![c] = w]
         /\ pc' \in {[pc EXCEPT ![c] = "reply"], [pc EXCEPT ![c] = "lost"]}
         /\ main' \in {[main EXCEPT ![w] = "drive"], [main EXCEPT ![w] = "poll"]}
         /\ cur' \in {cur, [cur EXCEPT ![w] = c]} /\ lost \subseteq lost'
         /\ UNCHANGED <<outcome, calls, docs>>
  BY ClaimTakes
<1> DEFINE same(b) == /\ pc'[b] = pc[b] /\ of'[b] = of[b] /\ by'[b] = by[b]
<1>2. \A b \in Runs \ {c} : same(b)
  BY <1>1 DEF TypeOK
<1>3. of'[c] = d /\ by'[c] = w /\ status'[d] = "processing" /\ workerId'[d] = w
  BY <1>1 DEF TypeOK
<1>4. \A e \in Drives \ {d} : status'[e] = status[e] /\ workerId'[e] = workerId[e]
  BY <1>1 DEF TypeOK
<1>5. \A b \in Runs \ {c} : /\ Bound(b)' = Bound(b) /\ InHand(b)' = InHand(b)
                            /\ Posted(b)' = Posted(b) /\ Reporting(b)' = Reporting(b)
                            /\ Clean(b)' => Clean(b)
  BY <1>1, <1>2 DEF Bound, InHand, Posted, Reporting, Clean, Live, Call
<1>6. ~Posted(c)' /\ \A k : Call(k, c) \notin calls'
  BY <1>1 DEF Posted, DocsInv, CallUsed, Call, Calls
<1>7. \A b \in Runs : Bound(b) => b # c /\ of[b] \in Drives /\ by[b] \in Workers
  BY <1>1, BoundUsed
<1>8. \A b \in Runs : Bound(b) /\ of[b] = d => OnlyTidies(b) /\ by[b] # w /\ ~InHand(b)
  BY <1>1 DEF DisplacedInv, Displaced, OnlyTidies, Leaving, InHand, Live
<1>9. \A b \in Runs : Bound(b) /\ OnlyTidies(b) => OnlyTidies(b)'
  BY <1>1, <1>2, <1>7 DEF OnlyTidies, Leaving, Live, TypeOK
<1>10. AloneInv'
  BY <1>2, <1>3, <1>5, <1>8 DEF AloneInv
<1>11. DisplacedInv'
  <2>1. ~Displaced(c)'
    BY <1>3 DEF Displaced
  <2>2. ASSUME NEW b \in Runs \ {c}, Bound(b), Displaced(b)' PROVE OnlyTidies(b)
    <3>1. CASE of[b] = d
      BY <1>8, <2>2, <3>1
    <3>2. CASE of[b] # d
      BY <1>2, <1>4, <1>7, <2>2, <3>2 DEF Displaced, DisplacedInv
    <3> QED
      BY <3>1, <3>2
  <2> QED
    BY <1>5, <1>9, <2>1, <2>2 DEF DisplacedInv
<1>12. ReleaseInv'
  <2>1. \A b \in Runs : Call("release", b) \in calls => Bound(b)
    BY DEF Bound, LastCalls
  <2> QED
    BY <1>1, <1>5, <1>6, <1>9, <2>1 DEF ReleaseInv, Call
<1>13. OneInHand'
  <2>1. \A b \in Runs : InHand(b) => Bound(b)
    BY InHandBound
  <2> QED
    BY <1>2, <1>3, <1>5, <1>8, <2>1 DEF OneInHand
<1>14. DocsInv'
  <2>1. \A t \in docs : t[3] \in Runs /\ t[3] # c
    BY <1>1 DEF DocsInv, TypeOK
  <2> QED
    BY <1>1, <1>2, <2>1 DEF DocsInv
<1>15. PostedInv'
  <2>1. \A b \in Runs : Posted(b) => b # c /\ of[b] \in Drives
    BY <1>1 DEF Posted, DocsInv, RunInv
  <2>2. \A b \in Runs : Posted(b) /\ Clean(b)' => Clean(b) /\ of[b] # d
    BY <1>1, <1>5, <2>1 DEF PostedInv
  <2>3. ASSUME NEW b \in Runs, Posted(b)', Clean(b)'
        PROVE  /\ status'[of'[b]] # "queued"
               /\ status'[of'[b]] = "processing" =>
                     workerId'[of'[b]] = by'[b] /\ Reporting(b)'
    <3>1. b # c /\ Posted(b) /\ Clean(b) /\ of[b] \in Drives \ {d}
      BY <1>5, <1>6, <2>1, <2>2, <2>3
    <3> QED
      BY <1>2, <1>4, <1>5, <3>1 DEF PostedInv
  <2>4. ASSUME NEW b \in Runs, Posted(b)' PROVE \A x \in Workers : cur'[x] # b
    <3>1. b # c /\ Posted(b)
      BY <1>5, <1>6, <2>4
    <3> QED
      BY <1>1, <3>1 DEF PostedInv, TypeOK
  <2>5. ASSUME NEW b \in Runs, Posted(b)', Clean(b)', NEW a \in Runs \ {b}, of'[a] = of'[b]
        PROVE  ~InHand(a)' /\ ~(Posted(a)' /\ Clean(a)')
    <3>1. b # c /\ Posted(b) /\ Clean(b) /\ of[b] \in Drives \ {d} /\ of'[b] = of[b]
      BY <1>2, <1>5, <1>6, <2>1, <2>2, <2>5
    <3>2. a # c /\ of[a] = of[b]
      BY <1>2, <1>3, <2>5, <3>1
    <3> QED
      BY <1>5, <3>1, <3>2 DEF PostedInv
  <2> QED
    BY <2>3, <2>4, <2>5 DEF PostedInv
<1> QED
  BY <1>10, <1>11, <1>12, <1>13, <1>14, <1>15

\* Giving a drive back: the worker is on its way out and has posted nothing.
LEMMA SoleRelease ==
  ASSUME TypeOK, TypeOK', RunInv, ThreadInv, CallUsed, MainInv, SoleInv,
         NEW w \in Workers, Release(w)
  PROVE  SoleInv'
<1>. USE DEF SoleInv
<1>1. PICK c \in Runs : /\ cur[w] = c /\ pc[c] \in {"handback", "abandon"}
                        /\ calls' = calls \cup {Call("release", c)}
                        /\ pc' \in {[pc EXCEPT ![c] = "tidy"], [pc EXCEPT ![c] = "over"]}
                        /\ cur' \in {cur, [cur EXCEPT ![w] = NoRun]}
  BY DEF Release, Current, Goto
<1>2. UNCHANGED <<status, workerId, by, of, docs, lost, main>>
  BY DEF Release, backend, job, storage
<1>3. by[c] = w /\ main[w] = "drain"
  BY <1>1, CurrentOwn, CurrentAt
<1>4. pc'[c] \in {"tidy", "over"} /\ OnlyTidies(c)' /\ Bound(c) /\ ~Posted(c)
  BY <1>1, <1>2, <1>3 DEF TypeOK, OnlyTidies, Leaving, Live, Bound, PostedInv
<1>5. \A b \in Runs \ {c} : pc'[b] = pc[b] /\ \A k : Call(k, b) \in calls' <=> Call(k, b) \in calls
  BY <1>1 DEF TypeOK, Call
<1>6. \A b \in Runs \ {c} : /\ Bound(b)' = Bound(b) /\ OnlyTidies(b)' = OnlyTidies(b)
                            /\ InHand(b)' = InHand(b) /\ Reporting(b)' = Reporting(b)
                            /\ Clean(b)' = Clean(b)
  BY <1>2, <1>5 DEF Bound, OnlyTidies, Leaving, Live, InHand, Reporting, Clean, Call
<1>7. ~InHand(c)' /\ \A b \in Runs : Posted(b)' = Posted(b)
  BY <1>2, <1>4 DEF InHand, Posted
<1>8. AloneInv'
  BY <1>2, <1>4, <1>6 DEF AloneInv
<1>9. DisplacedInv'
  BY <1>2, <1>4, <1>6 DEF DisplacedInv, Displaced
<1>10. ReleaseInv'
  <2>1. \A b \in Runs \ {c} : Call("release", b)' \in calls' => Call("release", b) \in calls
    BY <1>5 DEF Call
  <2> QED
    BY <1>4, <1>6, <1>7, <2>1 DEF ReleaseInv, Call
<1>11. OneInHand'
  BY <1>2, <1>6, <1>7 DEF OneInHand
<1>12. DocsInv'
  <2>1. \A t \in docs : t[3] \in Runs
    BY DEF TypeOK
  <2> QED
    BY <1>2, <1>4, <1>5, <2>1 DEF DocsInv
<1>13. PostedInv'
  <2>1. ASSUME NEW b \in Runs, Posted(b) PROVE b # c /\ \A x \in Workers : cur'[x] # b
    BY <1>1, <1>4, <2>1, ConstantsOK DEF PostedInv, TypeOK
  <2> QED
    BY <1>2, <1>6, <1>7, <2>1 DEF PostedInv
<1> QED
  BY <1>8, <1>9, <1>10, <1>11, <1>12, <1>13

\* Reporting an outcome: the run keeps its drive while the report is under way.
LEMMA SoleComplete ==
  ASSUME TypeOK, TypeOK', RunInv, CallUsed, OutcomeInv, SoleInv,
         NEW c \in Runs, Complete(c), UNCHANGED <<main, cur>>
  PROVE  SoleInv'
<1>. USE DEF SoleInv
<1>1. /\ pc[c] = "report" /\ outcome[c] \in {"processed", "failed"}
      /\ calls' = calls \cup {Call(outcome[c], c)} /\ pc' = [pc EXCEPT ![c] = "tidy"]
  BY DEF Complete, Goto, OutcomeInv
<1>2. UNCHANGED <<status, workerId, by, of, docs, lost>>
  BY DEF Complete, backend, job, storage
<1>3. /\ pc'[c] = "tidy" /\ InHand(c) /\ Bound(c) /\ Reporting(c)'
      /\ ~Displaced(c) /\ Call("release", c) \notin calls
  BY <1>1, InHandBound DEF TypeOK, InHand, Reporting, Call
<1>4. \A b \in Runs \ {c} : pc'[b] = pc[b] /\ \A k : Call(k, b) \in calls' <=> Call(k, b) \in calls
  BY <1>1 DEF TypeOK, Call
<1>5. \A b \in Runs \ {c} : /\ Bound(b)' = Bound(b) /\ OnlyTidies(b)' = OnlyTidies(b)
                            /\ InHand(b)' = InHand(b) /\ Reporting(b)' = Reporting(b)
  BY <1>2, <1>4 DEF Bound, OnlyTidies, Leaving, Live, InHand, Reporting, Call
<1>6. /\ ~InHand(c)' /\ \A b \in Runs : Posted(b)' = Posted(b)
      /\ \A b \in Runs : Clean(b)' => Clean(b)
  BY <1>1, <1>2, <1>3, <1>4 DEF InHand, Posted, Clean
<1>7. AloneInv'
  BY <1>2, <1>3, <1>5 DEF AloneInv
<1>8. DisplacedInv'
  BY <1>2, <1>3, <1>5 DEF DisplacedInv, Displaced
<1>9. ReleaseInv'
  <2>1. \A b \in Runs : Call("release", b) \in calls' => b # c /\ Call("release", b) \in calls
    BY <1>1, <1>3 DEF Call
  <2> QED
    BY <1>5, <1>6, <2>1 DEF ReleaseInv, Call
<1>10. OneInHand'
  BY <1>2, <1>5, <1>6 DEF OneInHand
<1>11. DocsInv'
  <2>1. \A t \in docs : t[3] \in Runs
    BY DEF TypeOK
  <2> QED
    BY <1>2, <1>3, <1>4, <2>1 DEF DocsInv
<1>12. PostedInv'
  <2>1. ASSUME NEW b \in Runs, Posted(b), Clean(b)
        PROVE  /\ status[of[b]] # "queued"
               /\ status[of[b]] = "processing" => workerId[of[b]] = by[b] /\ Reporting(b)'
    BY <1>3, <1>5, <2>1 DEF PostedInv
  <2>2. ASSUME NEW b \in Runs, Posted(b), Clean(b), NEW a \in Runs \ {b}, of[a] = of[b]
        PROVE  ~InHand(a)' /\ ~(Posted(a) /\ Clean(a)')
    BY <1>5, <1>6, <2>2 DEF PostedInv
  <2>3. \A b \in Runs : Posted(b) => \A x \in Workers : cur'[x] # b
    BY DEF PostedInv
  <2> QED
    BY <1>2, <1>6, <2>1, <2>2, <2>3 DEF PostedInv
<1> QED
  BY <1>7, <1>8, <1>9, <1>10, <1>11, <1>12

\* A step of the backend that serves or loses calls: what it keeps in any case.
LEMMA ServedKeeps ==
  ASSUME TypeOK, TypeOK', RunInv, CallUsed, SoleInv, NEW c \in Runs,
         UNCHANGED <<pc, by, of, main, cur, docs>>, lost \subseteq lost',
         \A b \in Runs : \A k \in LastCalls : Call(k, b) \in calls' => Call(k, b) \in calls,
         \A b \in Runs \ {c} : \A k \in LastCalls : Call(k, b) \in calls => Call(k, b) \in calls',
         \A b \in Runs : Bound(b) /\ Displaced(b)' => OnlyTidies(b),
         \A b \in Runs : Posted(b) /\ Clean(b)' =>
            /\ status'[of[b]] # "queued"
            /\ status'[of[b]] = "processing" =>
                  /\ status[of[b]] = "processing" /\ workerId'[of[b]] = workerId[of[b]]
                  /\ b = c => (Reporting(b) => Reporting(b)')
  PROVE  SoleInv'
<1>. USE DEF SoleInv
<1>1. \A b \in Runs : /\ Bound(b)' => Bound(b)
                      /\ InHand(b)' = InHand(b) /\ Posted(b)' = Posted(b)
                      /\ Clean(b)' => Clean(b)
                      /\ OnlyTidies(b)' = OnlyTidies(b)
  BY DEF Bound, InHand, Posted, Clean, OnlyTidies, Leaving, Live, Call
<1>2. \A b \in Runs \ {c} : Reporting(b) => Reporting(b)'
  BY DEF Reporting, LastCalls, Call
<1>3. AloneInv'
  BY <1>1 DEF AloneInv
<1>4. DisplacedInv'
  BY <1>1 DEF DisplacedInv
<1>5. ReleaseInv'
  BY <1>1 DEF ReleaseInv, LastCalls, Call
<1>6. OneInHand'
  BY <1>1 DEF OneInHand
<1>7. DocsInv'
  BY DEF DocsInv
<1>8. PostedInv'
  <2>1. ASSUME NEW b \in Runs, Posted(b), Clean(b)'
        PROVE  /\ status'[of[b]] # "queued"
               /\ status'[of[b]] = "processing" => workerId'[of[b]] = by[b] /\ Reporting(b)'
    BY <1>1, <1>2, <2>1 DEF PostedInv
  <2>2. ASSUME NEW b \in Runs, Posted(b), Clean(b)', NEW a \in Runs \ {b}, of[a] = of[b]
        PROVE  ~InHand(a) /\ ~(Posted(a) /\ Clean(a)')
    BY <1>1, <2>2 DEF PostedInv
  <2>3. \A b \in Runs : Posted(b) => \A x \in Workers : cur'[x] # b
    BY DEF PostedInv
  <2> QED
    BY <1>1, <2>1, <2>2, <2>3 DEF PostedInv
<1> QED
  BY <1>3, <1>4, <1>5, <1>6, <1>7, <1>8

\* Each of the backend's steps keeps SoleInv.
LEMMA SoleServed ==
  ASSUME TypeOK, TypeOK', RunInv, CallUsed, SoleInv, NEW c \in Runs,
         HandleComplete(c) \/ PurgeRaw(c) \/ HandleRelease(c) \/ LoseCall(c)
  PROVE  SoleInv'
<1>. USE DEF SoleInv
<1>1. ASSUME HandleComplete(c) PROVE SoleInv'
  <2>1. PICK result \in {"processed", "failed"} :
            /\ Call(result, c) \in calls /\ status' = [status EXCEPT ![of[c]] = result]
            /\ calls' = (calls \ {Call(result, c)})
                          \cup (IF Purges(result) THEN {Call("purge", c)} ELSE {})
    BY <1>1 DEF HandleComplete
  <2>2. UNCHANGED <<workerId, pc, by, of, main, cur, docs, lost>>
    BY <1>1 DEF HandleComplete, job, local, storage
  <2>3. /\ \A b \in Runs : \A k \in LastCalls : Call(k, b) \in calls' => Call(k, b) \in calls
        /\ \A b \in Runs \ {c} : \A k \in LastCalls :
              Call(k, b) \in calls => Call(k, b) \in calls'
    BY <2>1 DEF Call, LastCalls
  <2>4. of[c] \in Drives /\ \A d \in Drives : status'[d] = IF d = of[c] THEN result ELSE status[d]
    BY <2>1 DEF CallUsed, RunInv, Call, TypeOK
  <2>5. ASSUME NEW b \in Runs, Bound(b), Displaced(b)' PROVE OnlyTidies(b)
    <3>1. of[b] \in Drives
      BY <2>5, BoundUsed
    <3> QED
      BY <2>2, <2>4, <2>5, <3>1 DEF Displaced, DisplacedInv
  <2>6. ASSUME NEW b \in Runs, Posted(b), Clean(b)'
        PROVE  /\ status'[of[b]] # "queued"
               /\ status'[of[b]] = "processing" =>
                     b # c /\ status[of[b]] = "processing" /\ workerId'[of[b]] = workerId[of[b]]
    <3>1. of[b] \in Drives /\ Clean(b)
      BY <2>2, <2>6 DEF Posted, DocsInv, RunInv, Clean
    <3> QED
      BY <2>2, <2>4, <2>6, <3>1 DEF PostedInv
  <2> QED
    BY <2>2, <2>3, <2>5, <2>6, ServedKeeps
<1>2. ASSUME PurgeRaw(c) PROVE SoleInv'
  <2>1. calls' = calls \ {Call("purge", c)}
    BY <1>2 DEF PurgeRaw
  <2>2. UNCHANGED <<status, workerId, pc, by, of, main, cur, docs, lost>>
    BY <1>2 DEF PurgeRaw, backend, job, local
  <2>3. \A b \in Runs : \A k \in LastCalls : Call(k, b) \in calls' <=> Call(k, b) \in calls
    BY <2>1 DEF Call, LastCalls
  <2>4. \A b \in Runs : Reporting(b)' = Reporting(b) /\ Clean(b)' = Clean(b)
    BY <2>2, <2>3 DEF Reporting, Clean, LastCalls, Call
  <2> QED
    BY <2>2, <2>3, <2>4, ServedKeeps DEF Displaced, DisplacedInv, PostedInv
<1>3. ASSUME HandleRelease(c) PROVE SoleInv'
  <2>1. /\ Call("release", c) \in calls /\ calls' = calls \ {Call("release", c)}
        /\ Requeue({of[c]} \cap {d \in Drives : status[d] = "processing" /\ workerId[d] = by[c]})
    BY <1>3 DEF HandleRelease
  <2>2. UNCHANGED <<pc, by, of, main, cur, docs, lost>>
    BY <1>3 DEF HandleRelease, job, local, storage
  <2>3. /\ \A b \in Runs : \A k \in LastCalls : Call(k, b) \in calls' => Call(k, b) \in calls
        /\ \A b \in Runs \ {c} : \A k \in LastCalls :
              Call(k, b) \in calls => Call(k, b) \in calls'
    BY <2>1 DEF Call
  <2>4. Bound(c) /\ OnlyTidies(c) /\ ~Posted(c)
    BY <2>1 DEF Bound, LastCalls, ReleaseInv
  <2> DEFINE freed(d) == d = of[c] /\ status[d] = "processing" /\ workerId[d] = by[c]
  <2>5. \A d \in Drives : /\ ~freed(d) => status'[d] = status[d] /\ workerId'[d] = workerId[d]
                          /\ freed(d) => status'[d] = "queued"
    BY <2>1 DEF Requeue
  <2>6. ASSUME NEW b \in Runs, Bound(b), Displaced(b)' PROVE OnlyTidies(b)
    <3>1. of[b] \in Drives
      BY <2>6, BoundUsed
    <3>2. CASE freed(of[b]) /\ b # c
      <4>1. by[b] # by[c]
        BY <2>4, <2>6, <3>2 DEF AloneInv
      <4> QED
        BY <2>6, <3>2, <4>1 DEF Displaced, DisplacedInv
    <3>3. CASE ~freed(of[b])
      BY <2>2, <2>5, <2>6, <3>1, <3>3 DEF Displaced, DisplacedInv
    <3> QED
      BY <2>4, <3>2, <3>3
  <2>7. ASSUME NEW b \in Runs, Posted(b), Clean(b)'
        PROVE  /\ b # c /\ status'[of[b]] # "queued"
               /\ status'[of[b]] = "processing" =>
                     status[of[b]] = "processing" /\ workerId'[of[b]] = workerId[of[b]]
    <3>1. of[b] \in Drives /\ Clean(b)
      BY <2>2, <2>7 DEF Posted, DocsInv, RunInv, Clean
    <3>2. b # c
      BY <2>4, <2>7
    <3>3. ASSUME freed(of[b]) PROVE FALSE
      <4>1. by[b] = by[c] /\ Bound(b)
        BY <2>7, <3>1, <3>3, ReportingBound DEF PostedInv
      <4> QED
        BY <2>4, <3>2, <3>3, <4>1 DEF AloneInv
    <3> QED
      BY <2>5, <2>7, <3>1, <3>2, <3>3 DEF PostedInv
  <2> QED
    BY <2>2, <2>3, <2>6, <2>7, ServedKeeps
<1>4. ASSUME LoseCall(c) PROVE SoleInv'
  <2>1. calls' \subseteq calls /\ \A b \in Runs \ {c} : \A k \in LastCalls :
              Call(k, b) \in calls => Call(k, b) \in calls'
    BY <1>4 DEF LoseCall, Call
  <2>2. UNCHANGED <<status, workerId, pc, by, of, main, cur, docs>> /\ lost' = lost \cup {c}
    BY <1>4 DEF LoseCall, backend, job, local, storage
  <2>3. \A b \in Runs : Clean(b)' => Clean(b) /\ b # c
    BY <2>2 DEF Clean
  <2> QED
    BY <2>1, <2>2, <2>3, ServedKeeps DEF Displaced, DisplacedInv, PostedInv, Call
<1> QED
  BY <1>1, <1>2, <1>3, <1>4

\* Every step keeps what the runs of a drive are to each other.
LEMMA SoleStep ==
  ASSUME BasicInv, BasicInv', PlaceInv, StaleInv, SoleInv, [Next]_vars
  PROVE  SoleInv'
<1>. USE DEF BasicInv, PlaceInv
<1>1. SoleKind
  BY SoleKinds
<1>2. CASE Inside /\ docs' = docs
  BY <1>2, SoleInside
<1>3. ASSUME NEW w \in Workers, Inside, PostViolation(w) PROVE SoleInv'
  BY <1>3, SolePost
<1>4. ASSUME NEW d \in Drives, ClaimExpires(d) PROVE SoleInv'
  <2>1. UNCHANGED <<status, workerId, pc, by, of, main, cur, docs, lost, calls>>
    BY <1>4 DEF ClaimExpires, job, local, storage
  <2> QED
    BY <2>1, BackendKeeps DEF Leaving
<1>5. ASSUME NEW w \in Workers, Poll(w) PROVE SoleInv'
  <2>1. UNCHANGED <<pc, by, of, cur, docs, lost, calls>> /\ Requeue(Stuck)
    BY <1>5 DEF Poll, job, storage
  <2>2. \A x \in Workers : Leaving(x)' = Leaving(x)
    BY <1>5 DEF Poll, Leaving, TypeOK
  <2>3. \A d \in Stuck : d \in Drives /\ status[d] = "processing" /\ ~Busy(d)
    BY DEF Stuck, StaleInv
  <2>4. \A c \in Runs : Bound(c) => of[c] \in Drives \ Stuck
    BY <2>3, BoundUsed
  <2> QED
    BY <2>1, <2>2, <2>3, <2>4, BackendKeeps DEF Requeue
<1>6. ASSUME NEW w \in Workers, Claim(w) \/ ClaimReplyLost(w) PROVE SoleInv'
  BY <1>6, SoleClaim
<1>7. ASSUME NEW w \in Workers, Release(w) PROVE SoleInv'
  BY <1>7, SoleRelease
<1>8. ASSUME NEW c \in Runs, Complete(c), UNCHANGED <<main, cur>> PROVE SoleInv'
  BY <1>8, SoleComplete
<1>9. ASSUME NEW c \in Runs, HandleComplete(c) \/ PurgeRaw(c) \/ HandleRelease(c) \/ LoseCall(c)
      PROVE  SoleInv'
  BY <1>9, SoleServed
<1> QED
  BY <1>1, <1>2, <1>3, <1>4, <1>5, <1>6, <1>7, <1>8, <1>9 DEF SoleKind

\* At the start nobody has anything.
LEMMA SoleInit == Init => SoleInv
BY ConstantsOK DEF Init, SoleInv, AloneInv, DisplacedInv, ReleaseInv, OneInHand, DocsInv, PostedInv,
   Bound, InHand, Live, Posted, Call

\* As long as claims do not expire under a worker, of all the runs of a drive
\* one can still post, and a run that has posted keeps its drive.
THEOREM SoleCorrect == Timely /\ Spec => []SoleInv
<1> SUFFICES ASSUME Timely PROVE Spec => []SoleInv
  OBVIOUS
<1>1. BasicInv /\ BasicInv' /\ PlaceInv /\ ClaimInv /\ SoleInv /\ [Next]_vars => SoleInv'
  BY SoleStep DEF ClaimInv
<1> QED
  BY <1>1, SoleInit, PlaceCorrect, ClaimCorrect, PTL DEF Spec

\* The same violation is recorded twice only if a worker died or a call was lost.
THEOREM NoUnexplainedDuplicates == Timely /\ Spec => []DuplicatesExplained
<1>1. TypeOK /\ SoleInv => DuplicatesExplained
  <2> SUFFICES ASSUME TypeOK, SoleInv, NEW s \in docs, NEW t \in docs,
                      s # t, s[1] = t[1], s[2] = t[2]
               PROVE  \E c \in {s[3], t[3]} : ~Clean(c)
    BY DEF DuplicatesExplained, Clean
  <2>1. s[3] \in Runs /\ t[3] \in Runs /\ s[3] # t[3]
    <3>1. s \in Drives \X Viols \X Runs /\ t \in Drives \X Viols \X Runs
      BY DEF TypeOK
    <3> QED
      BY <3>1
  <2>2. Posted(s[3]) /\ Posted(t[3]) /\ of[s[3]] = of[t[3]]
    BY DEF SoleInv, DocsInv, Posted
  <2> QED
    BY <2>1, <2>2 DEF SoleInv, PostedInv
<1> QED
  BY <1>1, TypeCorrect, SoleCorrect, PTL

-----------------------------------------------------------------------------
(* Who may touch a job dir *)

\* A run whose thread still reads or writes its job dir.
NeedsDir(c) == pc[c] \in {"download", "pipeline", "submit", "upload"}

\* The steps DirInv has to distinguish: the job dirs stay, a run makes its own,
\* or a run is done with its own and removes it.
DirStays ==
    /\ dirs' = dirs
    /\ \A c \in Runs : OwnsDir(c) => OwnsDir(c)' /\ of'[c] = of[c] /\ by'[c] = by[c]
    /\ \A c \in Runs : NeedsDir(c)' => NeedsDir(c)
DirMade(c) ==
    /\ UNCHANGED <<of, by>> /\ pc' = [pc EXCEPT ![c] = "download"]
    /\ dirs' = dirs \cup {JobDir(c)}
DirGone(c) ==
    /\ UNCHANGED <<of, by>> /\ pc[c] \in {"upload", "post", "report", "tidy"}
    /\ pc' \in {[pc EXCEPT ![c] = "over"], [pc EXCEPT ![c] = "dead"]}
    /\ dirs' = Rmtree(c)
DirKind == DirStays \/ \E c \in Runs : DirMade(c) \/ DirGone(c)

\* Every step does one of these to the job dirs.
LEMMA DirKinds ==
  ASSUME TypeOK, TypeOK', RunInv, [Next]_vars
  PROVE  DirKind
<1>. USE DEF backend, storage, job, work, local
<1>1. ASSUME NEW w \in Workers, Claim(w) \/ ClaimReplyLost(w) PROVE DirStays
  <2>1. PICK c \in Runs, d \in Drives :
            /\ main[w] = "claiming" /\ pc[c] = "unused" /\ status[d] = "queued"
            /\ status' = [status EXCEPT ![d] = "processing"]
            /\ workerId' = [workerId EXCEPT ![d] = w]
            /\ of' = [of EXCEPT ![c] = d] /\ by' = [by EXCEPT ![c] = w]
            /\ pc' \in {[pc EXCEPT ![c] = "reply"], [pc EXCEPT ![c] = "lost"]}
            /\ main' \in {[main EXCEPT ![w] = "drive"], [main EXCEPT ![w] = "poll"]}
            /\ cur' \in {cur, [cur EXCEPT ![w] = c]} /\ lost \subseteq lost'
            /\ UNCHANGED <<outcome, calls, docs>>
    BY <1>1, ClaimTakes
  <2>2. dirs' = dirs
    BY <1>1 DEF Claim, ClaimReplyLost, ClaimOldest
  <2> QED
    BY <2>1, <2>2 DEF DirStays, OwnsDir, NeedsDir, TypeOK
<1>2. ASSUME NEW w \in Workers, Start(w) PROVE DirKind
  <2>1. PICK c \in Runs :
            /\ pc[c] = "reply"
            /\ \/ pc' = [pc EXCEPT ![c] = "handback"] /\ dirs' = dirs
               \/ pc' = [pc EXCEPT ![c] = "download"] /\ dirs' = dirs \cup {JobDir(c)}
    BY <1>2 DEF Start, Goto
  <2>2. UNCHANGED <<of, by>>
    BY <1>2 DEF Start
  <2>3. CASE pc' = [pc EXCEPT ![c] = "handback"] /\ dirs' = dirs
    BY <2>1, <2>2, <2>3 DEF DirKind, DirStays, OwnsDir, NeedsDir, TypeOK
  <2> QED
    BY <2>1, <2>2, <2>3 DEF DirKind, DirMade
<1>3. ASSUME NEW w \in Workers, MainTidy(w) \/ ShipTidy(w) PROVE DirKind
  BY <1>3 DEF MainTidy, ShipTidy, Tidy, Goto, DirKind, DirGone
<1>4. ASSUME NEW w \in Workers, ForcedCut(w) PROVE DirKind
  BY <1>4 DEF ForcedCut, Goto, DirKind, DirGone
<1>5. ASSUME NEW w \in Workers, Crash(w) PROVE DirStays
  BY <1>5 DEF Crash, Live, DirStays, OwnsDir, NeedsDir, TypeOK
<1>6. ASSUME NEW w \in Workers, StopNow(w) \/ ProcessFails(w) \/ Download(w) \/ Pipeline(w)
                \/ Submit(w)
      PROVE  DirStays
  BY <1>6 DEF StopNow, ProcessFails, Download, Pipeline, Submit, Settle, Goto, DirStays,
     OwnsDir, NeedsDir, TypeOK
<1>7. ASSUME NEW w \in Workers, Release(w) PROVE DirStays
  <2>1. PICK c \in Runs :
            \/ pc[c] = "abandon" /\ pc' = [pc EXCEPT ![c] = "tidy"]
            \/ pc[c] = "handback" /\ pc' = [pc EXCEPT ![c] = "over"]
    BY <1>7 DEF Release, Goto
  <2>2. UNCHANGED <<of, by, dirs>>
    BY <1>7 DEF Release
  <2> QED
    BY <2>1, <2>2 DEF DirStays, OwnsDir, NeedsDir, TypeOK
<1>8. ASSUME NEW w \in Workers, UploadClip(w) PROVE DirStays
  BY <1>8 DEF UploadClip, Goto, DirStays, OwnsDir, NeedsDir, TypeOK
<1>9. ASSUME NEW w \in Workers, PostViolation(w) PROVE DirStays
  <2>1. PICK c \in Runs : pc[c] = "post" /\ \E v \in todo[c] : PostsOne(c, v)
    BY <1>9, PostsOneAtATime
  <2>2. pc' = pc \/ pc' = [pc EXCEPT ![c] = "report"]
    BY <2>1 DEF PostsOne, Settle, Goto
  <2>3. UNCHANGED <<of, by, dirs>>
    BY <1>9 DEF PostViolation
  <2> QED
    BY <2>1, <2>2, <2>3 DEF DirStays, OwnsDir, NeedsDir, TypeOK
<1>10. ASSUME NEW w \in Workers, ShipNothing(w) \/ ShipFails(w) PROVE DirStays
  BY <1>10 DEF ShipNothing, ShipFails, Settle, Goto, DirStays, OwnsDir, NeedsDir, TypeOK
<1>11. ASSUME NEW c \in Runs, Complete(c), UNCHANGED local PROVE DirStays
  BY <1>11 DEF Complete, Goto, DirStays, OwnsDir, NeedsDir, TypeOK
<1>12. ASSUME UNCHANGED <<pc, of, by, dirs>> PROVE DirStays
  BY <1>12 DEF DirStays, OwnsDir, NeedsDir
<1>13. ASSUME NEW w \in Workers, MainComplete(w) \/ ShipComplete(w) PROVE DirStays
  BY <1>11, <1>13 DEF MainComplete, ShipComplete, Complete
<1>14. ASSUME NEW w \in Workers, Poll(w) \/ NoJobs(w) \/ LeaveLoop(w) \/ Drained(w)
                \/ RequestStop(w, "graceful") \/ RequestStop(w, "now")
       PROVE  DirStays
  BY <1>12, <1>14 DEF Poll, NoJobs, LeaveLoop, Drained, RequestStop
<1>15. ASSUME NEW c \in Runs, Handler(c) \/ LoseCall(c) PROVE DirStays
  BY <1>12, <1>15 DEF Handler, HandleComplete, PurgeRaw, HandleRelease, LoseCall
<1>16. ASSUME NEW d \in Drives, ClaimExpires(d) PROVE DirStays
  BY <1>12, <1>16 DEF ClaimExpires
<1>17. ASSUME NEW w \in Workers, ForcedDrop(w) PROVE DirStays
  BY <1>17 DEF ForcedDrop, Goto, DirStays, OwnsDir, NeedsDir, TypeOK
<1>18. CASE UNCHANGED vars
  BY <1>12, <1>18 DEF vars, DirKind
<1> QED
  BY <1>1, <1>2, <1>3, <1>4, <1>5, <1>6, <1>7, <1>8, <1>9, <1>10, <1>13, <1>14,
     <1>15, <1>16, <1>17, <1>18
     DEF Next, MainThread, ShipThread, Environment, DirKind

\* Every step keeps an owner for every job dir.
LEMMA DirStep ==
  ASSUME TypeOK, TypeOK', RunInv, DirInv, [Next]_vars
  PROVE  DirInv'
<1>1. DirKind
  BY DirKinds
<1> SUFFICES ASSUME NEW t \in dirs'
             PROVE  \E b \in Runs : OwnsDir(b)' /\ JobDir(b)' = t
  BY DEF DirInv
<1>2. CASE DirStays
  <2>1. PICK b \in Runs : OwnsDir(b) /\ JobDir(b) = t
    BY <1>2 DEF DirStays, DirInv
  <2> QED
    BY <1>2, <2>1 DEF DirStays, JobDir
<1>3. ASSUME NEW c \in Runs, DirMade(c) PROVE \E b \in Runs : OwnsDir(b)' /\ JobDir(b)' = t
  <2>1. OwnsDir(c)' /\ JobDir(c)' = JobDir(c)
    BY <1>3 DEF DirMade, OwnsDir, JobDir, TypeOK
  <2>2. CASE t \in dirs
    <3>1. PICK b \in Runs : OwnsDir(b) /\ JobDir(b) = t
      BY <2>2 DEF DirInv
    <3>2. b # c => OwnsDir(b)' /\ JobDir(b)' = t
      BY <1>3, <3>1 DEF DirMade, OwnsDir, JobDir, TypeOK
    <3> QED
      BY <2>1, <3>1, <3>2
  <2> QED
    BY <1>3, <2>1, <2>2 DEF DirMade
<1>4. ASSUME NEW c \in Runs, DirGone(c) PROVE \E b \in Runs : OwnsDir(b)' /\ JobDir(b)' = t
  <2>1. t \in dirs /\ t # JobDir(c)
    BY <1>4 DEF DirGone, Rmtree
  <2>2. PICK b \in Runs : OwnsDir(b) /\ JobDir(b) = t
    BY <2>1 DEF DirInv
  <2> QED
    BY <1>4, <2>1, <2>2 DEF DirGone, OwnsDir, JobDir, TypeOK
<1> QED
  BY <1>1, <1>2, <1>3, <1>4 DEF DirKind

\* No job dir is ever left behind but by a worker that died: the others are
\* removed by the run that made them.
THEOREM DirsAreOwned == Spec => []DirsOwned
<1>1. Init => DirInv
  BY DEF Init, DirInv
<1>2. BasicInv /\ BasicInv' /\ DirInv /\ [Next]_vars => DirInv'
  BY DirStep DEF BasicInv
<1>3. DirInv => DirsOwned
  BY DEF DirInv, DirsOwned, OwnsDir, Live
<1> QED
  BY <1>1, <1>2, <1>3, BasicCorrect, PTL DEF Spec

\* No step removes the job dir of a run that needs it, where each worker has a
\* WORK_DIR of its own and has a drive in hand once.
LEMMA JobDirStep ==
  ASSUME OwnWorkDirs, TypeOK, TypeOK', RunInv, CallUsed, AloneInv, JobDirKept, [Next]_vars
  PROVE  JobDirKept'
<1>1. DirKind
  BY DirKinds
<1> SUFFICES ASSUME NEW c \in Runs, NeedsDir(c)' PROVE JobDir(c)' \in dirs'
  BY DEF JobDirKept, NeedsDir
<1>2. CASE DirStays
  BY <1>2 DEF DirStays, NeedsDir, OwnsDir, JobDirKept, JobDir
<1>3. ASSUME NEW b \in Runs, DirMade(b) PROVE JobDir(c)' \in dirs'
  BY <1>3 DEF DirMade, NeedsDir, JobDirKept, JobDir, TypeOK
<1>4. ASSUME NEW b \in Runs, DirGone(b) PROVE JobDir(c)' \in dirs'
  <2>1. c # b /\ NeedsDir(c) /\ JobDir(c)' = JobDir(c)
    BY <1>4 DEF DirGone, NeedsDir, JobDir, TypeOK
  <2>2. Bound(b) /\ Bound(c)
    BY <1>4, <2>1 DEF DirGone, NeedsDir, Bound, Live
  <2>3. by[b] \in Workers /\ by[c] \in Workers
    BY <2>2, BoundUsed
  <2>4. JobDir(c) # JobDir(b)
    BY <2>1, <2>2, <2>3 DEF OwnWorkDirs, AloneInv, JobDir
  <2> QED
    BY <1>4, <2>1, <2>4 DEF DirGone, Rmtree, JobDirKept, NeedsDir
<1> QED
  BY <1>1, <1>2, <1>3, <1>4 DEF DirKind

\* Where each worker has a WORK_DIR of its own, the job dirs are exactly as
\* long-lived as the runs that need them.
THEOREM JobDirsAreSafe == OwnWorkDirs /\ Timely /\ Spec => []JobDirsSafe
<1> SUFFICES ASSUME OwnWorkDirs PROVE Timely /\ Spec => []JobDirsSafe
  OBVIOUS
<1>1. Init => JobDirKept
  BY DEF Init, JobDirKept
<1>2. BasicInv /\ BasicInv' /\ SoleInv /\ JobDirKept /\ [Next]_vars => JobDirKept'
  BY JobDirStep DEF BasicInv, SoleInv
<1>3. DirsOwned /\ JobDirKept <=> JobDirsSafe
  BY DEF JobDirsSafe
<1> QED
  BY <1>1, <1>2, <1>3, BasicCorrect, SoleCorrect, DirsAreOwned, PTL DEF Spec
=============================================================================
