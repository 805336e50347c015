---------------------------- MODULE DriveClaims ----------------------------
(***************************************************************************)
(* What the drive queue promises, without threads, calls and clocks: one    *)
(* worker at a time holds a drive, only who still works on it settles it or *)
(* gives it back, only a drive nobody works on is reclaimed, a settled drive*)
(* stays settled, and its raw inputs go only after that.  A drive whose     *)
(* worker both reports and releases it is disputed: nothing is promised of  *)
(* it any more.  DriveQueue implements this.                                *)
(***************************************************************************)
EXTENDS Naturals

CONSTANTS
    Drives,    \* numbered in the order they were uploaded
    Workers,
    NoWorker   \* the holder of a drive nobody has claimed

VARIABLES
    state,     \* "queued", "held", "processed", "failed" or "disputed"
    holder,    \* who has the claim, or had it when the drive was settled
    working,   \* the drives somebody will still settle or give back
    raw        \* the drives whose raw inputs are all there

vars == <<state, holder, working, raw>>

Init ==
    /\ state = [d \in Drives |-> "queued"]
    /\ holder = [d \in Drives |-> NoWorker]
    /\ working = {}
    /\ raw = Drives

\* Drives are handed out in order; the worker may never learn of its drive.
Take(d, w) ==
    /\ state[d] = "queued"
    /\ \A e \in Drives : state[e] = "queued" => d <= e
    /\ state' = [state EXCEPT ![d] = "held"]
    /\ holder' = [holder EXCEPT ![d] = w]
    /\ working' \in {working, working \cup {d}}
    /\ UNCHANGED raw

Settle(d, result) ==
    /\ d \in working /\ state[d] = "held"
    /\ state' = [state EXCEPT ![d] = result]
    /\ working' = working \ {d}
    /\ UNCHANGED <<holder, raw>>

\* The drives of S are free to be taken again.
Free(S) ==
    /\ \A d \in S : state[d] = "held"
    /\ state' = [d \in Drives |-> IF d \in S THEN "queued" ELSE state[d]]
    /\ holder' = [d \in Drives |-> IF d \in S THEN NoWorker ELSE holder[d]]
    /\ UNCHANGED raw

GiveBack(d) == d \in working /\ Free({d}) /\ working' = working \ {d}

\* The watchdog frees what nobody works on any more.
Reclaim(S) == S \cap working = {} /\ Free(S) /\ UNCHANGED working

\* Workers die, or what they sent is lost: the drives stay held.
Leave ==
    /\ working' \subseteq working
    /\ UNCHANGED <<state, holder, raw>>

Dispute(S) ==
    /\ state' = [d \in Drives |-> IF d \in S THEN "disputed" ELSE state[d]]
    /\ holder' = [d \in Drives |-> IF d \in S THEN NoWorker ELSE holder[d]]
    /\ working' \subseteq working \ S
    /\ UNCHANGED raw

Purge(d) ==
    /\ state[d] \in {"processed", "disputed"}
    /\ raw' = raw \ {d}
    /\ UNCHANGED <<state, holder, working>>

Next ==
    \/ \E d \in Drives :
         \/ \E w \in Workers : Take(d, w)
         \/ Settle(d, "processed") \/ Settle(d, "failed")
         \/ GiveBack(d) \/ Purge(d)
    \/ \E S \in SUBSET Drives : Reclaim(S) \/ Dispute(S)
    \/ Leave

Spec == Init /\ [][Next]_vars
=============================================================================
