------------------------------ MODULE MCUpload ------------------------------
(***************************************************************************)
(* Upload for TLC: a session of two files (the video and one more), three    *)
(* attempts, two faults, so that two attempts can fail in any two ways and a *)
(* third one runs to its end.  A handler may outlive the call that started   *)
(* it; most of what the server promises the phone holds until one does.      *)
(***************************************************************************)
EXTENDS Upload

VARIABLE prompt  \* no handler has outlived its call so far

\* The phone gives up on a call whose handler is still running.
LeavesHandler ==
    /\ phone' = "idle"
    /\ \/ phone = "init" /\ Running(init[attempt])
       \/ phone = "complete" /\ Running(comp[attempt])

SlowInit == Init /\ prompt = TRUE
SlowNext == Next /\ prompt' = (prompt /\ ~LeavesHandler)
SlowSpec ==
    /\ SlowInit /\ [][SlowNext]_<<vars, prompt>>
    /\ WF_vars(Upload)
    /\ \A n \in Attempts : WF_vars(InitHandler(n)) /\ WF_vars(CompHandler(n))

-----------------------------------------------------------------------------
\* Until a handler outlives its call, a drive that waits for a worker has all its
\* files in R2: no complete handler queues what another attempt has yet to PUT.
QueuedHasFiles == prompt => QueuedWhole

\* Until then, what the phone may delete is safe: the drive is accepted and its
\* raw files, or the evidence made of them, are in R2.
SafeToForget == prompt => PhoneMayForget

\* Until then, an accepted drive is neither replaced nor rejected by any handler.
AcceptedForGood ==
    [][prompt' /\ St \in Accepted => drive'[1] = Id /\ drive'[2] \in Accepted]_<<vars, prompt>>

\* A driver who keeps trying gets the drive accepted, if no handler ever outlives its
\* call, unless the session expires on the phone before.
RetriesSucceed == []prompt => EventuallyAccepted
=============================================================================
