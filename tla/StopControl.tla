---------------------------- MODULE StopControl ----------------------------
(***************************************************************************)
(* Stopping workers (worker_stop.py): `worker.py --stop` and `--stop-now`     *)
(* leave a request file, each worker's watcher thread reads it every second,  *)
(* and Ctrl+C and SIGTERM arrive at the main thread between two bytecodes.    *)
(* The request file is modelled down to its inode, since all requesters write *)
(* through one temporary name.  What a drive goes through is in DriveQueue;   *)
(* here it is only where its worker's main thread is when a signal comes.     *)
(***************************************************************************)
EXTENDS Naturals, FiniteSets

CONSTANTS
    Workers,   \* workers that share a STOP_FILE
    Starting,  \* those of them that are started during the behaviour
    Requests,  \* runs of worker.py --stop or --stop-now
    Wanted,    \* the level each asks for
    MaxKeys,   \* signals sent to a worker (a bound)
    NoFile     \* no such directory entry

ASSUME ConstantsOK ==
    /\ Starting \subseteq Workers
    /\ Wanted \in [Requests -> {"graceful", "now"}]
    /\ MaxKeys \in Nat
    /\ NoFile \notin Requests

VARIABLES
    file,     \* the inode STOP_FILE names, called after the request that created it
    tmp,      \* the inode STOP_FILE.tmp names
    content,  \* what each inode holds
    req,      \* where each request is
    holds,    \* the inode a request has open
    want,     \* the level it writes
    main,     \* where each worker's main thread is
    fileLevel, signals, nudged, \* the attributes of its StopControl
    watch,    \* where its watcher thread is
    pending,  \* signals sent and not yet handled
    keys,     \* signals its user has sent (history)
    told      \* workers that ran when a request was put in place (history)

files    == <<file, tmp, content>>
requests == <<req, holds, want>>
control  == <<fileLevel, signals, nudged>>
vars == <<file, tmp, content, req, holds, want, main, fileLevel, signals, nudged,
          watch, pending, keys, told>>

Levels == {"none", "graceful", "now"}
Up(w)  == main[w] \notin {"starting", "down", "cut"}

TypeOK ==
    /\ {file, tmp} \subseteq Requests \cup {NoFile}
    /\ content \in [Requests -> {"empty", "graceful", "now", "mixed"}]
    /\ req \in [Requests -> {"read", "open", "write", "replace", "done", "failed"}]
    /\ holds \in [Requests -> Requests \cup {NoFile}]
    /\ want \in [Requests -> {"graceful", "now"}]
    /\ main \in [Workers -> {"starting", "loop", "claimed", "begin", "enter", "drive",
                             "abandon", "submit", "drain", "down", "cut"}]
    /\ fileLevel \in [Workers -> Levels]
    /\ signals \in [Workers -> 0..(MaxKeys + 1)]
    /\ nudged \in [Workers -> BOOLEAN]
    /\ watch \in [Workers -> {"read", "check", "nudge", "interrupt"}]
    /\ pending \in [Workers -> SUBSET {"int", "term"}]
    /\ keys \in [Workers -> 0..MaxKeys]
    /\ told \subseteq Workers

Init ==
    /\ file = NoFile /\ tmp = NoFile /\ content = [r \in Requests |-> "empty"]
    /\ req = [r \in Requests |-> "read"] /\ holds = [r \in Requests |-> NoFile]
    /\ want = Wanted
    /\ main = [w \in Workers |-> IF w \in Starting THEN "starting" ELSE "loop"]
    /\ fileLevel = [w \in Workers |-> "none"] /\ signals = [w \in Workers |-> 0]
    /\ nudged = [w \in Workers |-> FALSE] /\ watch = [w \in Workers |-> "read"]
    /\ pending = [w \in Workers |-> {}] /\ keys = [w \in Workers |-> 0] /\ told = {}

-----------------------------------------------------------------------------
Rank(level) == [none |-> 0, graceful |-> 1, now |-> 2][level]

\* read_request: every text but "now" is graceful, an empty file too.
ReadRequest ==
    IF file = NoFile THEN "none" ELSE IF content[file] = "now" THEN "now" ELSE "graceful"

SignalOnly(w) == IF signals[w] > 0 THEN "now" ELSE "none"                        \* mutant
Level(w) == IF signals[w] > 0 THEN "now" ELSE fileLevel[w]
Requested(w) == Level(w) # "none"
InDrive(w)   == main[w] \in {"enter", "drive"}
MainTo(w, next)  == main' = [main EXCEPT ![w] = next]
WatchTo(w, next) == watch' = [watch EXCEPT ![w] = next]
ReqTo(r, next)   == req' = [req EXCEPT ![r] = next]

-----------------------------------------------------------------------------
(* request_stop *)

RequestRead(r) ==
    /\ req[r] = "read"
    /\ want' = [want EXCEPT ![r] = IF Rank(ReadRequest) > Rank(@) THEN "now" ELSE @]
    /\ ReqTo(r, "open")
    /\ UNCHANGED <<files, holds, main, control, watch, pending, keys, told>>

\* open(tmp, "w"): a new inode, or the one another request is writing, truncated.
RequestOpen(r) ==
    /\ req[r] = "open"
    /\ LET inode == IF tmp = NoFile THEN r ELSE tmp
       IN  /\ tmp' = inode
           /\ content' = [content EXCEPT ![inode] = "empty"]
           /\ holds' = [holds EXCEPT ![r] = inode]
    /\ ReqTo(r, "write")
    /\ UNCHANGED <<file, want, main, control, watch, pending, keys, told>>

\* The line reaches the inode when the file is closed, at offset 0: over the
\* longer "graceful", "now" leaves a second line.
Written(old, new) == IF new = "now" /\ old \in {"graceful", "mixed"} THEN "mixed" ELSE new

RequestWrite(r) ==
    /\ req[r] = "write"
    /\ content' = [content EXCEPT ![holds[r]] = Written(@, want[r])]
    /\ ReqTo(r, "replace")
    /\ UNCHANGED <<file, tmp, holds, want, main, control, watch, pending, keys, told>>

\* os.replace: fails when another request has already moved the file.
RequestReplace(r) ==
    /\ req[r] = "replace"
    /\ IF tmp = NoFile
       THEN ReqTo(r, "failed") /\ UNCHANGED <<file, tmp, told>>
       ELSE /\ file' = tmp /\ tmp' = NoFile
            /\ told' = told \cup {w \in Workers : Up(w)}
            /\ ReqTo(r, "done")
    /\ UNCHANGED <<content, holds, want, main, control, watch, pending, keys>>

-----------------------------------------------------------------------------
(* The watcher thread *)

AnyLevel(w) == ReadRequest                                                      \* mutant
HigherLevel(w) == IF Rank(ReadRequest) > Rank(fileLevel[w]) THEN ReadRequest ELSE fileLevel[w]

WatchRead(w) ==
    /\ Up(w) /\ watch[w] = "read"
    /\ fileLevel' = [fileLevel EXCEPT ![w] = HigherLevel(w)]
    /\ WatchTo(w, "check")
    /\ UNCHANGED <<files, requests, main, signals, nudged, pending, keys, told>>

NudgesForAny(w) == fileLevel[w] # "none" /\ signals[w] = 0 /\ InDrive(w)        \* mutant
Nudges(w) == fileLevel[w] = "now" /\ signals[w] = 0 /\ InDrive(w) /\ ~nudged[w]

WatchCheck(w) ==
    /\ Up(w) /\ watch[w] = "check"
    /\ WatchTo(w, IF Nudges(w) THEN "nudge" ELSE "read")
    /\ UNCHANGED <<files, requests, main, control, pending, keys, told>>

WatchNudge(w) ==
    /\ Up(w) /\ watch[w] = "nudge"
    /\ nudged' = [nudged EXCEPT ![w] = TRUE]
    /\ WatchTo(w, "interrupt")
    /\ UNCHANGED <<files, requests, main, fileLevel, signals, pending, keys, told>>

\* interrupt_main: simulates the arrival of SIGINT.
WatchInterrupt(w) ==
    /\ Up(w) /\ watch[w] = "interrupt"
    /\ pending' = [pending EXCEPT ![w] = @ \cup {"int"}]
    /\ WatchTo(w, "read")
    /\ UNCHANGED <<files, requests, main, control, keys, told>>

-----------------------------------------------------------------------------
(* Signals *)

\* Ctrl+C or SIGTERM; one that is already pending is not queued twice.
Key(w, sig) ==
    /\ Up(w) /\ keys[w] < MaxKeys
    /\ keys' = [keys EXCEPT ![w] = @ + 1]
    /\ pending' = [pending EXCEPT ![w] = @ \cup {sig}]
    /\ UNCHANGED <<files, requests, main, control, watch, told>>

\* KeyboardInterrupt where the main thread is.
Raised(w) == IF InDrive(w) THEN "abandon" ELSE IF main[w] = "drain" THEN "cut" ELSE "drain"

IsNeverNudge(w) == FALSE                                                        \* mutant
IsNudge(w) == nudged[w]

\* _on_signal
OnSignal(w) ==
    /\ Up(w)
    /\ \E sig \in pending[w] : pending' = [pending EXCEPT ![w] = @ \ {sig}]
    /\ IF IsNudge(w)
       THEN /\ nudged' = [nudged EXCEPT ![w] = FALSE]
            /\ IF InDrive(w) THEN MainTo(w, Raised(w)) ELSE UNCHANGED main
            /\ UNCHANGED signals
       ELSE /\ signals' = [signals EXCEPT ![w] = @ + 1]
            /\ IF InDrive(w) \/ signals[w] > 0 THEN MainTo(w, Raised(w)) ELSE UNCHANGED main
            /\ UNCHANGED nudged
    /\ UNCHANGED <<files, requests, fileLevel, watch, keys, told>>

-----------------------------------------------------------------------------
(* The main thread *)

\* install: a leftover request is removed, whoever it is for.
Install(w) ==
    /\ main[w] = "starting"
    /\ file' = NoFile
    /\ MainTo(w, "loop")
    /\ UNCHANGED <<tmp, content, requests, control, watch, pending, keys, told>>

Step(w, from, next) ==
    /\ main[w] = from /\ MainTo(w, next)
    /\ UNCHANGED <<files, requests, control, watch, pending, keys, told>>

\* The head of the loop, then claim_job.
Loop(w)    == Step(w, "loop", IF Requested(w) THEN "drain" ELSE "claimed")
NoJob(w)   == Step(w, "claimed", "loop")
\* A claimed drive is started, or handed back.
Claimed(w) == Step(w, "claimed", IF Requested(w) THEN "drain" ELSE "begin")

StartsAnyway(w) == "drive"                                                      \* mutant
AfterEnter(w) == IF Level(w) = "now" THEN "abandon" ELSE "drive"

\* drive() sets _in_drive, then looks for a stop-now that came before it did.
Begin(w)   == Step(w, "begin", "enter")
Enter(w)   == Step(w, "enter", AfterEnter(w))
DriveEnds(w) == Step(w, "drive", "submit")
Submit(w)  == Step(w, "submit", "loop")
Abandon(w) == Step(w, "abandon", "drain")
Drained(w) == Step(w, "drain", "down")

Request(r) == RequestRead(r) \/ RequestOpen(r) \/ RequestWrite(r) \/ RequestReplace(r)
Watcher(w) == WatchRead(w) \/ WatchCheck(w) \/ WatchNudge(w) \/ WatchInterrupt(w)
Main(w)    == \/ Loop(w) \/ NoJob(w) \/ Claimed(w) \/ Begin(w) \/ Enter(w) \/ Submit(w)
              \/ Abandon(w) \/ Drained(w) \/ OnSignal(w)

Next ==
    \/ \E r \in Requests : Request(r)
    \/ \E w \in Workers : \/ Watcher(w) \/ Main(w) \/ DriveEnds(w) \/ Install(w)
                          \/ Key(w, "int") \/ Key(w, "term")

Spec == Init /\ [][Next]_vars

\* Threads run and signals are delivered; a pipeline may never end.
FairSpec ==
    /\ Spec
    /\ \A r \in Requests : WF_vars(Request(r))
    /\ \A w \in Workers : WF_vars(Watcher(w)) /\ WF_vars(Main(w)) /\ WF_vars(OnSignal(w))

-----------------------------------------------------------------------------
\* Only a second signal cuts the evidence uploads short: neither a request nor a
\* first Ctrl+C does, not even together with the watcher's own interrupt.
ForcedByTwo == \A w \in Workers : main[w] = "cut" => keys[w] >= 2

\* A drive is only abandoned when a stop-now was asked for.
AbandonedOnNow == \A w \in Workers : main[w] = "abandon" => Level(w) = "now"

\* What a worker was asked is never taken back, whatever becomes of the file.
LevelRises == [][\A w \in Workers : Rank(Level(w)) <= Rank(Level(w)')]_vars

\* A stop-now gets a worker out of its drive even if the pipeline never ends.
NowInterrupts == \A w \in Workers : (Level(w) = "now" /\ main[w] = "drive") ~> main[w] # "drive"

\* A request in place reaches every worker that runs then.
RequestHeard == \A w \in Workers : w \in told ~> Requested(w) \/ ~Up(w)

\* request_stop: a pending stop-now is never downgraded (install may clear it).
NeverDowngraded == [][ReadRequest = "now" => ReadRequest' # "graceful"]_vars

\* os.replace: a worker never reads a half-written request.
NeverHalfWritten == file # NoFile => content[file] \in {"graceful", "now"}
=============================================================================
