----------------------------- MODULE RunTiming -----------------------------
(***************************************************************************)
(* The stopwatch of the online worker: timed wrappers around the functions *)
(* of the pipeline that nest like their calls, one bucket of totals for    *)
(* the start-up and one per session, the thread that ships the previous    *)
(* drive and runs timed functions too, exceptions that unwind the calls    *)
(* under way, and the table printed from a bucket. Time is a counter of    *)
(* ticks.                                                                  *)
(***************************************************************************)
EXTENDS Integers, Sequences, FiniteSets, FiniteSetsExt

CONSTANTS
    Timed,      \* the stages of this instance
    MaxClock,   \* the time at which the model stops (a bound)
    MaxSessions,
    ShipAsync,  \* drives are shipped on a thread of their own
    None

VARIABLES
    clock,
    stack,      \* the timed calls under way: [key, at]
    cur,        \* _cur: the bucket that is recorded in, 0 is the start-up
    opened,     \* the sessions so far
    began,      \* when the session under way, or the start-up, began
    totals,     \* the seconds of each stage in each bucket, None if it never ran
    walls,      \* the wall time of each bucket, None until it is closed
    failed,     \* the sessions that an exception ended
    shipping    \* when the ship thread called a timed function

vars == <<clock, stack, cur, opened, began, totals, walls, failed, shipping>>

\* The rows of the report in order, with their depth.
STAGES ==
    << <<"load.imports", 0>>, <<"load.total", 0>>, <<"load.yolo", 1>>, <<"load.lane", 1>>,
       <<"load.tire", 1>>, <<"load.plate", 1>>, <<"loop.open", 0>>, <<"loop.total", 0>>,
       <<"loop.decode", 1>>, <<"loop.yolo", 1>>, <<"loop.post", 1>>, <<"loop.lane", 1>>,
       <<"loop.flow", 1>>, <<"an.interp", 0>>, <<"an.distance", 0>>, <<"an.speed", 0>>,
       <<"an.ego", 1>>, <<"an.relevance", 1>>, <<"an.world", 1>>, <<"an.overspeed", 0>>,
       <<"an.speedlimit", 1>>, <<"an.yellow", 0>>, <<"an.crossing", 0>>, <<"an.stage2", 1>>,
       <<"an.tire", 2>>, <<"an.ycross", 0>>, <<"out.evidence", 0>>, <<"out.plate", 1>>,
       <<"out.export", 0>>, <<"out.clip", 1>>, <<"out.csv", 0>>, <<"out.plots", 0>>,
       <<"out.annotated", 0>>, <<"worker.unpack", 0>>, <<"worker.clips", 0>>,
       <<"worker.payloads", 0>>, <<"worker.download", 0>>, <<"worker.upload", 0>>,
       <<"pipeline.total", 0>> >>
Loading == {"load.imports", "load.total", "load.yolo", "load.lane", "load.tire", "load.plate"}
LoopChildren == {"loop.decode", "loop.yolo", "loop.post", "loop.lane", "loop.flow"}
Helpers == {"worker.unpack", "worker.clips", "worker.payloads", "worker.download",
            "worker.upload"}

\* What a start-up or a session runs once.
Once == {"load.total", "loop.open", "loop.total", "pipeline.total"}

\* The stage whose function calls a stage's functions, as the pipeline is written.
Caller(k) ==
    CASE k \in {"load.imports", "load.total", "pipeline.total"} \cup Helpers -> "main"
      [] k \in Loading -> "load.total"
      [] k \in LoopChildren -> "loop.total"
      [] k \in {"an.ego", "an.relevance", "an.world"} -> "an.speed"
      [] k = "an.speedlimit" -> "an.overspeed"
      [] k = "an.stage2" -> "an.crossing"
      [] k = "an.tire" -> "an.stage2"
      [] k = "out.plate" -> "out.evidence"
      [] k = "out.clip" -> "out.export"
      [] OTHER -> "pipeline.total"

Buckets == 0..MaxSessions
Plus(total, seconds) == seconds + IF total = None THEN 0 ELSE total
Add(b, k, seconds) == totals' = [totals EXCEPT ![b][k] = Plus(@, seconds)]

Init ==
    /\ clock = 0 /\ stack = <<>> /\ cur = 0 /\ opened = 0 /\ began = 0
    /\ totals = [b \in Buckets |-> [k \in Timed |-> None]]
    /\ walls = [b \in Buckets |-> None]
    /\ failed = {} /\ shipping = None

Tick ==
    /\ clock < MaxClock
    /\ clock' = clock + 1
    /\ UNCHANGED <<stack, cur, opened, began, totals, walls, failed, shipping>>

\* A timed function, or a block under measure, is entered on the thread of the timer.
Call(k) ==
    /\ Caller(k) = IF stack = <<>> THEN "main" ELSE stack[Len(stack)].key
    /\ IF k \in Loading THEN opened = 0 ELSE cur # 0
    /\ k # "worker.payloads"  \* ship's
    /\ k \in Once => totals[cur][k] = None
    /\ stack' = Append(stack, [key |-> k, at |-> clock])
    /\ UNCHANGED <<clock, cur, opened, began, totals, walls, failed, shipping>>

\* It returns.  For the frame loop this is print_time, which takes the loop's start.
Return ==
    /\ stack # <<>>
    /\ LET c == stack[Len(stack)] IN Add(cur, c.key, clock - c.at)
    /\ stack' = SubSeq(stack, 1, Len(stack) - 1)
    /\ UNCHANGED <<clock, cur, opened, began, walls, failed, shipping>>

\* session(): the first one ends the start-up.
OpenSession ==
    /\ cur = 0 /\ stack = <<>> /\ opened < MaxSessions
    /\ walls' = IF opened = 0 THEN [walls EXCEPT ![0] = clock] ELSE walls
    /\ opened' = opened + 1 /\ cur' = opened + 1
    /\ began' = clock
    /\ UNCHANGED <<clock, stack, totals, failed, shipping>>

StaysOpen == cur                                                                \* mutant
Previous == 0

CloseSession ==
    /\ cur # 0 /\ stack = <<>>
    /\ walls' = [walls EXCEPT ![cur] = clock - began]
    /\ cur' = Previous
    /\ UNCHANGED <<clock, stack, opened, began, totals, failed, shipping>>

\* What is read from processFrame's result or at print_time is lost with an exception.
InFinally(k) == k \notin {"loop.total", "loop.yolo", "loop.post"}

\* An exception, or the interrupt of a stop-now, ends every call and the session.
Raise ==
    /\ cur # 0 /\ stack # <<>>
    /\ totals' = [totals EXCEPT ![cur] = [k \in Timed |->
           IF \E i \in DOMAIN stack : stack[i].key = k /\ InFinally(k)
           THEN Plus(@[k], clock - stack[CHOOSE i \in DOMAIN stack : stack[i].key = k].at)
           ELSE @[k]]]
    /\ stack' = <<>> /\ failed' = failed \cup {cur}
    /\ walls' = [walls EXCEPT ![cur] = clock - began]
    /\ cur' = Previous
    /\ UNCHANGED <<clock, opened, began, shipping>>

\* ship() builds the payloads of a drive that was processed: on its own thread, or
\* between two sessions.
ShipBegins ==
    /\ shipping = None
    /\ \E s \in 1..opened : walls[s] # None /\ s \notin failed
    /\ ShipAsync \/ cur = 0
    /\ shipping' = clock
    /\ UNCHANGED <<clock, stack, cur, opened, began, totals, walls, failed>>

AnyThread == TRUE                                                               \* mutant
IsOwner == ~ShipAsync

\* add() drops what another thread than the timer's has measured.
ShipEnds ==
    /\ shipping # None
    /\ ShipAsync \/ cur = 0
    /\ IF IsOwner THEN Add(cur, "worker.payloads", clock - shipping) ELSE UNCHANGED totals
    /\ shipping' = None
    /\ UNCHANGED <<clock, stack, cur, opened, began, walls, failed>>

Next ==
    \/ Tick \/ Return \/ OpenSession \/ CloseSession \/ Raise
    \/ \E k \in Timed : Call(k)
    \/ ShipBegins \/ ShipEnds

Spec == Init /\ [][Next]_vars

-----------------------------------------------------------------------------
(* _rows and _print_bucket *)

Shown(b) == {k \in Timed : totals[b][k] # None}
Sum(b, ks) == MapThenSumSet(LAMBDA k : totals[b][k], ks)

\* The rest that is printed as unattributed, if there is any.
Rest(b) == walls[b] - Sum(b, Shown(b) \cap (Helpers \cup {"pipeline.total"}))

\* In a table, the rows indented under a row fit into it.
Nested(b) ==
    LET row == [k \in Timed |-> CHOOSE i \in DOMAIN STAGES : STAGES[i][1] = k]
        depth == [k \in Timed |-> STAGES[row[k]][2]]
        under(k) ==
            {c \in Shown(b) :
                /\ row[c] > row[k] /\ depth[c] = depth[k] + 1
                /\ \A d \in Shown(b) : row[d] \in (row[k] + 1)..row[c] => depth[d] > depth[k]}
    IN \A k \in Shown(b) : Sum(b, under(k)) <= totals[b][k]

\* The table of a session that went through adds up, and no session's stages take more
\* than its wall time, whatever the ship thread measures meanwhile: the walls of the
\* start-up and of the sessions do not overlap either.
TimesAddUp ==
    /\ \A s \in 1..opened : walls[s] # None =>
        /\ Rest(s) >= 0
        /\ s \notin failed => Nested(s)
    /\ LET closed == {b \in Buckets : walls[b] # None}
       IN MapThenSumSet(LAMBDA b : walls[b], closed) <= clock

\* Checked by hand: it fails for a session an exception has ended in the frame loop.
IndentedRowsInside == \A s \in 1..opened : walls[s] # None => Nested(s)

\* Checked by hand: it fails if drives are shipped on the timer's own thread.
StartUpCloses == walls[0] # None => Sum(0, Shown(0) \ {"load.yolo", "load.lane"}) <= walls[0]
=============================================================================
