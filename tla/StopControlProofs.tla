------------------------- MODULE StopControlProofs -------------------------
(***************************************************************************)
(* Theorems about StopControl, for any number of workers, requests and      *)
(* signals.  The argument counts interrupts: each one that was sent comes   *)
(* from a key or from the watcher, and the watcher's is paid for by nudged. *)
(***************************************************************************)
EXTENDS StopControl, TLAPS

Bit(b) == IF b THEN 1 ELSE 0

\* The signals a worker counts, has pending or is about to be sent by its
\* watcher are its user's, but for one that nudged announces.
CountInv ==
    \A w \in Workers :
        signals[w] + Bit("int" \in pending[w]) + Bit("term" \in pending[w])
                + Bit(watch[w] = "interrupt")
            <= keys[w] + Bit(nudged[w])

\* The watcher interrupts for a stop-now, one interrupt at a time.
NudgeInv ==
    \A w \in Workers :
        /\ watch[w] = "nudge" => ~nudged[w] /\ fileLevel[w] = "now"
        /\ nudged[w] => fileLevel[w] = "now"

IInv == TypeOK /\ CountInv /\ NudgeInv /\ ForcedByTwo /\ AbandonedOnNow

-----------------------------------------------------------------------------
\* The initial state.
LEMMA InitIInv == Init => IInv
<1>. SUFFICES ASSUME Init PROVE IInv
  OBVIOUS
<1>. USE ConstantsOK DEF Init
<1>1. TypeOK
  BY DEF TypeOK, Levels
<1>2. CountInv
  BY DEF CountInv, Bit
<1>3. NudgeInv /\ ForcedByTwo /\ AbandonedOnNow
  BY DEF NudgeInv, ForcedByTwo, AbandonedOnNow
<1> QED
  BY <1>1, <1>2, <1>3 DEF IInv

\* What a request reads and what the watcher makes of it are levels.
LEMMA ReadLevel ==
  ASSUME TypeOK
  PROVE  /\ ReadRequest \in Levels
         /\ \A w \in Workers : /\ HigherLevel(w) \in Levels
                               /\ Rank(fileLevel[w]) <= Rank(HigherLevel(w))
                               /\ fileLevel[w] = "now" => HigherLevel(w) = "now"
  BY DEF TypeOK, ReadRequest, HigherLevel, Levels, Rank

\* A step of a request, a watcher, a main thread or a user keeps the invariant.
LEMMA NextIInv == IInv /\ [Next]_vars => IInv'
<1>. SUFFICES ASSUME IInv, [Next]_vars PROVE IInv'
  OBVIOUS
<1>. USE ConstantsOK DEF IInv
<1>1. ASSUME NEW r \in Requests, Request(r) PROVE IInv'
  <2>1. UNCHANGED <<main, control, watch, pending, keys>>
    BY <1>1 DEF Request, RequestRead, RequestOpen, RequestWrite, RequestReplace
  <2>2. TypeOK'
    <3>. USE DEF TypeOK, ReqTo, files, control
    <3>1. CASE RequestRead(r)
      BY <3>1 DEF RequestRead
    <3>2. CASE RequestOpen(r)
      BY <3>2 DEF RequestOpen
    <3>3. CASE RequestWrite(r)
      BY <3>3 DEF RequestWrite, Written
    <3>4. CASE RequestReplace(r)
      BY <3>4 DEF RequestReplace
    <3> QED
      BY <1>1, <3>1, <3>2, <3>3, <3>4 DEF Request
  <2>3. (CountInv /\ NudgeInv /\ ForcedByTwo /\ AbandonedOnNow)'
    BY <2>1 DEF CountInv, NudgeInv, ForcedByTwo, AbandonedOnNow, Level, control
  <2> QED
    BY <2>2, <2>3
<1>2. ASSUME NEW w \in Workers, WatchRead(w) PROVE IInv'
  <2>. USE <1>2, ReadLevel DEF WatchRead, WatchTo, files, requests, TypeOK
  <2>1. TypeOK'
    OBVIOUS
  <2>2. (CountInv /\ NudgeInv /\ ForcedByTwo /\ AbandonedOnNow)'
    BY DEF CountInv, NudgeInv, ForcedByTwo, AbandonedOnNow, Level, Bit
  <2> QED
    BY <2>1, <2>2
<1>3. ASSUME NEW w \in Workers, WatchCheck(w) PROVE IInv'
  <2>. USE <1>3 DEF WatchCheck, WatchTo, files, requests, control, TypeOK, Nudges
  <2>1. TypeOK'
    OBVIOUS
  <2>2. (CountInv /\ NudgeInv /\ ForcedByTwo /\ AbandonedOnNow)'
    BY DEF CountInv, NudgeInv, ForcedByTwo, AbandonedOnNow, Level, Bit
  <2> QED
    BY <2>1, <2>2
<1>4. ASSUME NEW w \in Workers, WatchNudge(w) PROVE IInv'
  <2>. USE <1>4 DEF WatchNudge, WatchTo, files, requests, TypeOK
  <2>1. TypeOK'
    OBVIOUS
  <2>2. (CountInv /\ NudgeInv /\ ForcedByTwo /\ AbandonedOnNow)'
    BY DEF CountInv, NudgeInv, ForcedByTwo, AbandonedOnNow, Level, Bit
  <2> QED
    BY <2>1, <2>2
<1>5. ASSUME NEW w \in Workers, WatchInterrupt(w) PROVE IInv'
  <2>. USE <1>5 DEF WatchInterrupt, WatchTo, files, requests, control, TypeOK
  <2>1. TypeOK'
    OBVIOUS
  <2>2. (CountInv /\ NudgeInv /\ ForcedByTwo /\ AbandonedOnNow)'
    BY DEF CountInv, NudgeInv, ForcedByTwo, AbandonedOnNow, Level, Bit
  <2> QED
    BY <2>1, <2>2
<1>6. ASSUME NEW w \in Workers, NEW sig \in {"int", "term"}, Key(w, sig) PROVE IInv'
  <2>. USE <1>6 DEF Key, files, requests, control, TypeOK
  <2>1. TypeOK'
    OBVIOUS
  <2>2. (CountInv /\ NudgeInv /\ ForcedByTwo /\ AbandonedOnNow)'
    BY DEF CountInv, NudgeInv, ForcedByTwo, AbandonedOnNow, Level, Bit
  <2> QED
    BY <2>1, <2>2
<1>7. ASSUME NEW w \in Workers, OnSignal(w) PROVE IInv'
  <2>. USE <1>7 DEF files, requests, MainTo, IsNudge
  <2>1. PICK sig \in pending[w] : pending' = [pending EXCEPT ![w] = @ \ {sig}]
    BY DEF OnSignal
  <2>. UNCHANGED <<file, tmp, content, req, holds, want, fileLevel, watch, keys, told>>
    BY DEF OnSignal
  <2>2. CASE nudged[w]
    <3>1. /\ nudged' = [nudged EXCEPT ![w] = FALSE] /\ signals' = signals
          /\ main' = IF InDrive(w) THEN [main EXCEPT ![w] = "abandon"] ELSE main
      BY <2>2 DEF OnSignal, Raised
    <3>2. TypeOK'
      BY <2>1, <3>1 DEF TypeOK
    <3>3. CountInv'
      BY <2>1, <2>2, <3>1 DEF CountInv, Bit, TypeOK
    <3>4. (NudgeInv /\ ForcedByTwo /\ AbandonedOnNow)'
      BY <2>2, <3>1 DEF NudgeInv, ForcedByTwo, AbandonedOnNow, Level, TypeOK
    <3> QED
      BY <3>2, <3>3, <3>4
  <2>3. CASE ~nudged[w]
    <3>1. /\ nudged' = nudged /\ signals' = [signals EXCEPT ![w] = @ + 1]
          /\ main' = IF InDrive(w) \/ signals[w] > 0
                     THEN [main EXCEPT ![w] = Raised(w)] ELSE main
      BY <2>3 DEF OnSignal
    <3>2. signals[w] + 1 <= keys[w]
      BY <2>1, <2>3 DEF CountInv, Bit, TypeOK
    <3>3. TypeOK'
      BY <2>1, <3>1, <3>2 DEF TypeOK, Raised
    <3>4. CountInv'
      BY <2>1, <2>3, <3>1 DEF CountInv, Bit, TypeOK
    <3>5. NudgeInv'
      BY <3>1 DEF NudgeInv
    <3>6. ForcedByTwo'
      BY <3>1, <3>2 DEF ForcedByTwo, TypeOK, Raised, InDrive
    <3>7. AbandonedOnNow'
      BY <3>1 DEF AbandonedOnNow, Level, TypeOK, Raised
    <3> QED
      BY <3>3, <3>4, <3>5, <3>6, <3>7
  <2> QED
    BY <2>2, <2>3
<1>8. ASSUME NEW w \in Workers, Install(w) PROVE IInv'
  <2>. USE <1>8 DEF Install, MainTo, requests, control, TypeOK
  <2>1. TypeOK'
    OBVIOUS
  <2>2. (CountInv /\ NudgeInv /\ ForcedByTwo /\ AbandonedOnNow)'
    BY DEF CountInv, NudgeInv, ForcedByTwo, AbandonedOnNow, Level, Bit
  <2> QED
    BY <2>1, <2>2
<1>9. ASSUME NEW w \in Workers, NEW from, NEW next, Step(w, from, next),
             next \in {"loop", "claimed", "begin", "enter", "drive", "abandon",
                       "submit", "drain", "down"},
             next = "abandon" => Level(w) = "now"
      PROVE  IInv'
  <2>. USE <1>9 DEF Step, MainTo, files, requests, control, TypeOK
  <2>1. TypeOK'
    OBVIOUS
  <2>2. (CountInv /\ NudgeInv /\ ForcedByTwo /\ AbandonedOnNow)'
    BY DEF CountInv, NudgeInv, ForcedByTwo, AbandonedOnNow, Level, Bit
  <2> QED
    BY <2>1, <2>2
<1>10. ASSUME NEW w \in Workers, Main(w) \/ DriveEnds(w) PROVE IInv'
  <2>1. CASE OnSignal(w)
    BY <2>1, <1>7
  <2>2. CASE Loop(w)
    BY <2>2, <1>9 DEF Loop
  <2>3. CASE NoJob(w)
    BY <2>3, <1>9 DEF NoJob
  <2>4. CASE Claimed(w)
    BY <2>4, <1>9 DEF Claimed
  <2>5. CASE Begin(w)
    BY <2>5, <1>9 DEF Begin
  <2>6. CASE Enter(w)
    BY <2>6, <1>9 DEF Enter, AfterEnter
  <2>7. CASE DriveEnds(w) \/ Submit(w)
    BY <2>7, <1>9 DEF DriveEnds, Submit
  <2>8. CASE Abandon(w) \/ Drained(w)
    BY <2>8, <1>9 DEF Abandon, Drained
  <2> QED
    BY <1>10, <2>1, <2>2, <2>3, <2>4, <2>5, <2>6, <2>7, <2>8 DEF Main
<1>11. CASE UNCHANGED vars
  BY <1>11 DEF vars, TypeOK, CountInv, NudgeInv, ForcedByTwo, AbandonedOnNow, Level
<1> QED
  BY <1>1, <1>2, <1>3, <1>4, <1>5, <1>6, <1>8, <1>10, <1>11 DEF Next, Watcher

\* The count of interrupts and what follows from it are invariant.
THEOREM InvCorrect == Spec => []IInv
  BY InitIInv, NextIInv, PTL DEF Spec

-----------------------------------------------------------------------------
\* Every variable keeps its type; in particular a worker counts at most one
\* signal more than its user sent.
THEOREM TypeCorrect == Spec => []TypeOK
<1>1. IInv => TypeOK
  BY DEF IInv
<1> QED
  BY <1>1, InvCorrect, PTL

\* The evidence uploads of a worker are only cut by a second signal of its user:
\* the watcher's interrupt is never taken for one.
THEOREM ForcingTakesTwo == Spec => []ForcedByTwo
<1>1. IInv => ForcedByTwo
  BY DEF IInv
<1> QED
  BY <1>1, InvCorrect, PTL

\* A drive is only abandoned by a worker that was told to stop now.
THEOREM AbandonsOnNow == Spec => []AbandonedOnNow
<1>1. IInv => AbandonedOnNow
  BY DEF IInv
<1> QED
  BY <1>1, InvCorrect, PTL

\* The level of a worker never falls, whatever becomes of the request file.
THEOREM LevelNeverFalls == Spec => LevelRises
<1>1. ASSUME TypeOK, TypeOK', [Next]_vars, NEW w \in Workers
      PROVE  Rank(Level(w)) <= Rank(Level(w)')
  <2>. USE DEF TypeOK
  <2>1. Level(w) \in Levels /\ Level(w)' \in Levels
    BY <1>1 DEF Level, Levels
  <2>2. CASE UNCHANGED <<fileLevel, signals>>
    BY <2>1, <2>2 DEF Level, Rank, Levels
  <2>3. ASSUME NEW x \in Workers, WatchRead(x) PROVE Rank(Level(w)) <= Rank(Level(w)')
    BY <1>1, <2>1, <2>3, ReadLevel DEF WatchRead, Level, Rank, Levels
  <2>4. ASSUME NEW x \in Workers, OnSignal(x) PROVE Rank(Level(w)) <= Rank(Level(w)')
    BY <1>1, <2>1, <2>4 DEF OnSignal, Level, Rank, Levels
  <2>5. \/ UNCHANGED <<fileLevel, signals>>
        \/ \E x \in Workers : WatchRead(x) \/ OnSignal(x)
    BY <1>1 DEF Next, Request, RequestRead, RequestOpen, RequestWrite, RequestReplace,
                Watcher, WatchCheck, WatchNudge, WatchInterrupt, Key, Install, Main, Step,
                Loop, NoJob, Claimed, Begin, Enter, DriveEnds, Submit, Abandon, Drained,
                control, vars
  <2> QED
    BY <2>2, <2>3, <2>4, <2>5
<1>2. TypeOK /\ TypeOK' /\ [Next]_vars =>
          [\A w \in Workers : Rank(Level(w)) <= Rank(Level(w)')]_vars
  BY <1>1
<1> QED
  BY <1>2, TypeCorrect, PTL DEF Spec, LevelRises
=============================================================================
