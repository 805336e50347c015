--------------------------- MODULE MCStopControl ---------------------------
(* Instances of StopControl for TLC: two workers and two requests, one of each level. *)
EXTENDS StopControl, TLC

CONSTANTS w1, w2, soft, hard

TwoWorkers == {w1, w2}
OneWorker  == {w1}
Nobody     == {}
SecondOne  == {w2}
Both       == {soft, hard}
Levels2    == soft :> "graceful" @@ hard :> "now"
=============================================================================
