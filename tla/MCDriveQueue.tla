---------------------------- MODULE MCDriveQueue ----------------------------
(* Instances of DriveQueue for TLC. *)
EXTENDS DriveQueue, TLC

CONSTANTS w1, w2, host

OneWorker  == {w1}
TwoWorkers == {w1, w2}
SharedDir  == [w \in Workers |-> host]   \* the workers of one host share a WORK_DIR
OwnDirs    == [w \in Workers |-> w]
FirstOne   == {w1}
Symmetry   == Permutations(Workers)      \* for the runs without liveness
=============================================================================
