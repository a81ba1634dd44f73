----------------------- MODULE MCCheckpointRecovery -----------------------
(* TLC instance of CheckpointRecovery. *)
EXTENDS CheckpointRecovery

\* A crash and two failures, or three failures, in any order.
CrashAndFaults == {[faults |-> 2, crashes |-> 1], [faults |-> 3, crashes |-> 0]}
=============================================================================
