--------------------------- MODULE MCWorkerChannel ---------------------------
(* Instances of WorkerChannel for TLC. *)
EXTENDS WorkerChannel

CONSTANTS j1, j2, j3

MCJobs2 == {j1, j2}
MCJobs3 == {j1, j2, j3}
==============================================================================
