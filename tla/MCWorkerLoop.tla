---------------------------- MODULE MCWorkerLoop ----------------------------
(* A few overlapping requests, two tasks for the loop. *)
EXTENDS WorkerLoop, TLC
=============================================================================
