---------------------------- MODULE MCJobScheduler ----------------------------
(* Instances of JobScheduler small enough for TLC. *)
EXTENDS JobScheduler, TLC

CONSTANTS j1, j2, a, b

OneWorkerEach == (a :> 1) @@ (b :> 1)
=============================================================================
