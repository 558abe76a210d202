--------------------------- MODULE MCTaskExecution ---------------------------
(* Instances of TaskExecution: one profile for the global roles and one for   *)
(* those of a cluster; the second content has a finding in its first cluster. *)
EXTENDS TaskExecution

MCRoute == [r \in Roles |-> IF r \in {"embedding", "organizer"} THEN "global" ELSE "cluster"]
MCNames == {"global", "cluster"}
MCInitialProfiles == [n \in MCNames |-> [model |-> "m1", remote |-> n = "cluster"]]
MCSources == {"clean", "sensitive"}
MCSensitive == [s \in MCSources |-> IF s = "sensitive" THEN {1} ELSE {}]
=============================================================================
