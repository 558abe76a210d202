--------------------------- MODULE MCProjectJournal ---------------------------
(* Instances of ProjectJournal small enough for TLC. *)
EXTENDS ProjectJournal, TLC

CONSTANTS c1, c2, s1, s2, l1, l2, r1, t1, t2, k1, k2

MCClients == {c1, c2}
OneCluster == (t1 :> {k1})
TwoTaxonomies == (t1 :> {k1} @@ t2 :> {k1, k2})
=============================================================================
