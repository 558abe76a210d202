---------------------------- MODULE MCPublication ----------------------------
(* Compilers are alike, and so are destinations, and random names of stages. *)
EXTENDS Publication, TLC

Alike ==
    Permutations(Compilers) \cup Permutations(Destinations) \cup Permutations(StageNames)
=============================================================================
