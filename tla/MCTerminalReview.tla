--------------------------- MODULE MCTerminalReview ---------------------------
(* Instances of TerminalReview: projects are interchangeable. *)
EXTENDS TerminalReview, TLC

Symmetry == Permutations(Projects)
=============================================================================
