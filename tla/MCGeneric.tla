----------------------------- MODULE MCGeneric -----------------------------
(* Instances of Generic for TLC.                                             *)
EXTENDS Generic, TLC

Symmetry == Permutations(Puts) \cup Permutations(Gets) \cup Permutations(Notes)
=============================================================================
