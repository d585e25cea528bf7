------------------------------- MODULE MCMaven -------------------------------
(* Instances of Maven for TLC.                                               *)
EXTENDS Maven, TLC

Symmetry == Permutations(Requests) \cup Permutations(Uploads) \cup Permutations(Bodies) \cup Permutations(Docs)
=============================================================================
