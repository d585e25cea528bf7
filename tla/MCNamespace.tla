---------------------------- MODULE MCNamespace ----------------------------
(* Instances of Namespace for TLC: a policy that lets the one subject read,  *)
(* and one that lets it read and write.                                      *)
EXTENDS Namespace, TLC

ReadOnly == Subjects \X {"read"}
MCSpecs == {ReadOnly, Subjects \X Ops}

Symmetry == Permutations(Requests) \cup Permutations(Admins)
=============================================================================
