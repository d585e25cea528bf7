---------------------------- MODULE MCNpmPackage ----------------------------
(* Instances of NpmPackage for TLC: a plain file name and one that escaping   *)
(* changes, each spelling a version; the changed name spells none.  Any       *)
(* version may be published under any of the names.                           *)
EXTENDS NpmPackage, TLC

CONSTANTS v1, v2, plain, odd, escaped

MCVersions == {v1, v2}
MCTarballs == {plain, odd}
MCNames == MCTarballs \cup {escaped}
MCEscape == plain :> plain @@ odd :> escaped
MCDerived == plain :> v1 @@ odd :> v2 @@ escaped :> None

MCSymmetry == Permutations(Publishes) \cup Permutations(Readers)
=============================================================================
