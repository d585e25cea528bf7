--------------------------- MODULE MCProjectPage ---------------------------
(* Instances of ProjectPage for TLC: two files of different versions.        *)
EXTENDS ProjectPage, TLC

CONSTANTS f1, f2, v1, v2

MCFiles == {f1, f2}
MCVersions == {v1, v2}
MCVersionOf == f1 :> v1 @@ f2 :> v2
=============================================================================
