----------------------------- MODULE MCBlobFile -----------------------------
(* Instances of BlobFile for TLC: uploads, downloads, evictions and contents *)
(* are interchangeable.                                                      *)
EXTENDS BlobFile, TLC

Symmetry == Permutations(Writers) \cup Permutations(Readers) \cup Permutations(Bodies)
=============================================================================
