---------------------------- MODULE MCTeeStream -----------------------------
(* Instances of TeeStream for TLC.                                           *)
EXTENDS TeeStream, TLC
=============================================================================
