--------------------------- MODULE MCLocalCompute ---------------------------
(* Instances of LocalCompute for TLC. *)
EXTENDS LocalCompute
=============================================================================
