-------------------------- MODULE MCNodeEnrollment --------------------------
(* Instances of NodeEnrollment for TLC. *)
EXTENDS NodeEnrollment, TLC
=============================================================================
