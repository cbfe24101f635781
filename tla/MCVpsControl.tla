---------------------------- MODULE MCVpsControl ----------------------------
(* Instances of VpsControl for TLC. *)
EXTENDS VpsControl, TLC

\* VPS, addresses and tasks are interchangeable.
Symmetry == Permutations(Vps) \cup Permutations(Addr) \cup Permutations(Task)
=============================================================================
