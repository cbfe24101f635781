------------------------------ MODULE MCBackups ------------------------------
(* Instances of Backups for TLC. *)
EXTENDS Backups, TLC

\* Rows are drawn by CHOOSE and are not interchangeable.
Symmetry == Permutations(Vps) \cup Permutations(Name) \cup Permutations(Task)
=============================================================================
