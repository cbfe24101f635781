----------------------------- MODULE MCAccounts -----------------------------
(* Instances of Accounts for TLC. *)
EXTENDS Accounts, TLC

\* Users, sessions, keys and passwords are drawn by CHOOSE or named: only requests
\* are interchangeable.
Symmetry == Permutations(Task)
=============================================================================
