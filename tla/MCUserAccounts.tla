---------------------------- MODULE MCUserAccounts ----------------------------
(* Instances of UserAccounts for TLC. *)
EXTENDS UserAccounts, TLC

Symmetry == Permutations(Users) \cup Permutations(Memberships) \cup Permutations(Requests)
===============================================================================
