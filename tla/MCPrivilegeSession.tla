-------------------------- MODULE MCPrivilegeSession --------------------------
(* Instances of PrivilegeSession for TLC. *)
EXTENDS PrivilegeSession, TLC

Symmetry == Permutations(Keys) \cup Permutations(Requests)
===============================================================================
