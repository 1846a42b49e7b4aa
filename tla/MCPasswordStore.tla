---------------------------- MODULE MCPasswordStore ----------------------------
(* Instances of PasswordStore for TLC. *)
EXTENDS PasswordStore, TLC

Symmetry == Permutations(Requests) \cup Permutations(Passwords)
===============================================================================
