--------------------------- MODULE MCAccountLockout ---------------------------
(* Instances of AccountLockout for TLC. *)
EXTENDS AccountLockout, TLC

Symmetry == Permutations(Attempts)
===============================================================================
