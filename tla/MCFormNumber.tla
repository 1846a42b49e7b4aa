----------------------------- MODULE MCFormNumber -----------------------------
(* Instances of FormNumber for TLC. *)
EXTENDS FormNumber, TLC

Symmetry == Permutations(Calls)
===============================================================================
