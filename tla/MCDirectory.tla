------------------------------ MODULE MCDirectory ------------------------------
(* Instances of Directory for TLC. *)
EXTENDS Directory, TLC

Symmetry == Permutations(Names) \cup Permutations(Handlers)
===============================================================================
