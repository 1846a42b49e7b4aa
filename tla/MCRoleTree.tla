------------------------------ MODULE MCRoleTree ------------------------------
(* Instances of RoleTree for TLC. *)
EXTENDS RoleTree, TLC

Symmetry ==
  Permutations(Roles \ {Root}) \cup Permutations(Editors) \cup Permutations(Creators)
===============================================================================
