---------------------------- MODULE MCImageStorage ----------------------------
(* Instances of ImageStorage for TLC. *)
EXTENDS ImageStorage, TLC

Symmetry == Permutations(Images) \cup Permutations(Sizes) \cup Permutations(Requests)
===============================================================================
