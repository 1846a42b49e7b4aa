---------------------------- MODULE MCFcmOutbox ----------------------------
(* Instances of FcmOutbox for TLC. *)
EXTENDS FcmOutbox, TLC

Symmetry == Permutations(Tokens) \cup Permutations(Users)
=============================================================================
