----------------------------- MODULE MCAuditQueue -----------------------------
(* Instances of AuditQueue for TLC. *)
EXTENDS AuditQueue, TLC

Symmetry == Permutations(Events)
===============================================================================
