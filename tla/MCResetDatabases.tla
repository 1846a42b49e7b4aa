--------------------------- MODULE MCResetDatabases ---------------------------
(* Instances of ResetDatabases for TLC. *)
EXTENDS ResetDatabases
===============================================================================
