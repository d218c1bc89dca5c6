--------------------------- MODULE MCTaskRunner ---------------------------
(* The instances of TaskRunner that TLC checks: every bound is in the .cfg. *)
EXTENDS TaskRunner
=============================================================================
