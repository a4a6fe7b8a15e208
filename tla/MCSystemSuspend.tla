--------------------------- MODULE MCSystemSuspend ---------------------------
(* Instances of SystemSuspend for TLC. *)
EXTENDS SystemSuspend
=============================================================================
