--------------------------- MODULE MCAppProcesses ---------------------------
(* Small instances of AppProcesses for TLC *)
EXTENDS AppProcesses
=============================================================================
