----------------------------- MODULE MCSmsSender -----------------------------
(* Instances of SmsSender for TLC. *)
EXTENDS SmsSender
=============================================================================
