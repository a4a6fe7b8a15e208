------------------------------ MODULE MCAtChat ------------------------------
(* Instances of AtChat for TLC. *)
EXTENDS AtChat
=============================================================================
