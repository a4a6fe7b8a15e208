----------------------------- MODULE MCSmsInbox -----------------------------
(* Instances of SmsInbox for TLC. *)
EXTENDS SmsInbox
=============================================================================
