--------------------------- MODULE MCDeviceSession ---------------------------
(* Small instances of DeviceSession for TLC *)
EXTENDS DeviceSession
=============================================================================
