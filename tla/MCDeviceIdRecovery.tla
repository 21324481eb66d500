-------------------------- MODULE MCDeviceIdRecovery --------------------------
(* A small instance of DeviceIdRecovery: two threads subscribe. *)
EXTENDS DeviceIdRecovery
CONSTANTS s1, s2
=============================================================================
