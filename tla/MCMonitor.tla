------------------------------ MODULE MCMonitor ------------------------------
(* Monitor with a few readings, for TLC. *)
EXTENDS Monitor

Online   == {}
Worn     == {"BAT_REPLACE"}
Strained == {"HE_MODE", "TEST", "OVERLOAD", "FAULT_STATE"}
Battery  == {"ON_BATTERY"}
Dying    == {"ON_BATTERY", "SHUTDOWN_IMMINENT"}

MixedReadings == {Online, Worn, Strained}
PowerReadings == {Online, Battery, Dying}
==============================================================================
