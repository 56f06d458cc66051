-------------------------- MODULE MCRuntimeWindows -------------------------
(* The host of the small instance of RuntimeWindows. *)
EXTENDS RuntimeWindows

(* Two-step requests of a host that streams and overflows the queue. *)
MaintenanceOps == {"Mount", "Stream", "BootloaderArm", "UpdaterArm", "Overflow"}
=============================================================================
