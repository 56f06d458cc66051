----------------------------- MODULE MCRuntime -----------------------------
(* The hosts of the small instances of Runtime. *)
EXTENDS Runtime

(* Faults: every way a stream can be stopped, one request per pass. *)
FaultOps == {"Mount", "Unmount", "Suspend", "Stream", "Mute", "Volume",
             "BootloaderArm", "UpdaterArm"}

(* Rates: the stream, its rate and its mute, two requests per pass. *)
RateOps  == {"Mount", "Stream", "Rate", "Mute"}

(* A host that only streams, for liveness. *)
LiveOps  == {"Mount", "Stream", "Mute"}
=============================================================================
