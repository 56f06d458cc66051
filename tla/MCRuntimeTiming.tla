-------------------------- MODULE MCRuntimeTiming --------------------------
(* The hosts of the small instances of RuntimeTiming. *)
EXTENDS RuntimeTiming

(* Deadlines: every request that starts, restarts or mutes the stream. *)
TimingOps == {"Mount", "Stream", "Rate", "Mute"}
=============================================================================
