---------------------------- MODULE BootContract ----------------------------
(***************************************************************************)
(* What the A/B boot manager promises about the record it keeps in flash:  *)
(* a single record that changes at once, although it is two sectors erased *)
(* and programmed in turn; a candidate is tried a bounded number of times, *)
(* never more often than the record says, and becomes the active image     *)
(* only after it has run.                                                  *)
(***************************************************************************)
EXTENDS Integers

CONSTANTS Slots, NoSlot, MaxAttempts

VARIABLES active,      \* the slot the device boots
          pending,     \* the candidate, or NoSlot
          attempts,    \* boots of the candidate the record counts
          runs,        \* how often the candidate has really been started
          trial        \* the candidate is running

vars == <<active, pending, attempts, runs, trial>>

Init ==
    /\ active \in Slots /\ pending = NoSlot
    /\ attempts = 0 /\ runs = 0 /\ trial = FALSE

Offer(s) ==
    /\ ~trial /\ s # active
    /\ pending' = s /\ attempts' = 0 /\ runs' = 0
    /\ UNCHANGED <<active, trial>>

Count ==
    /\ ~trial /\ pending # NoSlot /\ attempts < MaxAttempts
    /\ attempts' = attempts + 1
    /\ UNCHANGED <<active, pending, runs, trial>>

Run ==
    /\ ~trial /\ pending # NoSlot /\ runs < attempts
    /\ runs' = runs + 1 /\ trial' = TRUE
    /\ UNCHANGED <<active, pending, attempts>>

Stop ==
    /\ trial /\ trial' = FALSE
    /\ UNCHANGED <<active, pending, attempts, runs>>

Accept ==
    /\ ~trial /\ pending # NoSlot /\ runs > 0
    /\ active' = pending
    /\ pending' = NoSlot /\ attempts' = 0 /\ runs' = 0
    /\ UNCHANGED trial

Abandon ==
    /\ ~trial /\ pending # NoSlot
    /\ pending' = NoSlot /\ attempts' = 0 /\ runs' = 0
    /\ UNCHANGED <<active, trial>>

(* The active image does not verify and there is no candidate. *)
FallBack(s) ==
    /\ ~trial /\ pending = NoSlot /\ s # active
    /\ active' = s
    /\ UNCHANGED <<pending, attempts, runs, trial>>

Next ==
    \/ \E s \in Slots : Offer(s) \/ FallBack(s)
    \/ Count \/ Run \/ Stop \/ Accept \/ Abandon

Spec == Init /\ [][Next]_vars
=============================================================================
