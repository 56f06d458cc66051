----------------------------- MODULE OutputPath -----------------------------
(***************************************************************************)
(* What the firmware promises about the analog output, whatever the host   *)
(* asks and whatever fails: the order in which the oscillator, the DAC and *)
(* the relay may be touched. Once the relay is closed nothing upstream of  *)
(* it changes before it is open again.                                     *)
(***************************************************************************)
CONSTANT Families, DefaultFamily

VARIABLES connected,   \* the relay is closed
          oscillator,  \* the selected clock family
          settled,     \* that oscillator has had its settling time
          unmuted      \* the DAC passes audio

vars == <<connected, oscillator, settled, unmuted>>

Init ==
    /\ connected = FALSE /\ settled = FALSE /\ unmuted = FALSE
    /\ oscillator = DefaultFamily

(* The safe direction is always allowed, and opens the relay with it. *)
Retreat ==
    /\ connected' = FALSE
    /\ settled' \in {settled, FALSE}
    /\ unmuted' \in {unmuted, FALSE}
    /\ UNCHANGED oscillator

Select(f) ==
    /\ ~connected /\ ~unmuted
    /\ oscillator' = f /\ settled' = FALSE
    /\ UNCHANGED <<connected, unmuted>>

Settle ==
    /\ ~connected /\ ~unmuted /\ ~settled
    /\ settled' = TRUE
    /\ UNCHANGED <<connected, oscillator, unmuted>>

Unmute ==
    /\ ~connected /\ settled /\ ~unmuted
    /\ unmuted' = TRUE
    /\ UNCHANGED <<connected, oscillator, settled>>

Connect ==
    /\ ~connected /\ settled /\ unmuted
    /\ connected' = TRUE
    /\ UNCHANGED <<oscillator, settled, unmuted>>

Next == Retreat \/ (\E f \in Families : Select(f)) \/ Settle \/ Unmute \/ Connect

Spec == Init /\ [][Next]_vars
=============================================================================
