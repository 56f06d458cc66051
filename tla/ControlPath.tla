---------------------------- MODULE ControlPath -----------------------------
(***************************************************************************)
(* UsbDevice and Cs4398 with the loop of platform/nxp/main.cpp between     *)
(* them: how a volume, and a request for a report, travel from a callback  *)
(* through the event queue to the registers of the DAC and back to the     *)
(* host. The stages of a start, which mute and unmute the DAC and write    *)
(* its format, are the calls they may make ("run"); module Runtime has     *)
(* them in detail. The bus may fail in any transfer.                       *)
(***************************************************************************)
EXTENDS Cs4398, UsbDevice

CONSTANT MaxElapsed        \* bound: most ticks one pass of the loop takes

ASSUME ElapsedAssumption == MaxElapsed \in Nat \ {0}

VARIABLES pc, usbReady

vars == <<pc, usbReady, dacVars, usbVars>>

Init == DacInit /\ UsbInit /\ pc = "poll" /\ usbReady = FALSE

(* The DAC is polled, and the first pass that finds it ready starts USB; an *)
(* initialization that fails is tried again.                                *)
Poll(d) ==
    /\ pc = "poll"
    /\ PollDac(d)
    /\ \/ usbReady' = usbReady
       \/ dacState' = "ReadyMuted" /\ usbReady' = TRUE
    /\ pc' = IF usbReady' THEN "task" ELSE "run"
    /\ UNCHANGED usbVars

(* tud_task: the callbacks, then the report that waited. *)
Callback ==
    /\ pc = "task"
    /\ \/ \E v \in HostVolumes : SetVolume(v)
       \/ \E k \in HostReports : AskReport(k)
    /\ UNCHANGED <<pc, usbReady, dacVars>>

HostReads == pc = "task" /\ ReadReport /\ UNCHANGED <<pc, usbReady, dacVars>>

TaskDone == pc = "task" /\ SendPending /\ pc' = "drain" /\ UNCHANGED <<usbReady, dacVars>>

Take(e) ==
    /\ pc = "drain" /\ TakeEvent /\ NextEvent.event = e
    /\ UNCHANGED <<pc, usbReady>>

(* A volume that cannot be written is a fault; the mute that safe_stop then *)
(* asks for is refused by a DAC that is not ready.                          *)
HandleVolume ==
    /\ Take("Volume")
    /\ SetAttenuation(NextEvent.value) \/ Refused
    /\ UNCHANGED <<eventTrace, pendingReport, hidBusy, asked>>

HandleReport ==
    /\ \/ Take("EventTrace") /\ SendEventTrace
       \/ \E k \in {"Diagnostics", "DmaDiagnostics"} : Take(k) /\ SendDiagnostics(k)
    /\ UNCHANGED dacVars

Drained ==
    /\ pc = "drain" /\ eventCount = 0 /\ pc' = "run"
    /\ UNCHANGED <<usbReady, dacVars, usbVars>>

(* run_start and the fault checks. *)
StageCalls ==
    /\ pc = "run" /\ usbReady
    /\ ConfigureFormat \/ \E m \in BOOLEAN : SetDacMute(m)
    /\ UNCHANGED <<pc, usbReady, usbVars>>

PassDone == pc = "run" /\ pc' = "poll" /\ UNCHANGED <<usbReady, dacVars, usbVars>>

Next ==
    \/ \E d \in 0..MaxElapsed : Poll(d)
    \/ Callback \/ HostReads \/ TaskDone
    \/ HandleVolume \/ HandleReport \/ Drained
    \/ StageCalls \/ PassDone

Spec == Init /\ [][Next]_vars

----------------------------------------------------------------------------
(* Every variable keeps its type, and the indices of the rings agree with    *)
(* their counts.                                                             *)
TypeOK ==
    /\ pc \in {"poll", "task", "drain", "run"} /\ usbReady \in BOOLEAN
    /\ dacState \in DacStates /\ wait \in Nat
    /\ commandIndex \in 0..Len(Bootstrap)
    /\ dacMuted \in BOOLEAN /\ attenuation \in LowestVolume..0
    /\ inReset \in BOOLEAN
    /\ registers \in [power : BOOLEAN, port : BOOLEAN, muted : BOOLEAN,
                      left : 0..255, right : 0..255]
    /\ events \in [0..(EventCapacity - 1) -> Records \cup {NoEvent}]
    /\ eventHistory \in [0..(HistorySize - 1) -> Records \cup {NoEvent}]
    /\ IndicesAgree
    /\ dropped \in BOOLEAN /\ volumeLost \in BOOLEAN /\ volume \in LowestHostVolume..0
    /\ {pendingReport, hidBusy, asked} \subseteq ReportRequests \cup {"None"}

(* Once the pass has drained the queue, the chip plays, on both channels, at  *)
(* the volume that GET_CUR reports, to a quarter of a dB, unless just the     *)
(* request for that volume found the queue full: the next one that finds     *)
(* room mends the loss, also one for the same volume (usb-interface.md:26-28).*)
VolumeFollowsHost ==
    pc \in {"run", "poll"} /\ usbReady /\ Ready /\ ~volumeLost =>
        /\ registers.left = registers.right
        /\ volume + 128 * registers.left \in -64..64

(* The report the host asked for last is not forgotten: it is requested in   *)
(* the queue, in the endpoint, or pending in the place of an earlier one, and *)
(* nothing is left pending once task() has seen the endpoint free            *)
(* (send_diagnostics, send_event_trace, task).                               *)
ReportNotForgotten ==
    /\ asked \in {"None", hidBusy, pendingReport} \cup {Queued[i].event : i \in DOMAIN Queued}
    /\ pc # "task" /\ pendingReport # "None" => hidBusy # "None"
=============================================================================
