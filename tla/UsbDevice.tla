----------------------------- MODULE UsbDevice ------------------------------
(***************************************************************************)
(* The part of usb/usb_device.cpp between the host and the loop: the ring  *)
(* of events the TinyUSB callbacks post and the loop takes, the history    *)
(* the trace is made of, the volume the callbacks keep for GET_CUR, and    *)
(* the one HID report that waits for a busy endpoint. A volume stands for  *)
(* every request that the history records; module Runtime has the others.  *)
(***************************************************************************)
EXTENDS Integers, Sequences

CONSTANTS
    EventCapacity,     \* UsbDevice::event_capacity
    HistorySize,       \* the size of event_history_
    HostVolumes,       \* the volumes a host sends, any signed 16-bit values
    HostReports        \* the reports the host of an instance asks for

ASSUME UsbSizeAssumption == EventCapacity \in Nat \ {0} /\ HistorySize \in Nat \ {0}
ASSUME ReportAssumption ==
    HostReports \subseteq {"Diagnostics", "EventTrace", "DmaDiagnostics"}
ASSUME VolumeAssumption == HostVolumes \subseteq -32768..32767

VARIABLES
    events, eventRead, eventWrite, eventCount,
    eventHistory, historyWrite, historyCount,
    dropped,           \* whether dropped_events_ is not zero
    volumeLost,        \* whether the last volume found the queue full; not in the code
    volume,            \* controls_.volume_db_8_8
    eventTrace,        \* the records of event_trace_
    pendingReport,     \* pending_report_
    \* the host and the HID endpoint
    hidBusy,           \* the report the endpoint holds until the host polls it
    asked              \* the last report the host asked for and has not read

queueVars == <<events, eventRead, eventWrite, eventCount>>
historyVars == <<eventHistory, historyWrite, historyCount>>
usbVars == <<queueVars, historyVars, dropped, volumeLost, volume, eventTrace, pendingReport,
             hidBusy, asked>>

ReportRequests == {"Diagnostics", "EventTrace", "DmaDiagnostics"}
LowestHostVolume == -32512                            \* -0x7F00
HostVolume(v) == IF v > 0 THEN 0 ELSE IF v < LowestHostVolume THEN LowestHostVolume ELSE v

NoEvent == [event |-> "None", value |-> 0]
Record(e, v) == [event |-> e, value |-> v]
Records == {Record("Volume", HostVolume(v)) : v \in HostVolumes}
           \cup {Record(k, 0) : k \in HostReports}

UsbInit ==
    /\ events = [i \in 0..(EventCapacity - 1) |-> NoEvent]
    /\ eventRead = 0 /\ eventWrite = 0 /\ eventCount = 0
    /\ eventHistory = [i \in 0..(HistorySize - 1) |-> NoEvent]
    /\ historyWrite = 0 /\ historyCount = 0
    /\ dropped = FALSE /\ volumeLost = FALSE
    /\ volume = 0
    /\ eventTrace = <<>>
    /\ pendingReport = "None" /\ hidBusy = "None" /\ asked = "None"

----------------------------------------------------------------------------
(* post_event: the history first, then the queue if there is room. *)

(* Mutant of RecordHistory: requests for reports are recorded as well. *)
RecordHistoryAll(r) ==
    /\ eventHistory' = [eventHistory EXCEPT ![historyWrite] = r]
    /\ historyWrite' = (historyWrite + 1) % HistorySize
    /\ historyCount' = IF historyCount < HistorySize THEN historyCount + 1 ELSE historyCount

RecordHistory(r) ==
    IF r.event \in ReportRequests THEN UNCHANGED historyVars
    ELSE /\ eventHistory' = [eventHistory EXCEPT ![historyWrite] = r]
         /\ historyWrite' = (historyWrite + 1) % HistorySize
         /\ historyCount' = IF historyCount < HistorySize THEN historyCount + 1 ELSE historyCount

(* Mutant of PostEvent: the ring is full one event too late. *)
PostEventLate(r) ==
    /\ RecordHistory(r)
    /\ IF eventCount > EventCapacity
       THEN dropped' = TRUE /\ UNCHANGED queueVars
       ELSE /\ events' = [events EXCEPT ![eventWrite] = r]
            /\ eventWrite' = (eventWrite + 1) % EventCapacity
            /\ eventCount' = eventCount + 1
            /\ UNCHANGED <<eventRead, dropped>>

PostEvent(r) ==
    /\ RecordHistory(r)
    /\ IF eventCount = EventCapacity
       THEN dropped' = TRUE /\ UNCHANGED queueVars
       ELSE /\ events' = [events EXCEPT ![eventWrite] = r]
            /\ eventWrite' = (eventWrite + 1) % EventCapacity
            /\ eventCount' = eventCount + 1
            /\ UNCHANGED <<eventRead, dropped>>

(* take_event, when there is one. *)
NextEvent == events[eventRead]

TakeEvent ==
    /\ eventCount > 0
    /\ eventRead' = (eventRead + 1) % EventCapacity
    /\ eventCount' = eventCount - 1
    /\ UNCHANGED <<events, eventWrite, historyVars, dropped, volumeLost, volume>>

----------------------------------------------------------------------------
(* The callbacks of tud_task. *)

(* Mutant of SetVolume: a volume that GET_CUR already answers is not posted. *)
SetVolumeIfNew(v) ==
    /\ volume' = HostVolume(v)
    /\ IF volume' = volume THEN UNCHANGED <<queueVars, historyVars, dropped>>
       ELSE PostEvent(Record("Volume", volume'))
    /\ volumeLost' = (eventCount = EventCapacity)
    /\ UNCHANGED <<eventTrace, pendingReport, hidBusy, asked>>

(* SET_CUR of the volume: clamped, kept for GET_CUR, and posted. *)
SetVolume(v) ==
    /\ volume' = HostVolume(v)
    /\ PostEvent(Record("Volume", volume'))
    /\ volumeLost' = (eventCount = EventCapacity)
    /\ UNCHANGED <<eventTrace, pendingReport, hidBusy, asked>>

(* An output report asks for one of the three input reports; the host tool   *)
(* then waits for it, however long the earlier ones take.                    *)
AskReport(k) ==
    /\ PostEvent(Record(k, 0))
    /\ asked' = IF eventCount < EventCapacity THEN k ELSE asked
    /\ UNCHANGED <<volumeLost, volume, eventTrace, pendingReport, hidBusy>>

(* The host polls the interrupt endpoint; tud_task sees it empty again. *)
ReadReport ==
    /\ hidBusy # "None" /\ hidBusy' = "None"
    /\ asked' = IF asked = hidBusy THEN "None" ELSE asked
    /\ UNCHANGED <<queueVars, historyVars, dropped, volumeLost, volume, eventTrace,
                   pendingReport>>

(* Mutant of SendPending: a pending report is only looked at when another is *)
(* asked for.                                                                *)
SendPendingNever == UNCHANGED usbVars

(* The end of task(): a report that waited is sent once the endpoint is free. *)
SendPending ==
    /\ IF hidBusy = "None" /\ pendingReport # "None"
       THEN hidBusy' = pendingReport /\ pendingReport' = "None"
       ELSE UNCHANGED <<hidBusy, pendingReport>>
    /\ UNCHANGED <<queueVars, historyVars, dropped, volumeLost, volume, eventTrace, asked>>

----------------------------------------------------------------------------
(* send_diagnostics, send_event_trace and send_dma_diagnostics: a busy      *)
(* endpoint leaves the report pending, in the place of an earlier one.      *)
SendOrPend(k) ==
    IF hidBusy = "None" THEN hidBusy' = k /\ pendingReport' = "None"
    ELSE pendingReport' = k /\ UNCHANGED hidBusy

(* Mutant of Oldest: the oldest record is taken to be at the start. *)
OldestAtZero == 0

Oldest == (historyWrite + HistorySize - historyCount) % HistorySize

Trace == [i \in 1..historyCount |-> eventHistory[(Oldest + i - 1) % HistorySize]]

SendEventTrace ==
    /\ eventTrace' = Trace
    /\ SendOrPend("EventTrace")
    /\ UNCHANGED asked

SendDiagnostics(k) == SendOrPend(k) /\ UNCHANGED <<eventTrace, asked>>

----------------------------------------------------------------------------
(* The indices stay inside their arrays and agree with the counts: events   *)
(* posted minus events taken is what the ring holds.                        *)
IndicesAgree ==
    /\ eventCount \in 0..EventCapacity /\ historyCount \in 0..HistorySize
    /\ (eventRead + eventCount) % EventCapacity = eventWrite
    /\ historyCount < HistorySize => historyWrite = historyCount

(* What the ring holds, next event first. *)
Queued == [i \in 1..eventCount |-> events[(eventRead + i - 1) % EventCapacity]]

(* The rings are a queue and a history (see EventLog), however full they run. *)
Log == INSTANCE EventLog WITH
    Records <- Records, ReportRequests <- ReportRequests,
    Capacity <- EventCapacity, HistorySize <- HistorySize,
    queue <- Queued, history <- Trace, trace <- eventTrace, dropped <- dropped
ImplementsEventLog == Log!Spec
=============================================================================
