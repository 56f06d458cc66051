------------------------------ MODULE EventLog ------------------------------
(***************************************************************************)
(* What UsbDevice promises about the requests of the host, without rings:  *)
(* they are handled in the order in which they came, none twice, the ones  *)
(* that find the queue full are lost and counted, and the trace tells the  *)
(* last few of them, oldest first, lost ones included and requests for     *)
(* reports left out.                                                       *)
(***************************************************************************)
EXTENDS Integers, Sequences

CONSTANTS Records, ReportRequests, Capacity, HistorySize

VARIABLES queue,     \* requests not yet handled
          history,   \* the last requests of the host
          trace,     \* the history as it was when a trace was asked for
          dropped    \* whether a request was ever lost

vars == <<queue, history, trace, dropped>>

Latest(s) == IF Len(s) <= HistorySize THEN s ELSE Tail(s)

Init == queue = <<>> /\ history = <<>> /\ trace = <<>> /\ dropped = FALSE

Post(r) ==
    /\ history' = IF r.event \in ReportRequests THEN history ELSE Latest(Append(history, r))
    /\ IF Len(queue) < Capacity
       THEN queue' = Append(queue, r) /\ UNCHANGED dropped
       ELSE dropped' = TRUE /\ UNCHANGED queue
    /\ UNCHANGED trace

Take == queue # <<>> /\ queue' = Tail(queue) /\ UNCHANGED <<history, trace, dropped>>

TakeTraceRequest ==
    /\ queue # <<>> /\ Head(queue).event = "EventTrace"
    /\ queue' = Tail(queue) /\ trace' = history
    /\ UNCHANGED <<history, dropped>>

TakeOther == Take /\ Head(queue).event # "EventTrace"

Next == (\E r \in Records : Post(r)) \/ TakeTraceRequest \/ TakeOther

Spec == Init /\ [][Next]_vars
=============================================================================
