----------------------------- MODULE SamplePipe -----------------------------
(***************************************************************************)
(* What the audio path promises, without indices, buffers or interrupts:   *)
(* samples leave in the order in which whole packets were accepted, none   *)
(* is lost, repeated or torn, a transfer is padded with silence only when  *)
(* there is nothing left to send, and nothing changes a transfer once it   *)
(* was handed to the DMA.                                                  *)
(***************************************************************************)
EXTENDS Integers, Sequences

CONSTANTS Samples, Silence, Capacity, TransferSize, MaxPacket

VARIABLES queued,    \* samples accepted and not yet sent
          sending    \* the transfer the DMA works on, <<>> between two

vars == <<queued, sending>>

Packets == UNION {[1..n -> Samples] : n \in 1..MaxPacket}
Quiet(n) == [i \in 1..n |-> Silence]
Smaller(a, b) == IF a < b THEN a ELSE b

Init == queued = <<>> /\ sending = <<>>

Accept(p) ==
    /\ Len(queued) + Len(p) <= Capacity
    /\ queued' = queued \o p
    /\ UNCHANGED sending

Send ==
    /\ sending = <<>>
    /\ LET n == Smaller(Len(queued), TransferSize)
       IN /\ sending' = SubSeq(queued, 1, n) \o Quiet(TransferSize - n)
          /\ queued' = SubSeq(queued, n + 1, Len(queued))

SendSilence ==
    /\ sending = <<>> /\ sending' = Quiet(TransferSize)
    /\ UNCHANGED queued

(* A transfer ends, or is refused or aborted. *)
Sent == sending' = <<>> /\ UNCHANGED queued

Clear == queued' = <<>> /\ UNCHANGED sending

Next == (\E p \in Packets : Accept(p)) \/ Send \/ SendSilence \/ Sent \/ Clear

Spec == Init /\ [][Next]_vars
=============================================================================
