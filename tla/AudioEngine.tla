---------------------------- MODULE AudioEngine ----------------------------
(***************************************************************************)
(* The audio path between the USB packets and the SAI: the ring of         *)
(* StreamBuffer, audio/audio_engine.cpp with its two DMA buffers, the DMA  *)
(* and its completion interrupt, and the calls main.cpp makes.             *)
(*                                                                         *)
(* Four parties interleave. The producer (tud_audio_rx_done_isr) pushes a  *)
(* packet in two steps, wherever TinyUSB runs it: only the guard protects  *)
(* it. The main loop calls start_silence, attach, detach and stop. The     *)
(* completion interrupt preempts the main loop unless interrupts are       *)
(* disabled, and runs to its end before the main loop goes on. The DMA     *)
(* sends one buffer at a time.                                             *)
(*                                                                         *)
(* fsl_sai_edma.c is external: a submitted transfer is in flight until it  *)
(* completes or is aborted, and submitting may fail. An abort stops the    *)
(* DMA channel first and the transmitter after it; a transfer that ends    *)
(* just as its channel is stopped still raises its interrupt.              *)
(***************************************************************************)
EXTENDS StreamBuffer

CONSTANTS
    TransferSize,     \* transfer_bytes_
    MaxPacket,        \* bound: samples of a USB packet
    MaxUnderruns      \* bound: where the model stops counting underruns

ASSUME TransferAssumption == TransferSize \in Nat \ {0} /\ MaxPacket \in Nat \ {0}
ASSUME UnderrunAssumption == MaxUnderruns \in Nat \ {0}

NoBuffer == 2
Buffers  == {0, 1}

VARIABLES
    packet,           \* the packet being pushed, <<>> when none is
    main,             \* where the main loop is inside a call
    isr,              \* where submit_silence is: "none", "fill", "copied", "submit"
    caller,           \* who called it: "start" or "interrupt"
    taken,            \* pop: how many samples it copied
    running, errors, stream, underruns,
    dmaIndex, dmaAudio,  \* the buffer filled next, and both buffers
    inFlight,         \* the buffer the DMA reads, or NoBuffer
    irq,              \* the completion interrupt is pending
    saiOn             \* the transmitter and its DMA channel are enabled

engineVars == <<running, errors, stream, underruns>>
dmaVars    == <<dmaIndex, dmaAudio, inFlight, irq, saiOn>>
vars == <<ringVars, guard, packet, main, isr, caller, taken, engineVars, dmaVars>>

Packets == UNION {[1..n -> Samples] : n \in 1..MaxPacket}

Init ==
    /\ RingInit
    /\ packet = <<>> /\ main = "idle" /\ isr = "none" /\ caller = "start" /\ taken = 0
    /\ running = FALSE /\ errors = 0 /\ stream = "none" /\ underruns = 0
    /\ dmaIndex = 0 /\ dmaAudio = [b \in Buffers |-> [i \in 1..TransferSize |-> Silence]]
    /\ inFlight = NoBuffer /\ irq = FALSE /\ saiOn = FALSE

----------------------------------------------------------------------------
(* The producer: tud_audio_rx_done_isr. A packet that does not fit is      *)
(* dropped whole.                                                          *)

BeginPush(p) ==
    /\ packet = <<>> /\ packet' = p
    /\ PushCopy(p)
    /\ UNCHANGED <<main, isr, caller, taken, engineVars, dmaVars>>

EndPush ==
    /\ packet # <<>> /\ packet' = <<>>
    /\ PushPublish(Len(packet))
    /\ UNCHANGED <<main, isr, caller, taken, engineVars, dmaVars>>

----------------------------------------------------------------------------
(* submit_silence, called by start and by the completion interrupt: the    *)
(* next buffer is filled from the ring, or with zeroes, and submitted.     *)

NextBuffer == 1 - dmaIndex
OneMoreUnderrun == IF underruns < MaxUnderruns THEN underruns + 1 ELSE underruns

(* submit_silence's first two lines and the buffer they choose. *)
FillFrom(content) ==
    /\ dmaAudio' = [dmaAudio EXCEPT ![dmaIndex] = content]
    /\ dmaIndex' = NextBuffer

FillFromRing ==
    /\ isr = "fill" /\ stream = "ring" /\ Unguarded
    /\ FillFrom(Output(TransferSize)) /\ taken' = Popped(TransferSize)
    /\ guard' = "pop" /\ isr' = "copied"
    /\ UNCHANGED <<ringVars, packet, main, caller, engineVars, inFlight, irq, saiOn>>

FinishPop ==
    /\ isr = "copied" /\ isr' = "submit"
    /\ PopPublish(taken)
    /\ underruns' = IF taken < TransferSize THEN OneMoreUnderrun ELSE underruns
    /\ UNCHANGED <<packet, main, caller, taken, running, errors, stream, dmaVars>>

(* The static ring `empty` that start_silence passes never holds anything: *)
(* popping it is an underrun, which start_silence forgets afterwards.      *)
FillSilence ==
    /\ isr = "fill" /\ stream # "ring" /\ Unguarded
    /\ FillFrom([i \in 1..TransferSize |-> Silence])
    /\ underruns' = IF stream = "empty" THEN OneMoreUnderrun ELSE underruns
    /\ isr' = "submit"
    /\ UNCHANGED <<ringVars, guard, packet, main, caller, taken, running, errors, stream,
                   inFlight, irq, saiOn>>

(* Mutant of Submit: a refused transfer is not noticed. *)
SubmitUnchecked ==
    /\ isr = "submit" /\ Unguarded /\ isr' = "none"
    /\ main' = IF caller = "start" THEN "started" ELSE main
    /\ \/ inFlight' = NextBuffer /\ saiOn' = TRUE
       \/ UNCHANGED <<inFlight, saiOn>>
    /\ UNCHANGED <<ringVars, guard, packet, caller, taken, engineVars,
                   dmaIndex, dmaAudio, irq>>

(* SAI_TransferSendEDMA; its failure ends the engine. *)
Submit ==
    /\ isr = "submit" /\ Unguarded /\ isr' = "none"
    /\ main' = IF caller = "start" THEN "started" ELSE main
    /\ \/ /\ inFlight' = NextBuffer /\ saiOn' = TRUE
          /\ UNCHANGED <<running, errors>>
       \/ /\ running' = FALSE
          /\ errors' = IF caller = "start" THEN errors ELSE errors + 1
          /\ UNCHANGED <<inFlight, saiOn>>
    /\ UNCHANGED <<ringVars, guard, packet, caller, taken, stream, underruns,
                   dmaIndex, dmaAudio, irq>>

----------------------------------------------------------------------------
(* The DMA and its interrupt. *)

Complete ==
    /\ inFlight # NoBuffer /\ inFlight' = NoBuffer
    /\ irq' = TRUE
    /\ UNCHANGED <<ringVars, guard, packet, main, isr, caller, taken, engineVars,
                   dmaIndex, dmaAudio, saiOn>>

(* Mutant of Interrupt: running_ is not looked at. *)
InterruptUnchecked ==
    /\ irq /\ Unguarded /\ isr = "none"
    /\ irq' = FALSE
    /\ isr' = "fill" /\ caller' = "interrupt"
    /\ UNCHANGED <<ringVars, guard, packet, main, taken, engineVars,
                   dmaIndex, dmaAudio, inFlight, saiOn>>

(* on_dma_complete(true): a callback of a stopped engine does nothing. *)
Interrupt ==
    /\ irq /\ Unguarded /\ isr = "none"
    /\ irq' = FALSE
    /\ IF running THEN isr' = "fill" /\ caller' = "interrupt"
       ELSE UNCHANGED <<isr, caller>>
    /\ UNCHANGED <<ringVars, guard, packet, main, taken, engineVars,
                   dmaIndex, dmaAudio, inFlight, saiOn>>

(* on_dma_complete(false). *)
InterruptError ==
    /\ irq /\ Unguarded /\ isr = "none" /\ running
    /\ irq' = FALSE
    /\ running' = FALSE /\ errors' = errors + 1
    /\ UNCHANGED <<ringVars, guard, packet, main, isr, caller, taken, stream, underruns,
                   dmaIndex, dmaAudio, inFlight, saiOn>>

----------------------------------------------------------------------------
(* The main loop, which runs only while no interrupt wants to. *)

MainRuns(at) == main = at /\ Unguarded /\ isr = "none" /\ ~irq
RingAndDma == UNCHANGED <<ringVars, guard, packet, taken, dmaIndex, dmaAudio>>

(* start_silence up to the first submit_silence: SAI_Init and EDMA_Init    *)
(* leave the transmitter off, running_ is set before anything is sent. The *)
(* loop has always stopped the engine before.                              *)
StartSilence ==
    /\ MainRuns("idle") /\ ~running
    /\ main' = "starting" /\ isr' = "fill" /\ caller' = "start"
    /\ stream' = "empty" /\ errors' = 0 /\ underruns' = 0
    /\ running' = TRUE
    /\ saiOn' = FALSE
    /\ RingAndDma /\ UNCHANGED <<inFlight, irq>>

(* ... and what follows it. *)
Started ==
    /\ MainRuns("started") /\ main' = "idle"
    /\ stream' = "none" /\ underruns' = 0
    /\ RingAndDma /\ UNCHANGED <<isr, caller, running, errors, inFlight, irq, saiOn>>

Attach ==                                   \* run_start, Prefill; a resumed stream
    /\ MainRuns("idle") /\ stream = "none"
    /\ stream' = "ring"
    /\ RingAndDma /\ UNCHANGED <<main, isr, caller, running, errors, underruns, inFlight, irq, saiOn>>

Detach ==                                   \* enter_connected_idle
    /\ MainRuns("idle") /\ running
    /\ stream' = "none" /\ main' = "clear"
    /\ RingAndDma /\ UNCHANGED <<isr, caller, running, errors, underruns, inFlight, irq, saiOn>>

(* safe_stop and begin_start: engine.stop(), stream.clear(). An engine that *)
(* already stopped itself is not touched, its transmitter stays on.         *)
Stop ==
    /\ MainRuns("idle")
    /\ running' = FALSE
    /\ main' = IF running THEN "abort" ELSE "clear"
    /\ RingAndDma /\ UNCHANGED <<isr, caller, errors, stream, underruns, inFlight, irq, saiOn>>

(* The channel of the transfer is stopped; the completion of a transfer     *)
(* that ended in this very moment is pending.                               *)
AbortTransfer ==
    /\ MainRuns("abort") /\ main' = "deinit"
    /\ inFlight' = NoBuffer
    /\ irq' \in {FALSE, inFlight # NoBuffer}
    /\ RingAndDma /\ UNCHANGED <<isr, caller, engineVars, saiOn>>

(* Mutant of DisableTransmitter: the transmitter stays on. *)
DisableNothing ==
    /\ MainRuns("deinit") /\ main' = "clear"
    /\ RingAndDma /\ UNCHANGED <<isr, caller, engineVars, inFlight, irq, saiOn>>

(* The rest of the abort, SAI_Deinit and DMAMUX_DisableChannel. *)
DisableTransmitter ==
    /\ MainRuns("deinit") /\ main' = "clear"
    /\ saiOn' = FALSE
    /\ RingAndDma /\ UNCHANGED <<isr, caller, engineVars, inFlight, irq>>

ClearRing ==
    /\ MainRuns("clear") /\ main' = "idle"
    /\ Emptied
    /\ UNCHANGED <<packet, isr, caller, taken, engineVars, dmaVars>>

----------------------------------------------------------------------------
Producer == (\E p \in Packets : BeginPush(p)) \/ EndPush
Refill   == FillFromRing \/ FinishPop \/ FillSilence \/ Submit
Dma      == Complete \/ Interrupt \/ InterruptError
Loop     == \/ StartSilence \/ Started \/ Attach \/ Detach
            \/ Stop \/ AbortTransfer \/ DisableTransmitter \/ ClearRing

Next == Producer \/ Refill \/ Dma \/ Loop

Spec == Init /\ [][Next]_vars

(* Code that began runs on, the SAI consumes what it was given, and an     *)
(* enabled interrupt is taken.                                             *)
Fairness ==
    /\ WF_vars(EndPush) /\ SF_vars(Refill)
    /\ WF_vars(Complete) /\ SF_vars(Interrupt)
    /\ WF_vars(AbortTransfer) /\ WF_vars(DisableTransmitter)

LiveSpec == Spec /\ Fairness

----------------------------------------------------------------------------
(* What must hold. *)

(* Every variable keeps its type. *)
TypeOK ==
    /\ RingTypeOK
    /\ packet \in Packets \cup {<<>>}
    /\ main \in {"idle", "starting", "started", "abort", "deinit", "clear"}
    /\ isr \in {"none", "fill", "copied", "submit"}
    /\ caller \in {"start", "interrupt"} /\ taken \in 0..TransferSize
    /\ running \in BOOLEAN /\ errors \in Nat /\ stream \in {"none", "empty", "ring"}
    /\ underruns \in 0..MaxUnderruns
    /\ dmaIndex \in Buffers
    /\ dmaAudio \in [Buffers -> [1..TransferSize -> Samples \cup {Silence}]]
    /\ inFlight \in Buffers \cup {NoBuffer} /\ irq \in BOOLEAN /\ saiOn \in BOOLEAN

(* The DMA is given one transfer at a time, and none once stop() has called *)
(* the abort: not by a completion that was pending when the engine stopped, *)
(* nor by that of a transfer that ended as it was aborted                   *)
(* (audio_engine.cpp:87-89, :125-127).                                      *)
OneTransfer ==
    /\ isr = "submit" => inFlight = NoBuffer /\ ~irq
    /\ inFlight # NoBuffer => running \/ main = "abort"

(* The transmitter runs without an engine that feeds it only after an error *)
(* ended that engine, until the next start (audio_engine.cpp:96).           *)
TransmitterFed == saiOn => running \/ main \in {"abort", "deinit"} \/ errors > 0

(* The path from the packets to the DMA. A transfer counts as sent from    *)
(* when its samples have left the ring.                                    *)
Pipe == INSTANCE SamplePipe WITH
    queued <- Held,
    sending <- IF isr = "submit" THEN dmaAudio[NextBuffer]
               ELSE IF inFlight # NoBuffer THEN dmaAudio[inFlight] ELSE <<>>

(* Every packet is accepted whole or not at all, and its samples reach the *)
(* DMA once, in order and untouched while they are sent, however pushes,   *)
(* completions, starts, stops and clears interleave.                       *)
ImplementsPipe == Pipe!Spec

(* A running engine is never left without a transfer: the chain of         *)
(* completions does not break, whatever the producer and the loop do.      *)
KeepsSending == running /\ inFlight = NoBuffer ~> inFlight # NoBuffer \/ ~running
=============================================================================
