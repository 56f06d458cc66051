-------------------------- MODULE AudioEngineProofs --------------------------
(***************************************************************************)
(* Proofs about AudioEngine and the ring of StreamBuffer for every size of *)
(* the ring, of a transfer and of a packet: the invariants the runs check, *)
(* and that the audio path implements SamplePipe.                          *)
(*                                                                         *)
(* They rest on one idea: whoever is in the middle of an operation leaves   *)
(* a trace in the state (the guard it holds, the packet it copies, the     *)
(* buffer it fills), and nobody else touches what that trace stands for    *)
(* before the operation ends.                                              *)
(***************************************************************************)
EXTENDS AudioEngine, SequenceTheorems, TLAPS

(* The guard is held by the one that is half way, and what it found before *)
(* still holds.                                                            *)
GuardInv ==
    /\ guard = "push" <=> packet # <<>>
    /\ guard = "pop" <=> isr = "copied"
    /\ packet # <<>> => Fits(Len(packet))
    /\ isr = "copied" => taken = Popped(TransferSize)

(* A refill runs for a running engine whose last transfer has ended and    *)
(* has been acknowledged; the first one runs before the transmitter is on. *)
EngineInv ==
    /\ isr # "none" => running /\ inFlight = NoBuffer /\ ~irq
    /\ irq => inFlight = NoBuffer
    /\ main = "starting" <=> isr # "none" /\ caller = "start"
    /\ main = "starting" => ~saiOn
    /\ inFlight # NoBuffer => running \/ main = "abort"
    /\ TransmitterFed

(* What has been copied and not yet published.                             *)
ContentInv ==
    /\ packet # <<>> =>
          \A i \in 1..Len(packet) : storage[At(writeIndex, i - 1)] = packet[i]
    /\ isr = "copied" => dmaAudio[NextBuffer] = Output(TransferSize)

IInv == TypeOK /\ RingConsistent /\ GuardInv /\ EngineInv
PInv == IInv /\ ContentInv

----------------------------------------------------------------------------
(* The ring. Every index it computes lies less than a ring's length from   *)
(* the array, where % is one subtraction.                                  *)

LEMMA AtValue ==
    ASSUME NEW base \in Int, NEW i \in Int, base + i \in (-Capacity)..(2 * Capacity - 1)
    PROVE  At(base, i) = IF base + i < 0 THEN base + i + Capacity
                         ELSE IF base + i < Capacity THEN base + i ELSE base + i - Capacity
<1>1. CASE base + i \in (-Capacity)..(-1)
  BY <1>1, CapacityAssumption, SMT DEF At
<1>2. CASE base + i \in 0..(Capacity - 1)
  BY <1>2, CapacityAssumption, SMT DEF At
<1>3. CASE base + i \in Capacity..(2 * Capacity - 1)
  BY <1>3, CapacityAssumption, SMT DEF At
<1> QED
  BY <1>1, <1>2, <1>3, CapacityAssumption

LEMMA AtCell ==
    ASSUME NEW base \in Int, NEW i \in Int
    PROVE  At(base, i) \in Cells
BY CapacityAssumption DEF At, Cells

LEMMA RingNumbers ==
    ASSUME RingTypeOK
    PROVE  /\ Capacity \in Nat /\ Capacity > 0
           /\ readIndex \in Int /\ 0 <= readIndex /\ readIndex < Capacity
           /\ writeIndex \in Int /\ 0 <= writeIndex /\ writeIndex < Capacity
           /\ used \in Int /\ 0 <= used /\ used <= Capacity
BY CapacityAssumption DEF RingTypeOK, Cells

(* Publishing what was copied keeps the indices in agreement: n samples    *)
(* that fit behind the newest, or n of the oldest taken away.              *)
LEMMA PushAgrees ==
    ASSUME RingTypeOK, RingConsistent, NEW n \in Nat, Fits(n)
    PROVE  /\ At(writeIndex, n) = At(readIndex, used + n)
           /\ used + n \in 0..Capacity
<1>1. n \in Int /\ 0 <= n /\ used + n <= Capacity /\ used + n \in Int
  BY RingNumbers DEF Fits
<1>2. At(readIndex, used) = IF readIndex + used < Capacity THEN readIndex + used
                            ELSE readIndex + used - Capacity
  BY RingNumbers, AtValue
<1>3. At(readIndex, used + n) = IF readIndex + (used + n) < Capacity THEN readIndex + (used + n)
                                ELSE readIndex + (used + n) - Capacity
  <2> DEFINE m == used + n
  <2>1. m \in Int /\ readIndex + m \in (-Capacity)..(2 * Capacity - 1) /\ readIndex + m >= 0
    BY <1>1, RingNumbers
  <2> HIDE DEF m
  <2>2. At(readIndex, m) = IF readIndex + m < Capacity THEN readIndex + m
                           ELSE readIndex + m - Capacity
    BY <2>1, RingNumbers, AtValue
  <2> QED
    BY <2>2 DEF m
<1>4. At(writeIndex, n) = IF writeIndex + n < Capacity THEN writeIndex + n
                          ELSE writeIndex + n - Capacity
  <2>1. writeIndex + n \in (-Capacity)..(2 * Capacity - 1) /\ writeIndex + n >= 0
    BY <1>1, RingNumbers
  <2> QED
    BY <1>1, <2>1, RingNumbers, AtValue
<1> QED
  BY <1>1, <1>2, <1>3, <1>4, RingNumbers DEF RingConsistent

LEMMA PopAgrees ==
    ASSUME RingTypeOK, RingConsistent, NEW n \in 0..used
    PROVE  /\ writeIndex = At(At(readIndex, n), used - n)
           /\ used - n \in 0..Capacity
<1>1. n \in Int /\ 0 <= n /\ n <= used /\ used - n \in Int
  BY RingNumbers
<1>2. At(readIndex, used) = IF readIndex + used < Capacity THEN readIndex + used
                            ELSE readIndex + used - Capacity
  BY RingNumbers, AtValue
<1> DEFINE r == At(readIndex, n)
<1>3. r = IF readIndex + n < Capacity THEN readIndex + n ELSE readIndex + n - Capacity
  BY <1>1, RingNumbers, AtValue
<1> HIDE DEF r
<1>4. r \in Int /\ 0 <= r /\ r < Capacity
  BY <1>1, <1>3, RingNumbers
<1>5. At(r, used - n) = IF r + (used - n) < Capacity THEN r + (used - n)
                        ELSE r + (used - n) - Capacity
  <2>1. r + (used - n) \in (-Capacity)..(2 * Capacity - 1) /\ r + (used - n) >= 0
    BY <1>1, <1>4, RingNumbers
  <2> QED
    BY <1>1, <1>4, <2>1, RingNumbers, AtValue
<1>6. writeIndex = At(r, used - n)
  BY <1>1, <1>2, <1>3, <1>5, RingNumbers DEF RingConsistent
<1> QED
  BY <1>1, <1>6, RingNumbers DEF r

LEMMA PoppedRange ==
    ASSUME RingTypeOK
    PROVE  Popped(TransferSize) \in 0..used /\ Popped(TransferSize) \in 0..TransferSize
BY TransferAssumption, CapacityAssumption DEF RingTypeOK, Popped

(* A packet is a sequence of at least one sample. *)
LEMMA PacketFacts ==
    ASSUME NEW p \in Packets
    PROVE  p \in Seq(Samples) /\ p # <<>> /\ Len(p) \in Nat \ {0} /\ DOMAIN p = 1..Len(p)
<1>1. PICK n \in 1..MaxPacket : p \in [1..n -> Samples]
  BY DEF Packets
<1>2. n \in Nat /\ n >= 1
  BY <1>1, TransferAssumption
<1> QED
  BY <1>1, <1>2

----------------------------------------------------------------------------
(* Types. *)

LEMMA TypePreserved ==
    ASSUME IInv, Next
    PROVE  TypeOK'
<1> USE TransferAssumption, CapacityAssumption, UnderrunAssumption
<1>1. TypeOK /\ RingTypeOK /\ RingConsistent /\ GuardInv
  BY DEF IInv, TypeOK
<1>2. ASSUME NEW p \in Packets, BeginPush(p) PROVE TypeOK'
  <2>1. storage' \in [Cells -> Samples \cup {Silence}]
    BY <1>1, <1>2, PacketFacts DEF BeginPush, PushCopy, Copied, RingTypeOK, Packets
  <2> QED
    BY <1>1, <1>2, <2>1 DEF TypeOK, RingTypeOK, BeginPush, PushCopy, engineVars, dmaVars
<1>3. CASE EndPush
  <2>1. packet # <<>> /\ Len(packet) \in Nat /\ Fits(Len(packet))
    BY <1>1, <1>3, PacketFacts DEF EndPush, GuardInv, TypeOK
  <2>2. writeIndex' \in Cells /\ used' \in 0..Capacity
    <3>1. used + Len(packet) \in 0..Capacity
      BY <1>1, <2>1, PushAgrees
    <3>2. At(writeIndex, Len(packet)) \in Cells
      BY <1>1, <2>1, AtCell, RingNumbers
    <3> QED
      BY <1>3, <3>1, <3>2 DEF EndPush, PushPublish
  <2> QED
    BY <1>1, <1>3, <2>2 DEF TypeOK, RingTypeOK, EndPush, PushPublish, engineVars, dmaVars
<1>4. CASE FillFromRing
  <2>1. \A i \in 1..TransferSize : At(readIndex, i - 1) \in Cells
    BY <1>1, AtCell, RingNumbers
  <2>2. Output(TransferSize) \in [1..TransferSize -> Samples \cup {Silence}]
    BY <1>1, <2>1 DEF Output, RingTypeOK
  <2>3. taken' \in 0..TransferSize
    BY <1>1, <1>4, PoppedRange DEF FillFromRing
  <2> QED
    BY <1>1, <1>4, <2>2, <2>3 DEF TypeOK, RingTypeOK, FillFromRing, FillFrom, NextBuffer, Buffers,
       ringVars, engineVars
<1>5. underruns \in 0..MaxUnderruns /\ OneMoreUnderrun \in 0..MaxUnderruns
  BY <1>1 DEF TypeOK, OneMoreUnderrun
<1>6. CASE FinishPop
  <2>1. taken \in 0..used
    BY <1>1, <1>6, PoppedRange DEF FinishPop, GuardInv
  <2>2. readIndex' \in Cells /\ used' \in 0..Capacity
    BY <1>1, <1>6, <2>1, AtCell, PopAgrees DEF FinishPop, PopPublish, RingTypeOK, Cells
  <2> QED
    BY <1>1, <1>5, <1>6, <2>2 DEF TypeOK, RingTypeOK, FinishPop, PopPublish, dmaVars
<1>7. CASE FillSilence
  <2>1. [i \in 1..TransferSize |-> Silence] \in [1..TransferSize -> Samples \cup {Silence}]
    OBVIOUS
  <2> QED
    BY <1>1, <1>5, <1>7, <2>1 DEF TypeOK, RingTypeOK, FillSilence, FillFrom, NextBuffer, Buffers,
       ringVars
<1>8. CASE Submit
  <2>1. NextBuffer \in Buffers /\ errors' \in Nat /\ inFlight' \in Buffers \cup {NoBuffer}
    BY <1>1, <1>8 DEF TypeOK, Submit, NextBuffer, Buffers
  <2>2. running' \in BOOLEAN /\ saiOn' \in BOOLEAN
    BY <1>1, <1>8, Zenon DEF TypeOK, Submit
  <2> QED
    BY <1>1, <1>8, <2>1, <2>2 DEF TypeOK, RingTypeOK, Submit, ringVars
<1>9. CASE Dma
  <2>1. irq' \in BOOLEAN /\ running' \in BOOLEAN
    BY <1>1, <1>9, Zenon DEF TypeOK, Dma, Complete, Interrupt, InterruptError, engineVars
  <2>4. errors' \in Nat
    BY <1>1, <1>9 DEF TypeOK, Dma, Complete, Interrupt, InterruptError, engineVars
  <2>2. isr' \in {isr, "fill"} /\ caller' \in {caller, "interrupt"} /\ inFlight' \in {inFlight, NoBuffer}
    BY <1>9 DEF Dma, Complete, Interrupt, InterruptError
  <2>3. UNCHANGED <<ringVars, guard, packet, main, taken, stream, underruns, dmaIndex, dmaAudio, saiOn>>
    BY <1>9 DEF Dma, Complete, Interrupt, InterruptError, engineVars
  <2> QED
    BY <1>1, <2>1, <2>2, <2>3, <2>4 DEF TypeOK, RingTypeOK, ringVars
<1>10. CASE ClearRing
  BY <1>1, <1>10 DEF TypeOK, RingTypeOK, ClearRing, Emptied, Cells, engineVars, dmaVars
<1>11. CASE StartSilence \/ Started \/ Attach \/ Detach \/ Stop \/ AbortTransfer
            \/ DisableTransmitter
  <2>1. /\ running' \in {running, TRUE, FALSE} /\ saiOn' \in {saiOn, FALSE}
        /\ errors' \in {errors, 0} /\ underruns' \in {underruns, 0}
        /\ stream' \in {stream, "none", "empty", "ring"}
        /\ main' \in {"idle", "starting", "started", "abort", "deinit", "clear"}
        /\ isr' \in {isr, "fill"} /\ caller' \in {caller, "start"}
        /\ inFlight' \in {inFlight, NoBuffer}
    BY <1>1, <1>11 DEF TypeOK, StartSilence, Started, Attach, Detach, Stop, AbortTransfer,
       DisableTransmitter, RingAndDma, engineVars
  <2>2. running' \in BOOLEAN /\ saiOn' \in BOOLEAN
    BY <1>1, <2>1 DEF TypeOK
  <2>4. irq' \in BOOLEAN
    BY <1>1, <1>11, Zenon DEF TypeOK, StartSilence, Started, Attach, Detach, Stop, AbortTransfer,
       DisableTransmitter
  <2>3. UNCHANGED <<ringVars, guard, packet, taken, dmaIndex, dmaAudio>>
    BY <1>11 DEF StartSilence, Started, Attach, Detach, Stop, AbortTransfer,
       DisableTransmitter, RingAndDma
  <2> QED
    BY <1>1, <2>1, <2>2, <2>3, <2>4 DEF TypeOK, RingTypeOK, ringVars
<1> QED
  BY <1>2, <1>3, <1>4, <1>6, <1>7, <1>8, <1>9, <1>10, <1>11 DEF Next, Producer, Refill, Loop

(* The indices: only a publish and a clear move them. *)
LEMMA RingPreserved ==
    ASSUME IInv, Next
    PROVE  RingConsistent'
<1>1. RingTypeOK /\ RingConsistent /\ GuardInv /\ TypeOK
  BY DEF IInv, TypeOK
<1>2. CASE EndPush
  <2>1. Len(packet) \in Nat /\ Fits(Len(packet))
    BY <1>1, <1>2, PacketFacts DEF EndPush, GuardInv, TypeOK
  <2> QED
    BY <1>1, <1>2, <2>1, PushAgrees DEF EndPush, PushPublish, RingConsistent, At
<1>3. CASE FinishPop
  <2>1. taken \in 0..used
    BY <1>1, <1>3, PoppedRange DEF FinishPop, GuardInv
  <2> QED
    BY <1>1, <1>3, <2>1, PopAgrees DEF FinishPop, PopPublish, RingConsistent, At
<1>4. CASE ClearRing
  <2>1. At(0, 0) = 0
    BY CapacityAssumption, AtValue
  <2> QED
    BY <1>4, <2>1 DEF ClearRing, Emptied, RingConsistent, At
<1>5. CASE UNCHANGED <<readIndex, writeIndex, used>>
  BY <1>1, <1>5 DEF RingConsistent, At
<1> QED
  BY <1>2, <1>3, <1>4, <1>5 DEF Next, Producer, BeginPush, PushCopy, Refill, FillFromRing,
     FillSilence, Submit, Dma, Complete, Interrupt, InterruptError, Loop, StartSilence, Started,
     Attach, Detach, Stop, AbortTransfer, DisableTransmitter, RingAndDma, ringVars

----------------------------------------------------------------------------
(* The guard, and the engine with its transfer. *)

LEMMA GuardPreserved ==
    ASSUME IInv, Next
    PROVE  GuardInv'
<1>1. RingTypeOK /\ GuardInv /\ TypeOK
  BY DEF IInv, TypeOK
<1>2. ASSUME NEW p \in Packets, BeginPush(p) PROVE GuardInv'
  <2>1. guard' = "push" /\ packet' = p /\ isr # "copied" /\ isr' = isr /\ used' = used /\ Fits(Len(p))
    BY <1>1, <1>2 DEF BeginPush, PushCopy, GuardInv, Unguarded
  <2>2. p # <<>>
    BY PacketFacts
  <2> QED
    BY <2>1, <2>2 DEF GuardInv, Fits
<1>3. CASE EndPush
  BY <1>1, <1>3 DEF EndPush, PushPublish, GuardInv
<1>4. CASE FillFromRing
  BY <1>1, <1>4 DEF FillFromRing, GuardInv, Unguarded, Popped, ringVars
<1>5. CASE FinishPop
  BY <1>1, <1>5 DEF FinishPop, PopPublish, GuardInv
<1>6. CASE ClearRing
  BY <1>1, <1>6 DEF ClearRing, MainRuns, Emptied, GuardInv, Unguarded
<1>7. CASE FillSilence \/ Submit \/ Interrupt \/ StartSilence
  <2>1. /\ guard = "none" /\ guard' = guard /\ packet' = packet /\ isr # "copied"
        /\ isr' # "copied"
    BY <1>1, <1>7 DEF FillSilence, Submit, Interrupt, StartSilence, MainRuns, RingAndDma,
       Unguarded, GuardInv
  <2> QED
    BY <1>1, <2>1 DEF GuardInv
<1>8. CASE UNCHANGED <<guard, packet, isr, taken, used>>
  BY <1>1, <1>8 DEF GuardInv, Fits, Popped
<1> QED
  BY <1>2, <1>3, <1>4, <1>5, <1>6, <1>7, <1>8 DEF Next, Producer, Refill, Dma, Complete,
     InterruptError, Loop, Started, Attach, Detach, Stop, AbortTransfer, DisableTransmitter,
     RingAndDma, ringVars

LEMMA EnginePreserved ==
    ASSUME IInv, Next
    PROVE  EngineInv'
<1>1. TypeOK /\ EngineInv /\ GuardInv /\ errors \in Nat /\ errors + 1 > 0
  BY DEF IInv, TypeOK
<1>2. CASE FillFromRing \/ FinishPop \/ FillSilence
  <2>1. isr # "none" /\ isr' # "none" /\ UNCHANGED <<caller, main, running, errors, inFlight, irq, saiOn>>
    BY <1>2 DEF FillFromRing, FinishPop, FillSilence, PopPublish, engineVars, dmaVars
  <2> QED
    BY <1>1, <2>1 DEF EngineInv, TransmitterFed
<1>3. CASE Submit
  <2>1. /\ isr' = "none" /\ irq' = irq /\ ~irq /\ running /\ caller' = caller
        /\ main' # "starting"
    BY <1>1, <1>3 DEF Submit, EngineInv, TypeOK
  <2>2. CASE inFlight' = NextBuffer /\ UNCHANGED <<running, errors>>
    BY <1>1, <2>1, <2>2 DEF EngineInv, TransmitterFed
  <2>3. CASE /\ running' = FALSE /\ UNCHANGED <<inFlight, saiOn>>
             /\ errors' = IF caller = "start" THEN errors ELSE errors + 1
    <3>1. inFlight' = NoBuffer
      BY <1>1, <1>3, <2>3 DEF Submit, EngineInv
    <3>2. saiOn' => errors' > 0
      <4>1. caller = "start" => ~saiOn
        BY <1>1, <1>3 DEF Submit, EngineInv
      <4> QED
        BY <1>1, <2>3, <4>1
    <3> QED
      BY <2>1, <3>1, <3>2 DEF EngineInv, TransmitterFed
  <2> QED
    BY <1>3, <2>2, <2>3 DEF Submit
<1>4. CASE Complete
  BY <1>1, <1>4 DEF Complete, EngineInv, TransmitterFed, engineVars
<1>5. CASE Interrupt
  BY <1>1, <1>5 DEF Interrupt, EngineInv, TransmitterFed, engineVars
<1>6. CASE InterruptError
  BY <1>1, <1>6 DEF InterruptError, EngineInv, TransmitterFed
<1>7. CASE StartSilence
  BY <1>1, <1>7 DEF StartSilence, MainRuns, EngineInv, TransmitterFed
<1>8. CASE Stop
  BY <1>1, <1>8 DEF Stop, MainRuns, EngineInv, TransmitterFed
<1>9. CASE AbortTransfer \/ DisableTransmitter
  <2>1. /\ isr = "none" /\ isr' = "none" /\ inFlight' \in {inFlight, NoBuffer}
        /\ main' \in {"deinit", "clear"} /\ ~irq
        /\ UNCHANGED <<running, errors>>
    BY <1>9 DEF AbortTransfer, DisableTransmitter, MainRuns, engineVars
  <2>2. inFlight' = NoBuffer \/ running
    BY <1>1, <1>9, <2>1 DEF AbortTransfer, DisableTransmitter, MainRuns, EngineInv
  <2>3. irq' => inFlight' = NoBuffer
    BY <1>9, <2>1 DEF AbortTransfer, DisableTransmitter
  <2>4. TransmitterFed'
    BY <1>9, <2>1 DEF AbortTransfer, DisableTransmitter, TransmitterFed
  <2> QED
    BY <2>1, <2>2, <2>3, <2>4 DEF EngineInv
<1>10. CASE Started \/ Attach \/ Detach \/ ClearRing
  BY <1>1, <1>10 DEF Started, Attach, Detach, ClearRing, MainRuns, EngineInv, TransmitterFed,
     engineVars, dmaVars
<1>11. CASE Producer
  BY <1>1, <1>11 DEF Producer, BeginPush, EndPush, EngineInv, TransmitterFed, engineVars, dmaVars
<1> QED
  BY <1>2, <1>3, <1>4, <1>5, <1>6, <1>7, <1>8, <1>9, <1>10, <1>11 DEF Next, Refill, Dma, Loop

----------------------------------------------------------------------------
(* The invariant, and the properties it carries. *)

LEMMA InitEstablishes == Init => IInv
<1> SUFFICES ASSUME Init PROVE IInv
  OBVIOUS
<1>1. 0 \in Cells /\ 0 \in 0..Capacity /\ 0 \in 0..TransferSize /\ 0 \in 0..MaxUnderruns
  BY CapacityAssumption, TransferAssumption, UnderrunAssumption DEF Cells
<1>2. TypeOK
  BY <1>1 DEF Init, RingInit, TypeOK, RingTypeOK, Buffers, NoBuffer
<1>3. RingConsistent
  <2>1. At(0, 0) = 0
    BY CapacityAssumption, AtValue
  <2> QED
    BY <2>1 DEF Init, RingInit, RingConsistent
<1>4. GuardInv /\ EngineInv
  BY DEF Init, RingInit, GuardInv, EngineInv, TransmitterFed
<1> QED
  BY <1>2, <1>3, <1>4 DEF IInv

LEMMA StepPreserves == IInv /\ [Next]_vars => IInv'
<1> SUFFICES ASSUME IInv, [Next]_vars PROVE IInv'
  OBVIOUS
<1>1. CASE Next
  BY <1>1, TypePreserved, RingPreserved, GuardPreserved, EnginePreserved DEF IInv
<1>2. CASE UNCHANGED vars
  BY <1>2 DEF vars, ringVars, engineVars, dmaVars, IInv, TypeOK, RingTypeOK, RingConsistent, At,
     GuardInv, Fits, Popped, EngineInv, TransmitterFed
<1> QED
  BY <1>1, <1>2

(* IInv holds in every reachable state, for every size of the ring, of a   *)
(* transfer and of a packet.                                               *)
THEOREM Invariance == Spec => []IInv
BY InitEstablishes, StepPreserves, PTL DEF Spec

(* Every variable keeps its type; the indices stay in the arrays.          *)
THEOREM TypeCorrect == Spec => []TypeOK
BY Invariance, PTL DEF IInv

(* The two indices and the count of the ring describe the same samples     *)
(* however the producer, the interrupt and the loop interleave             *)
(* (stream_buffer.cpp, the InterruptGuard of push, pop and clear).         *)
THEOREM RingStaysConsistent == Spec => []RingConsistent
BY Invariance, PTL DEF IInv

(* The DMA has at most one transfer, and none once stop() has aborted it,  *)
(* whichever completion is still pending then (audio_engine.cpp,           *)
(* submit_silence, stop and on_dma_complete).                              *)
THEOREM OneTransferAtATime == Spec => []OneTransfer
<1>1. IInv => OneTransfer
  BY DEF IInv, EngineInv, OneTransfer
<1> QED
  BY <1>1, Invariance, PTL

(* The transmitter is on only with an engine that feeds it, or after the   *)
(* error that ended the engine (audio_engine.cpp, stop).                   *)
THEOREM TransmitterIsFed == Spec => []TransmitterFed
<1>1. IInv => TransmitterFed
  BY DEF IInv, EngineInv
<1> QED
  BY <1>1, Invariance, PTL

----------------------------------------------------------------------------
(* What the ring holds, as a sequence. *)

Values == Samples \cup {Silence}

LEMMA HeldFacts ==
    ASSUME RingTypeOK
    PROVE  /\ Held \in Seq(Values) /\ Len(Held) = used
           /\ \A i \in 1..used : Held[i] = storage[At(readIndex, i - 1)] /\ At(readIndex, i - 1) \in Cells
<1>1. used \in Nat
  BY RingNumbers
<1>2. \A i \in 1..used : At(readIndex, i - 1) \in Cells
  BY RingNumbers, AtCell
<1>3. \A i \in 1..used : storage[At(readIndex, i - 1)] \in Values
  BY <1>2 DEF RingTypeOK, Values
<1>4. Held \in [1..used -> Values]
  BY <1>3 DEF Held
<1> QED
  BY <1>1, <1>2, <1>4 DEF Held

LEMMA HeldFrame ==
    ASSUME UNCHANGED ringVars
    PROVE  Held' = Held
BY DEF ringVars, Held, At

(* Copying a packet that fits writes cells that hold nothing yet, the      *)
(* first sample behind the newest one.                                     *)
LEMMA CopyTouchesFree ==
    ASSUME RingTypeOK, RingConsistent, NEW p \in Packets, PushCopy(p)
    PROVE  /\ Held' = Held
           /\ \A i \in 1..Len(p) : storage'[At(writeIndex, i - 1)] = p[i]
<1>1. /\ Len(p) \in Nat /\ DOMAIN p = 1..Len(p) /\ Len(p) <= Capacity - used
      /\ storage' = Copied(p) /\ UNCHANGED <<readIndex, writeIndex, used>>
  BY PacketFacts DEF PushCopy, Fits
<1>2. ASSUME NEW c \in Cells
      PROVE  storage'[c] = LET i == At(c - writeIndex, 0) + 1
                           IN IF i \in DOMAIN p THEN p[i] ELSE storage[c]
  BY <1>1 DEF Copied
<1>3. ASSUME NEW c \in Cells
      PROVE  At(c - writeIndex, 0) = IF c - writeIndex < 0 THEN c - writeIndex + Capacity
                                     ELSE c - writeIndex
  <2>1. /\ c \in Int /\ 0 <= c /\ c < Capacity /\ c - writeIndex \in Int
        /\ (c - writeIndex) + 0 \in (-Capacity)..(2 * Capacity - 1) /\ c - writeIndex < Capacity
    BY RingNumbers DEF Cells
  <2> QED
    BY <2>1, AtValue, RingNumbers
<1>4. ASSUME NEW i \in 1..used PROVE storage'[At(readIndex, i - 1)] = storage[At(readIndex, i - 1)]
  <2> DEFINE c == At(readIndex, i - 1)
  <2>1. i \in Int /\ 1 <= i /\ i <= used /\ i - 1 \in Int
    BY RingNumbers
  <2>2. c \in Cells
    BY <2>1, RingNumbers, AtCell
  <2>3. c = IF readIndex + (i - 1) < Capacity THEN readIndex + (i - 1)
            ELSE readIndex + (i - 1) - Capacity
    <3>1. readIndex + (i - 1) \in (-Capacity)..(2 * Capacity - 1) /\ readIndex + (i - 1) >= 0
      BY <2>1, RingNumbers
    <3> QED
      BY <2>1, <3>1, AtValue, RingNumbers
  <2>4. writeIndex = IF readIndex + used < Capacity THEN readIndex + used
                     ELSE readIndex + used - Capacity
    <3>1. readIndex + used \in (-Capacity)..(2 * Capacity - 1) /\ readIndex + used >= 0
      BY RingNumbers
    <3> QED
      BY <3>1, AtValue, RingNumbers DEF RingConsistent
  <2> HIDE DEF c
  <2>5. At(c - writeIndex, 0) >= Len(p)
    <3>1. At(c - writeIndex, 0) = IF c - writeIndex < 0 THEN c - writeIndex + Capacity
                                  ELSE c - writeIndex
      BY <1>3, <2>2
    <3>2. Len(p) \in Int /\ Len(p) <= Capacity - used /\ Len(p) > 0
      BY <1>1, PacketFacts
    <3>3. CASE readIndex + used < Capacity
      BY <2>1, <2>3, <2>4, <3>1, <3>2, <3>3, RingNumbers
    <3>4. CASE readIndex + used >= Capacity
      BY <2>1, <2>3, <2>4, <3>1, <3>2, <3>4, RingNumbers
    <3> QED
      BY <3>3, <3>4, RingNumbers
  <2>6. At(c - writeIndex, 0) \in Int
    BY <2>2, AtCell, RingNumbers DEF Cells
  <2>7. storage'[c] = storage[c]
    BY <1>1, <1>2, <2>2, <2>5, <2>6
  <2> QED
    BY <2>7 DEF c
<1>5. Held' = Held
  BY <1>1, <1>4 DEF Held, At
<1>6. ASSUME NEW i \in 1..Len(p) PROVE storage'[At(writeIndex, i - 1)] = p[i]
  <2> DEFINE c == At(writeIndex, i - 1)
  <2>1. i \in Int /\ 1 <= i /\ i <= Len(p) /\ i - 1 \in Int
    BY <1>1
  <2>2. c \in Cells
    BY <2>1, RingNumbers, AtCell
  <2>3. c = IF writeIndex + (i - 1) < Capacity THEN writeIndex + (i - 1)
            ELSE writeIndex + (i - 1) - Capacity
    <3>1. writeIndex + (i - 1) \in (-Capacity)..(2 * Capacity - 1) /\ writeIndex + (i - 1) >= 0
      BY <1>1, <2>1, RingNumbers
    <3> QED
      BY <2>1, <3>1, AtValue, RingNumbers
  <2> HIDE DEF c
  <2>4. At(c - writeIndex, 0) = i - 1
    <3>1. At(c - writeIndex, 0) = IF c - writeIndex < 0 THEN c - writeIndex + Capacity
                                  ELSE c - writeIndex
      BY <1>3, <2>2
    <3>2. i - 1 < Capacity
      BY <1>1, <2>1, RingNumbers
    <3> QED
      BY <2>1, <2>3, <3>1, <3>2, RingNumbers
  <2>5. storage'[c] = p[i]
    BY <1>1, <1>2, <2>1, <2>2, <2>4
  <2> QED
    BY <2>5 DEF c
<1> QED
  BY <1>5, <1>6

(* Publishing appends what was copied. *)
LEMMA PublishAppends ==
    ASSUME RingTypeOK, RingTypeOK', RingConsistent, NEW p \in Packets, Fits(Len(p)),
           PushPublish(Len(p)),
           \A i \in 1..Len(p) : storage[At(writeIndex, i - 1)] = p[i]
    PROVE  Held' = Held \o p /\ Len(Held) + Len(p) <= Capacity
<1>1. /\ Len(p) \in Nat /\ p \in Seq(Values) /\ Len(p) <= Capacity - used
      /\ used' = used + Len(p) /\ UNCHANGED <<storage, readIndex>>
  BY PacketFacts, SeqMonotonic DEF PushPublish, Fits, Values
<1>2. /\ Held \in Seq(Values) /\ Len(Held) = used
      /\ \A i \in 1..used : Held[i] = storage[At(readIndex, i - 1)]
  BY HeldFacts
<1>3. /\ Held' \in Seq(Values) /\ Len(Held') = used'
      /\ \A i \in 1..used' : Held'[i] = storage'[At(readIndex', i - 1)]
  <2>1. used' \in Nat /\ \A i \in 1..used' : At(readIndex', i - 1) \in Cells
    BY <1>1, RingNumbers, AtCell
  <2>2. Held' = [i \in 1..used' |-> storage'[At(readIndex', i - 1)]]
    BY DEF Held, At
  <2>3. \A i \in 1..used' : storage'[At(readIndex', i - 1)] \in Values
    BY <1>1, <2>1 DEF RingTypeOK, Values
  <2>4. Held' \in [1..used' -> Values]
    BY <2>2, <2>3
  <2> QED
    BY <2>1, <2>2, <2>4
<1>4. ASSUME NEW i \in 1..(used + Len(p)), ~(i <= used)
      PROVE  storage[At(readIndex, i - 1)] = p[i - used]
  <2> DEFINE n == (i - used) - 1
  <2>1. i \in Int /\ i > used /\ i <= used + Len(p) /\ used \in Int /\ Len(p) \in Int
    BY <1>1, <1>4, RingNumbers
  <2>2. n \in Nat /\ n < Len(p) /\ used + n = i - 1 /\ i - used \in 1..Len(p)
    BY <2>1
  <2>3. p[i - used] = storage[At(writeIndex, n)]
    BY <2>2
  <2> HIDE DEF n
  <2>4. Fits(n)
    BY <1>1, <2>2, RingNumbers DEF Fits
  <2>5. At(writeIndex, n) = At(readIndex, used + n)
    BY <2>2, <2>4, PushAgrees
  <2> QED
    BY <2>2, <2>3, <2>5
<1>5. ASSUME NEW i \in 1..Len(Held') PROVE Held'[i] = (Held \o p)[i]
  <2>1. (Held \o p)[i] = IF i <= used THEN Held[i] ELSE p[i - used]
    BY <1>1, <1>2, <1>3, ConcatProperties
  <2>2. Held'[i] = storage[At(readIndex, i - 1)]
    BY <1>1, <1>3 DEF At
  <2>3. i \in Int /\ 1 <= i /\ used \in Int
    BY <1>1, <1>3, RingNumbers
  <2>4. CASE i <= used
    BY <1>2, <2>1, <2>2, <2>3, <2>4
  <2>5. CASE ~(i <= used)
    BY <1>1, <1>3, <1>4, <2>1, <2>2, <2>5
  <2> QED
    BY <2>4, <2>5
<1>6. Held \o p \in Seq(Values) /\ Len(Held \o p) = used'
  BY <1>1, <1>2, ConcatProperties
<1>7. Held' = Held \o p
  BY <1>3, <1>5, <1>6, SeqEqual
<1> QED
  BY <1>1, <1>2, <1>7, RingNumbers

(* A pop takes the oldest samples, and the transfer it fills is padded     *)
(* with silence.                                                           *)
LEMMA PopTakesOldest ==
    ASSUME RingTypeOK, RingTypeOK', PopPublish(Popped(TransferSize))
    PROVE  LET n == Popped(TransferSize)
           IN /\ n = Pipe!Smaller(Len(Held), TransferSize)
              /\ Held' = SubSeq(Held, n + 1, Len(Held))
              /\ Output(TransferSize) = SubSeq(Held, 1, n) \o Pipe!Quiet(TransferSize - n)
<1> DEFINE n == Popped(TransferSize)
<1>1. /\ n \in Nat /\ n <= used /\ n <= TransferSize /\ used \in Nat /\ TransferSize \in Nat
  BY PoppedRange, RingNumbers, TransferAssumption
<1>2. n = IF TransferSize < used THEN TransferSize ELSE used
  BY DEF Popped
<1>3. /\ Held \in Seq(Values) /\ Len(Held) = used
      /\ \A i \in 1..used : Held[i] = storage[At(readIndex, i - 1)] /\ Held[i] \in Values
  BY HeldFacts, ElementOfSeq
<1>4. n = Pipe!Smaller(Len(Held), TransferSize)
  BY <1>1, <1>2, <1>3 DEF Pipe!Smaller
<1>5. /\ used' = used - n /\ readIndex' = At(readIndex, n) /\ storage' = storage
  BY DEF PopPublish
<1> HIDE DEF n
<1>6. Held' = SubSeq(Held, n + 1, Len(Held))
  <2> DEFINE t == SubSeq(Held, n + 1, used)
  <2>1. /\ t \in Seq(Values) /\ Len(t) = used - n
        /\ \A i \in 1..(used - n) : t[i] = Held[n + i]
    <3>1. \A i \in (n + 1)..used : Held[i] \in Values
      BY <1>1, <1>3
    <3>2. n + 1 \in Int /\ used \in Int /\ used - (n + 1) + 1 = used - n
          /\ (n + 1 <= used \/ used - n = 0)
      BY <1>1
    <3>3. /\ t \in Seq(Values) /\ Len(t) = IF n + 1 <= used THEN used - (n + 1) + 1 ELSE 0
          /\ \A i \in 1..(used - (n + 1) + 1) : t[i] = Held[(n + 1) + i - 1]
      BY <3>1, <3>2, SubSeqProperties
    <3>4. \A i \in 1..(used - n) : (n + 1) + i - 1 = n + i
      BY <1>1
    <3> QED
      BY <1>1, <3>2, <3>3, <3>4
  <2>2. /\ Held' \in Seq(Values) /\ Len(Held') = used - n
        /\ \A i \in 1..(used - n) : Held'[i] = storage[At(At(readIndex, n), i - 1)]
    <3> DEFINE r == At(readIndex, n)
    <3>1. r \in Int /\ readIndex' = r /\ used' = used - n /\ used - n \in Nat
      BY <1>1, <1>5, AtCell, RingNumbers DEF Cells
    <3> HIDE DEF r
    <3>2. \A i \in 1..(used - n) : At(r, i - 1) \in Cells
      BY <3>1, AtCell
    <3>3. Held' = [i \in 1..(used - n) |-> storage[At(r, i - 1)]]
      BY <1>5, <3>1 DEF Held, At
    <3>4. \A i \in 1..(used - n) : storage[At(r, i - 1)] \in Values
      BY <3>2 DEF RingTypeOK, Values
    <3>5. Held' \in [1..(used - n) -> Values]
      BY <3>3, <3>4
    <3>6. Held' \in Seq(Values) /\ Len(Held') = used - n
      BY <3>1, <3>5
    <3>7. \A i \in 1..(used - n) : Held'[i] = storage[At(r, i - 1)]
      BY <3>3
    <3> QED
      BY <3>6, <3>7 DEF r
  <2>3. ASSUME NEW i \in 1..(used - n) PROVE Held'[i] = t[i]
    <3> DEFINE r == At(readIndex, n)
               k == i - 1
               m == n + k
    <3>1. k \in Int /\ 0 <= k /\ m \in Int /\ m = n + k /\ m < used /\ n + i \in 1..used
          /\ (n + i) - 1 = m /\ 0 <= m
      BY <1>1
    <3>2. Held[n + i] = storage[At(readIndex, m)]
      BY <1>3, <3>1
    <3> HIDE DEF k, m
    <3>3. r = IF readIndex + n < Capacity THEN readIndex + n ELSE readIndex + n - Capacity
      <4>1. readIndex + n \in (-Capacity)..(2 * Capacity - 1) /\ readIndex + n >= 0
        BY <1>1, <3>1, RingNumbers
      <4> QED
        BY <1>1, <4>1, AtValue, RingNumbers
    <3>4. At(readIndex, m) = IF readIndex + m < Capacity THEN readIndex + m ELSE readIndex + m - Capacity
      <4>1. readIndex + m \in (-Capacity)..(2 * Capacity - 1) /\ readIndex + m >= 0
        BY <3>1, RingNumbers
      <4> QED
        BY <3>1, <4>1, AtValue, RingNumbers
    <3> HIDE DEF r
    <3>5. r \in Int /\ 0 <= r /\ r < Capacity
      BY <1>1, <3>1, <3>3, RingNumbers
    <3>6. At(r, k) = IF r + k < Capacity THEN r + k ELSE r + k - Capacity
      <4>1. r + k \in (-Capacity)..(2 * Capacity - 1) /\ r + k >= 0
        BY <1>1, <3>1, <3>5, RingNumbers
      <4> QED
        BY <3>1, <3>5, <4>1, AtValue, RingNumbers
    <3>7. At(r, k) = At(readIndex, m)
      BY <1>1, <3>1, <3>3, <3>4, <3>5, <3>6, RingNumbers
    <3>8. Held'[i] = storage[At(r, k)]
      BY <2>2 DEF r, k
    <3> QED
      BY <2>1, <3>2, <3>7, <3>8
  <2> HIDE DEF t
  <2>4. Held' = t
    BY <2>1, <2>2, <2>3, SeqEqual
  <2> QED
    BY <1>3, <2>4 DEF t
<1>7. Output(TransferSize) = SubSeq(Held, 1, n) \o Pipe!Quiet(TransferSize - n)
  <2> DEFINE s == SubSeq(Held, 1, n)
             q == Pipe!Quiet(TransferSize - n)
  <2>1. s \in Seq(Values) /\ Len(s) = n /\ \A i \in 1..n : s[i] = Held[i]
    <3>1. \A i \in 1..n : Held[i] \in Values
      BY <1>1, <1>3
    <3>2. /\ s \in Seq(Values) /\ Len(s) = IF 1 <= n THEN n - 1 + 1 ELSE 0
          /\ \A i \in 1..(n - 1 + 1) : s[i] = Held[1 + i - 1]
      BY <1>1, <3>1, SubSeqProperties
    <3>3. n - 1 + 1 = n /\ (1 <= n \/ n = 0) /\ \A i \in 1..n : 1 + i - 1 = i
      BY <1>1
    <3> QED
      BY <3>2, <3>3
  <2>2. q \in Seq(Values) /\ Len(q) = TransferSize - n /\ \A i \in 1..(TransferSize - n) : q[i] = Silence
    <3>1. TransferSize - n \in Nat /\ q = [i \in 1..(TransferSize - n) |-> Silence]
      BY <1>1 DEF Pipe!Quiet
    <3>2. q \in [1..(TransferSize - n) -> Values]
      BY <3>1 DEF Values
    <3> QED
      BY <3>1, <3>2
  <2> HIDE DEF s, q
  <2>3. /\ s \o q \in Seq(Values) /\ Len(s \o q) = TransferSize
        /\ \A i \in 1..TransferSize : (s \o q)[i] = IF i <= n THEN s[i] ELSE q[i - n]
    <3>1. n + (TransferSize - n) = TransferSize
      BY <1>1
    <3>2. /\ s \o q \in Seq(Values) /\ Len(s \o q) = Len(s) + Len(q)
          /\ \A i \in 1..(Len(s) + Len(q)) :
                (s \o q)[i] = IF i <= Len(s) THEN s[i] ELSE q[i - Len(s)]
      BY <2>1, <2>2, ConcatProperties
    <3> QED
      BY <2>1, <2>2, <3>1, <3>2
  <2>4. ASSUME NEW i \in 1..TransferSize
        PROVE  Output(TransferSize)[i] = IF i <= n THEN Held[i] ELSE Silence
    BY <1>1, <1>3 DEF Output, n
  <2>5. ASSUME NEW i \in 1..TransferSize PROVE Output(TransferSize)[i] = (s \o q)[i]
    <3>1. CASE i <= n
      BY <1>1, <2>1, <2>3, <2>4, <3>1
    <3>2. CASE ~(i <= n)
      <4>1. i - n \in 1..(TransferSize - n)
        BY <1>1, <3>2
      <4> QED
        BY <2>2, <2>3, <2>4, <3>2, <4>1
    <3> QED
      BY <3>1, <3>2
  <2>6. Output(TransferSize) \in Seq(Values) /\ Len(Output(TransferSize)) = TransferSize
    <3>1. \A i \in 1..TransferSize : Output(TransferSize)[i] \in Values
      BY <1>1, <1>3, <2>4 DEF Values
    <3>2. Output(TransferSize) \in [1..TransferSize -> Values]
      BY <3>1 DEF Output
    <3> QED
      BY <1>1, <3>2
  <2>7. Output(TransferSize) = s \o q
    BY <2>3, <2>5, <2>6, SeqEqual
  <2> QED
    BY <2>7 DEF s, q
<1> QED
  BY <1>4, <1>6, <1>7 DEF n

(* What is half done stays as it is until it is finished.                  *)
LEMMA ContentPreserved ==
    ASSUME PInv, Next
    PROVE  ContentInv'
<1>1. TypeOK /\ RingTypeOK /\ RingConsistent /\ GuardInv /\ ContentInv
  BY DEF PInv, IInv, TypeOK
<1>2. ASSUME NEW p \in Packets, BeginPush(p) PROVE ContentInv'
  <2>1. packet' = p /\ writeIndex' = writeIndex /\ isr' = isr /\ isr # "copied"
    BY <1>1, <1>2 DEF BeginPush, PushCopy, GuardInv, Unguarded
  <2>2. \A i \in 1..Len(p) : storage'[At(writeIndex, i - 1)] = p[i]
    BY <1>1, <1>2, CopyTouchesFree DEF BeginPush
  <2> QED
    BY <2>1, <2>2 DEF ContentInv, At
<1>3. CASE FillFromRing
  <2>1. packet = <<>> /\ packet' = packet
    BY <1>1, <1>3 DEF FillFromRing, GuardInv, Unguarded
  <2>2. Output(TransferSize)' = Output(TransferSize)
    BY <1>3 DEF FillFromRing, ringVars, Output, Popped, At
  <2>3. NextBuffer' = dmaIndex /\ dmaIndex \in DOMAIN dmaAudio
    BY <1>1, <1>3 DEF FillFromRing, FillFrom, NextBuffer, TypeOK, Buffers
  <2>4. dmaAudio'[dmaIndex] = Output(TransferSize)
    BY <1>3, <2>3 DEF FillFromRing, FillFrom
  <2> QED
    BY <2>1, <2>2, <2>3, <2>4 DEF ContentInv
<1>4. CASE EndPush \/ FinishPop \/ FillSilence \/ Submit \/ Interrupt \/ StartSilence \/ ClearRing
  <2>1. packet' = <<>> /\ isr' # "copied"
    BY <1>1, <1>4 DEF EndPush, FinishPop, FillSilence, Submit, Interrupt, StartSilence, ClearRing,
       MainRuns, RingAndDma, GuardInv, Unguarded
  <2> QED
    BY <2>1 DEF ContentInv
<1>5. CASE UNCHANGED <<ringVars, packet, isr, dmaIndex, dmaAudio>>
  BY <1>1, <1>5 DEF ringVars, ContentInv, NextBuffer, Output, Popped, At
<1> QED
  BY <1>2, <1>3, <1>4, <1>5 DEF PInv, IInv, Next, Producer, Refill, Dma, Complete, InterruptError,
     Loop, Started, Attach, Detach, Stop, AbortTransfer, DisableTransmitter, RingAndDma

LEMMA PipeInvariance == Spec => []PInv
<1>1. Init => PInv
  BY InitEstablishes DEF PInv, ContentInv, Init
<1>2. PInv /\ [Next]_vars => PInv'
  <2> SUFFICES ASSUME PInv, [Next]_vars PROVE PInv'
    OBVIOUS
  <2>1. CASE Next
    BY <2>1, StepPreserves, ContentPreserved DEF PInv
  <2>2. CASE UNCHANGED vars
    <3>1. IInv'
      BY StepPreserves DEF PInv
    <3>2. ContentInv'
      BY <2>2 DEF vars, ringVars, dmaVars, PInv, ContentInv, NextBuffer, Output, Popped, At
    <3> QED
      BY <3>1, <3>2 DEF PInv
  <2> QED
    BY <2>1, <2>2
<1> QED
  BY <1>1, <1>2, PTL DEF Spec

----------------------------------------------------------------------------
(* The refinement: what of SamplePipe's step each of the engine's steps is. *)

Sending == IF isr = "submit" THEN dmaAudio[NextBuffer]
           ELSE IF inFlight # NoBuffer THEN dmaAudio[inFlight] ELSE <<>>

LEMMA PipeStep ==
    ASSUME PInv, PInv', Next
    PROVE  Pipe!Next \/ UNCHANGED Pipe!vars
<1>1. TypeOK /\ RingTypeOK /\ RingTypeOK' /\ RingConsistent /\ GuardInv /\ EngineInv /\ ContentInv
  BY DEF PInv, IInv, TypeOK
<1>2. ASSUME NEW p \in Packets, BeginPush(p) PROVE UNCHANGED Pipe!vars
  <2>1. Held' = Held
    BY <1>1, <1>2, CopyTouchesFree DEF BeginPush
  <2>2. Sending' = Sending
    BY <1>2 DEF BeginPush, dmaVars, Sending, NextBuffer
  <2> QED
    BY <2>1, <2>2 DEF Pipe!vars, Sending
<1>3. CASE EndPush
  <2>1. packet \in Packets /\ packet # <<>> /\ Fits(Len(packet))
    BY <1>1, <1>3 DEF EndPush, TypeOK, GuardInv
  <2>2. Held' = Held \o packet /\ Len(Held) + Len(packet) <= Capacity
    BY <1>1, <1>3, <2>1, PublishAppends DEF EndPush, ContentInv
  <2>3. Sending' = Sending
    BY <1>3 DEF EndPush, dmaVars, Sending, NextBuffer
  <2>4. Pipe!Accept(packet)
    BY <2>2, <2>3 DEF Pipe!Accept, Sending
  <2>5. packet \in Pipe!Packets
    BY <2>1 DEF Packets, Pipe!Packets
  <2> QED
    BY <2>4, <2>5 DEF Pipe!Next
<1>4. CASE FinishPop
  <2>1. /\ Sending = <<>>
        /\ PopPublish(Popped(TransferSize))
        /\ isr' = "submit" /\ UNCHANGED <<dmaIndex, dmaAudio>>
        /\ dmaAudio[NextBuffer] = Output(TransferSize)
    BY <1>1, <1>4 DEF FinishPop, GuardInv, EngineInv, ContentInv, Sending, dmaVars
  <2>2. Sending' = Output(TransferSize)
    BY <2>1 DEF Sending, NextBuffer
  <2>3. LET n == Pipe!Smaller(Len(Held), TransferSize)
        IN /\ Held' = SubSeq(Held, n + 1, Len(Held))
           /\ Output(TransferSize) = SubSeq(Held, 1, n) \o Pipe!Quiet(TransferSize - n)
    BY <1>1, <2>1, PopTakesOldest
  <2>4. Pipe!Send
    BY <2>1, <2>2, <2>3 DEF Pipe!Send, Sending
  <2> QED
    BY <2>4 DEF Pipe!Next
<1>5. CASE FillSilence
  <2>1. Held' = Held
    BY <1>5, HeldFrame DEF FillSilence
  <2>2. Sending = <<>>
    BY <1>1, <1>5 DEF FillSilence, EngineInv, Sending
  <2>3. NextBuffer' = dmaIndex /\ dmaIndex \in DOMAIN dmaAudio /\ isr' = "submit"
    BY <1>1, <1>5 DEF FillSilence, FillFrom, NextBuffer, TypeOK, Buffers
  <2>4. Sending' = Pipe!Quiet(TransferSize)
    BY <1>5, <2>3 DEF FillSilence, FillFrom, Sending, Pipe!Quiet
  <2>5. Pipe!SendSilence
    BY <2>1, <2>2, <2>4 DEF Pipe!SendSilence, Sending
  <2> QED
    BY <2>5 DEF Pipe!Next
<1>6. CASE Submit
  <2>1. Held' = Held
    BY <1>6, HeldFrame DEF Submit
  <2>2. /\ isr = "submit" /\ isr' = "none" /\ inFlight = NoBuffer
        /\ UNCHANGED <<dmaIndex, dmaAudio>> /\ NextBuffer # NoBuffer
    BY <1>1, <1>6 DEF Submit, EngineInv, TypeOK, NextBuffer, NoBuffer, Buffers
  <2>3. CASE inFlight' = NextBuffer
    <3>1. Sending' = Sending
      BY <2>2, <2>3 DEF Sending, NextBuffer
    <3> QED
      BY <2>1, <3>1 DEF Pipe!vars, Sending
  <2>4. CASE inFlight' = inFlight
    <3>1. Sending' = <<>>
      BY <2>2, <2>4 DEF Sending, NoBuffer
    <3>2. Pipe!Sent
      BY <2>1, <3>1 DEF Pipe!Sent, Sending
    <3> QED
      BY <3>2 DEF Pipe!Next
  <2> QED
    BY <1>6, <2>3, <2>4 DEF Submit
<1>7. CASE Complete \/ AbortTransfer
  <2>1. Held' = Held
    BY <1>7, HeldFrame DEF Complete, AbortTransfer, RingAndDma
  <2>2. isr # "submit" /\ isr' = isr /\ inFlight' = NoBuffer
    BY <1>1, <1>7 DEF Complete, AbortTransfer, MainRuns, EngineInv
  <2>3. Sending' = <<>>
    BY <2>2 DEF Sending, NoBuffer
  <2>4. Pipe!Sent
    BY <2>1, <2>3 DEF Pipe!Sent, Sending
  <2> QED
    BY <2>4 DEF Pipe!Next
<1>8. CASE ClearRing
  <2>1. Held' = <<>>
    BY <1>8 DEF ClearRing, Emptied, Held
  <2>2. Sending' = Sending
    BY <1>8 DEF ClearRing, dmaVars, Sending, NextBuffer
  <2>3. Pipe!Clear
    BY <2>1, <2>2 DEF Pipe!Clear, Sending
  <2> QED
    BY <2>3 DEF Pipe!Next
<1>9. CASE FillFromRing
  <2>1. Held' = Held
    BY <1>9, HeldFrame DEF FillFromRing
  <2>2. Sending = <<>> /\ Sending' = <<>>
    BY <1>1, <1>9 DEF FillFromRing, EngineInv, Sending, NoBuffer
  <2> QED
    BY <2>1, <2>2 DEF Pipe!vars, Sending
<1>10. CASE \/ Interrupt \/ InterruptError \/ StartSilence \/ Started \/ Attach \/ Detach
            \/ Stop \/ DisableTransmitter
  <2>1. Held' = Held
    BY <1>10, HeldFrame DEF Interrupt, InterruptError, StartSilence, Started, Attach, Detach, Stop,
       DisableTransmitter, RingAndDma
  <2>2. isr # "submit" /\ isr' # "submit" /\ UNCHANGED <<inFlight, dmaAudio>>
    BY <1>10 DEF Interrupt, InterruptError, StartSilence, Started, Attach, Detach, Stop,
       DisableTransmitter, MainRuns, RingAndDma
  <2>3. Sending' = Sending
    BY <2>2 DEF Sending, NoBuffer
  <2> QED
    BY <2>1, <2>3 DEF Pipe!vars, Sending
<1> QED
  BY <1>2, <1>3, <1>4, <1>5, <1>6, <1>7, <1>8, <1>9, <1>10 DEF Next, Producer, Refill, Dma, Loop

(* For every size of the ring, of a packet and of a transfer: packets are  *)
(* accepted whole, their samples reach the DMA once and in order, and a    *)
(* transfer keeps its samples until it ends (stream_buffer.cpp push and    *)
(* pop, audio_engine.cpp submit_silence, on_dma_complete and stop).        *)
THEOREM PipeImplemented == Spec => ImplementsPipe
<1>1. Init => Pipe!Init
  BY DEF Init, RingInit, Pipe!Init, Held, NoBuffer
<1>2. PInv /\ PInv' /\ [Next]_vars => [Pipe!Next]_(Pipe!vars)
  <2> SUFFICES ASSUME PInv, PInv', [Next]_vars PROVE [Pipe!Next]_(Pipe!vars)
    OBVIOUS
  <2>1. CASE Next
    BY <2>1, PipeStep
  <2>2. CASE UNCHANGED vars
    <3>1. Held' = Held
      BY <2>2, HeldFrame DEF vars
    <3>2. Sending' = Sending
      BY <2>2 DEF vars, dmaVars, Sending, NextBuffer
    <3> QED
      BY <3>1, <3>2 DEF Pipe!vars, Sending
  <2> QED
    BY <2>1, <2>2
<1> QED
  BY <1>1, <1>2, PipeInvariance, PTL DEF Spec, ImplementsPipe, Pipe!Spec
=============================================================================
