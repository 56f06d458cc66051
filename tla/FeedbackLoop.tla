---------------------------- MODULE FeedbackLoop ----------------------------
(***************************************************************************)
(* audio/feedback_controller.cpp in the loop it closes: the host sends as  *)
(* many frames per microframe as the feedback endpoint asked for, the ring *)
(* fills, the DMA empties it at the pace of the DAC's own oscillator, and  *)
(* once a millisecond the controller turns the fill into a new rate.       *)
(*                                                                         *)
(* The numbers are the program's: bytes, frames in 16.16 fixed point, the  *)
(* truncating divisions of the C code. One step is a microframe (125 us).  *)
(* The host is external: UAC2 lets it accumulate the fractions of a frame. *)
(***************************************************************************)
EXTENDS Integers

CONSTANTS
    Rates,            \* sample rates, in hundreds of Hz (441 and 480)
    Drifts,           \* how much faster the DAC is than the host's bus, 100 ppm
    DmaPhases,        \* how far the transfer under way is when a stream joins
    PauseTimes,       \* microframes into playback at which the host may pause
    GapTimes,         \* microframes at which the host may lose packets
    GapLength,        \* how many packets it loses
    SettleTime, Band, \* when, and to how many bytes, the ring is at its half
    Horizon           \* bound: microframes looked at

ASSUME FeedbackAssumption ==
    /\ Rates \subseteq Nat \ {0} /\ Drifts \subseteq Int /\ DmaPhases \subseteq Nat
    /\ GapLength \in Nat /\ Horizon \in Nat /\ SettleTime \in Nat /\ Band \in Nat

Capacity      == 8192                    \* StreamBuffer::capacity_bytes
BytesPerFrame == 8

(* Mutant of TransferBytes: more than 48 frames. *)
TransferBytesDouble == 2 * 48 * BytesPerFrame

TransferBytes == 48 * BytesPerFrame      \* dma_frames_per_transfer
OneFrame      == 65536                   \* 1.0 in 16.16
StartDelay    == 560                     \* relay release and oscillator settle
CloseDelay    == 960                     \* stable audio and DAC settle

(* Division of the C++ code: towards zero. *)
Truncated(a, b) == IF a >= 0 THEN a \div b ELSE -((-a) \div b)
Clamped(x, low, high) == IF x < low THEN low ELSE IF x > high THEN high ELSE x
Distance(a, b) == IF a > b THEN a - b ELSE b - a

VARIABLES
    rate, drift,      \* the format, and the two oscillators of this world
    value, filtered,  \* FeedbackController
    hostRate, hostAcc,  \* what the host last received; its fraction of a frame
    fill,             \* bytes in the ring
    dmaAcc,           \* how far the DAC is with the transfer in hand
    stage,            \* "settle", "prefill" or "joined"
    age,              \* microframes in this stage
    time, gap, paused,  \* bounds: when it ends, packets still to lose, once each
    audible, glitch   \* the relay closed; since then audio was lost or padded

controller == <<value, filtered>>
vars == <<rate, drift, controller, hostRate, hostAcc, fill, dmaAcc, stage, age,
          time, gap, paused, audible, glitch>>

(* formats[]: feedback_nominal_16_16 and usb_hs_max_packet_bytes. *)
Nominal   == (rate * OneFrame) \div 80
MaxPacket == ((rate * 100 + 7999) \div 8000 + 1) * BytesPerFrame
HalfRing  == Capacity \div 2

(* Mutant of Target: half the ring, counted in frames. *)
TargetInFrames == HalfRing \div BytesPerFrame

Target    == HalfRing

(* minimum_ and maximum_: a frame less and a frame more per microframe.    *)
Minimum == IF Nominal > OneFrame THEN Nominal - OneFrame ELSE 0
Maximum == Nominal + OneFrame

----------------------------------------------------------------------------
(* FeedbackController. *)

Reset == value' = Nominal /\ filtered' = 0

Filtered(fill_) == filtered + Truncated((Target - fill_) - filtered, 16)

(* Mutant of Update: a correction per frame, not per byte, and no limits. *)
UpdateSteep(fill_) ==
    /\ filtered' = Filtered(fill_)
    /\ value' = value + Truncated(Nominal + 256 * Filtered(fill_) - value, 8)

Update(fill_) ==
    LET candidate == Clamped(Nominal + 4 * Filtered(fill_), Minimum, Maximum)
    IN /\ filtered' = Filtered(fill_)
       /\ value' = value + Truncated(candidate - value, 8)

----------------------------------------------------------------------------
(* One microframe. *)

Packet == ((hostAcc + hostRate) \div OneFrame) * BytesPerFrame
Lost   == gap > 0

(* tud_audio_rx_done_isr: a packet that does not fit is dropped whole. *)
Dropped == fill + Packet > Capacity
Pushed  == IF Lost \/ Dropped THEN fill ELSE fill + Packet

(* What the DAC consumes, in units of a frame divided by 800,000.        *)
PerMicroframe == rate * (10000 + drift)
PerTransfer   == 48 * 80 * 10000
TransferDue   == stage = "joined" /\ dmaAcc + PerMicroframe >= PerTransfer
Popped        == IF Pushed < TransferBytes THEN Pushed ELSE TransferBytes
FillAfter     == IF TransferDue THEN Pushed - Popped ELSE Pushed

(* tud_audio_fb_done_cb, after every eighth microframe: the host has the   *)
(* value of a millisecond ago, the next one is computed from the fill.     *)
FeedbackSent == time % 8 = 7

Microframe ==
    /\ time < Horizon /\ time' = time + 1
    /\ fill' = FillAfter
    /\ hostAcc' = (hostAcc + hostRate) % OneFrame
    /\ dmaAcc' = IF stage # "joined" THEN dmaAcc
                 ELSE IF TransferDue THEN dmaAcc + PerMicroframe - PerTransfer
                 ELSE dmaAcc + PerMicroframe
    /\ gap' = IF Lost THEN gap - 1 ELSE gap
    /\ glitch' = (glitch \/ (audible /\ ((Dropped /\ ~Lost)
                                        \/ (TransferDue /\ Pushed < TransferBytes))))
    /\ UNCHANGED <<rate, drift, paused>>

SendFeedback ==
    IF FeedbackSent THEN hostRate' = value /\ Update(FillAfter)
    ELSE UNCHANGED <<hostRate, controller>>

Goes(at) == stage = at /\ Microframe
Ages == age' = age + 1 /\ UNCHANGED <<stage, audible>>

(* begin_start until the oscillator has settled: the host already streams, *)
(* the ring overflows.                                                     *)
Settle == Goes("settle") /\ age < StartDelay /\ SendFeedback /\ Ages

(* start_silence and set_active_format. *)
StartEngine ==
    /\ Goes("settle") /\ age = StartDelay
    /\ Reset /\ UNCHANGED <<hostRate, audible>>
    /\ stage' = "prefill" /\ age' = 0

(* Mutant of Enough: the stream joins as soon as there is one transfer. *)
EnoughForOne == fill >= TransferBytes

(* The threshold of Prefill and of a resumed stream. *)
Enough == fill >= HalfRing
DmaStarted == age >= 8

Prefill == Goes("prefill") /\ ~(DmaStarted /\ Enough) /\ SendFeedback /\ Ages

Join ==
    /\ stage = "prefill" /\ DmaStarted /\ Enough
    /\ stage' = "joined" /\ age' = 0
    /\ dmaAcc' \in {(p * PerTransfer) \div 4 : p \in DmaPhases}
    /\ UNCHANGED <<rate, drift, controller, hostRate, hostAcc, fill, time, gap, paused,
                   audible, glitch>>

Play ==
    /\ Goes("joined") /\ SendFeedback
    /\ age' = age + 1 /\ UNCHANGED stage
    /\ audible' = (audible \/ age >= CloseDelay)

(* enter_connected_idle and, later, Start on the same format: the ring is  *)
(* emptied, the controller is not reset.                                   *)
Pause ==
    /\ stage = "joined" /\ audible /\ age \in PauseTimes /\ ~paused
    /\ paused' = TRUE /\ stage' = "prefill" /\ age' = 0
    /\ fill' = 0 /\ hostRate' = value
    /\ UNCHANGED <<rate, drift, controller, hostAcc, dmaAcc, time, gap, audible, glitch>>

LosePackets ==
    /\ time \in GapTimes /\ gap = 0 /\ stage = "joined"
    /\ gap' = GapLength
    /\ UNCHANGED <<rate, drift, controller, hostRate, hostAcc, fill, dmaAcc, stage, age,
                   time, paused, audible, glitch>>

Init ==
    /\ rate \in Rates /\ drift \in Drifts
    /\ value = Nominal /\ filtered = 0 /\ hostRate = Nominal /\ hostAcc = 0
    /\ fill = 0 /\ dmaAcc = 0 /\ stage = "settle" /\ age = 0
    /\ time = 0 /\ gap = 0 /\ paused = FALSE /\ audible = FALSE /\ glitch = FALSE

Over == time = Horizon /\ UNCHANGED vars

Next == Settle \/ StartEngine \/ Prefill \/ Join \/ Play \/ Pause \/ LosePackets \/ Over

Spec == Init /\ [][Next]_vars

----------------------------------------------------------------------------
(* What must hold. *)

(* From the moment the relay closes no packet is dropped and no transfer   *)
(* runs short: neither the start with an overflowing ring, nor the drift   *)
(* of the oscillators, a pause, or packets lost on the bus push the ring   *)
(* over one of its ends (usb-interface.md:39-40).                          *)
NoGlitch == ~glitch

(* At the last look before the relay closes the ring still holds the       *)
(* quarter that look demands, or every start would end in a fault          *)
(* (main.cpp:167-168).                                                     *)
ReadyToClose == stage = "joined" /\ ~audible /\ age = CloseDelay => fill >= Capacity \div 4

(* A second into playback the ring stays near its half: the truncating     *)
(* divisions leave no offset and no oscillation that matters               *)
(* (feedback_controller.cpp:16-24).                                        *)
Centred == stage = "joined" /\ age >= SettleTime => Distance(fill, HalfRing) <= Band

(* The host is never asked for a packet larger than the endpoint accepts:  *)
(* the rounded-up nominal rate plus one frame (sample_rate.cpp:8-12).     *)
FitsEndpoint == Packet <= MaxPacket
=============================================================================
