------------------------- MODULE FeedbackLoopProofs -------------------------
(***************************************************************************)
(* What holds of the feedback loop for every sample rate, drift and pause, *)
(* for as long as it runs.                                                 *)
(*                                                                         *)
(* First the limits: the controller stays inside them, so the host is      *)
(* never asked for a packet the endpoint cannot take, and the filter in    *)
(* the range of the errors it averages. They hold for any constants.       *)
(*                                                                         *)
(* Then the ring itself, in the worlds of the code (CodeWorld). Of the     *)
(* three modes of the loop - the ring, the filter of a 16th, the rate of   *)
(* an 8th - the last two are fast, and the slow one contracts by a part in *)
(* 231 per feedback. Trend measures that slow mode: what the ring would    *)
(* hold, against its half, once the fast ones have died out. Together with *)
(* the ranges of filter and rate, bounds on Trend are inductive, and they  *)
(* bound the fill.                                                         *)
(***************************************************************************)
EXTENDS FeedbackLoop, TLAPS

Errors == (Target - Capacity)..Target

(* What the host last received is a value the controller had.              *)
LimitInv ==
    /\ rate \in Rates
    /\ value \in Minimum..Maximum /\ hostRate \in Minimum..Maximum
    /\ filtered \in Errors
    /\ hostAcc \in 0..(OneFrame - 1)
    /\ fill \in 0..Capacity

LEMMA Sizes ==
    /\ Capacity = 8192 /\ TransferBytes = 384 /\ OneFrame = 65536 /\ BytesPerFrame = 8
    /\ Target = 4096
BY DEF Capacity, TransferBytes, OneFrame, BytesPerFrame, Target, HalfRing

(* The fraction of a frame, without its 65536 members.                     *)
LEMMA FractionFacts ==
    ASSUME NEW acc \in 0..(OneFrame - 1)
    PROVE  acc \in Nat /\ 0 <= acc /\ acc <= 65535
<1>1. PICK frame \in Nat : frame = OneFrame
  BY SMTT(30) DEF OneFrame
<1>2. acc \in Nat /\ 0 <= acc /\ acc <= frame - 1
  BY <1>1
<1> QED
  BY <1>1, <1>2, SMTT(30) DEF OneFrame

LEMMA ErrorFacts ==
    /\ \A e \in Errors : e \in Int /\ e >= -4096 /\ e <= 4096
    /\ 0 \in Errors /\ Target - Capacity \in Int /\ Target \in Int
    /\ \A level \in 0..Capacity : Target - level \in Errors
<1>1. \A e \in Errors : e \in Int /\ e >= -4096 /\ e <= 4096
  BY SMTT(30) DEF Errors, Target, HalfRing, Capacity
<1>2. 0 \in Errors /\ Target - Capacity \in Int /\ Target \in Int
  BY DEF Errors, Target, HalfRing, Capacity
<1>3. \A level \in 0..Capacity : Target - level \in Errors
  BY SMTT(30) DEF Errors, Target, HalfRing, Capacity
<1> QED
  BY <1>1, <1>2, <1>3, Zenon

LEMMA RateFacts ==
    ASSUME rate \in Rates
    PROVE  /\ rate \in Nat /\ Nominal \in Nat /\ Minimum \in Nat /\ Maximum \in Nat
           /\ Nominal \in Minimum..Maximum /\ Maximum = Nominal + OneFrame
<1>1. rate \in Nat
  BY FeedbackAssumption
<1>2. Nominal \in Nat
  BY <1>1, Sizes DEF Nominal
<1> QED
  BY <1>1, <1>2, Sizes DEF Minimum, Maximum

(* A step of one 8th or one 16th of the way, rounded towards zero, never   *)
(* leaves the interval that holds both ends.                               *)
LEMMA StepsStayBetween ==
    ASSUME NEW low \in Int, NEW high \in Int, NEW x \in low..high, NEW y \in low..high,
           NEW b \in {8, 16}
    PROVE  x + Truncated(y - x, b) \in low..high
<1>1. PICK way \in Int : way = y - x
  OBVIOUS
<1>2. CASE b = 8
  <2>1. CASE way >= 0
    BY <1>1, <1>2, <2>1 DEF Truncated
  <2>2. CASE way < 0
    BY <1>1, <1>2, <2>2 DEF Truncated
  <2> QED
    BY <1>1, <2>1, <2>2
<1>3. CASE b = 16
  <2>1. CASE way >= 0
    BY <1>1, <1>3, <2>1 DEF Truncated
  <2>2. CASE way < 0
    BY <1>1, <1>3, <2>2 DEF Truncated
  <2> QED
    BY <1>1, <2>1, <2>2
<1> QED
  BY <1>2, <1>3

LEMMA RestFacts ==
    ASSUME NEW n \in Nat \ {0}, NEW a \in Nat, NEW b \in Nat
    PROVE  (a + b) % n \in 0..(n - 1)
<1>1. PICK sum \in Nat : sum = a + b
  OBVIOUS
<1>2. sum % n \in 0..(n - 1)
  OBVIOUS
<1> QED
  BY <1>1, <1>2

LEMMA PacketFacts ==
    ASSUME LimitInv
    PROVE  Packet \in Nat /\ Packet <= MaxPacket
<1>1. /\ rate \in Nat /\ Nominal \in Nat /\ hostRate \in Nat /\ hostRate <= Nominal + OneFrame
      /\ hostAcc \in 0..(OneFrame - 1)
  BY RateFacts DEF LimitInv
<1>2. PICK frames : frames = (hostAcc + hostRate) \div OneFrame
  OBVIOUS
<1>3. PICK ceiling : ceiling = (rate * 100 + 7999) \div 8000
  OBVIOUS
<1>4. ceiling \in Nat /\ 80 * ceiling >= rate
  BY <1>1, <1>3
<1>5. Nominal <= ceiling * 65536
  BY <1>1, <1>4, Sizes, SMTT(30) DEF Nominal
<1>6. frames \in Nat /\ frames <= ceiling + 1
  BY <1>1, <1>2, <1>4, <1>5, Sizes, SMTT(30)
<1> QED
  BY <1>2, <1>3, <1>4, <1>6, Sizes DEF Packet, MaxPacket

(* What a microframe leaves in the ring fits it.                           *)
LEMMA RingFacts ==
    ASSUME LimitInv
    PROVE  FillAfter \in 0..Capacity
<1>1. Packet \in Nat /\ fill \in 0..Capacity
  BY PacketFacts DEF LimitInv
<1>2. Pushed \in 0..Capacity
  <2>1. Pushed = fill \/ (Pushed = fill + Packet /\ ~(fill + Packet > Capacity))
    BY DEF Pushed, Dropped
  <2>2. PICK packet \in Nat : packet = Packet
    BY <1>1
  <2>3. fill \in Nat /\ Capacity \in Nat /\ fill <= Capacity
    BY <1>1, SMTT(30) DEF Capacity
  <2>4. CASE Pushed = fill
    BY <1>1, <2>4
  <2>5. CASE Pushed = fill + packet /\ ~(fill + packet > Capacity)
    BY <2>2, <2>3, <2>5
  <2> QED
    BY <2>1, <2>2, <2>4, <2>5
<1>3. Popped \in 0..Pushed
  BY <1>2, SMTT(30) DEF Popped, Capacity, TransferBytes, BytesPerFrame
<1> QED
  <2>1. FillAfter = Pushed \/ FillAfter = Pushed - Popped
    BY DEF FillAfter
  <2>2. PICK pushed \in 0..Capacity : pushed = Pushed
    BY <1>2
  <2>3. PICK popped \in 0..pushed : popped = Popped
    BY <1>3, <2>2
  <2>4. Capacity \in Nat
    BY SMTT(30) DEF Capacity
  <2>5. pushed - popped \in 0..Capacity
    BY <2>4
  <2> QED
    BY <2>1, <2>2, <2>3, <2>5

LEMMA UpdateKeepsLimits ==
    ASSUME LimitInv, NEW level \in 0..Capacity, Update(level)
    PROVE  value' \in Minimum..Maximum /\ filtered' \in Errors
<1>1. PICK error : error = Target - level
  OBVIOUS
<1>2. error \in Errors /\ filtered \in Errors
  BY <1>1, ErrorFacts DEF LimitInv
<1>3. Filtered(level) \in Errors
  <2>1. filtered + Truncated(error - filtered, 16) \in Errors
    <3>1. Target - Capacity \in Int /\ Target \in Int /\ 16 \in {8, 16}
      BY ErrorFacts
    <3> QED
      BY <1>2, <3>1, StepsStayBetween DEF Errors
  <2> QED
    BY <1>1, <2>1 DEF Filtered
<1>4. PICK average : average = Filtered(level)
  OBVIOUS
<1>5. PICK candidate : candidate = Clamped(Nominal + 4 * average, Minimum, Maximum)
  OBVIOUS
<1>6. Nominal \in Nat /\ Minimum \in Nat /\ Maximum \in Nat /\ Minimum <= Maximum
  BY RateFacts DEF LimitInv
<1>7. candidate \in Minimum..Maximum
  <2>1. average \in Int
    BY <1>3, <1>4, ErrorFacts
  <2> QED
    BY <1>5, <1>6, <2>1 DEF Clamped
<1>8. value' = value + Truncated(candidate - value, 8)
  BY <1>4, <1>5 DEF Update
<1>9. value + Truncated(candidate - value, 8) \in Minimum..Maximum
  <2>1. Minimum \in Int /\ Maximum \in Int /\ value \in Minimum..Maximum /\ 8 \in {8, 16}
    BY <1>6 DEF LimitInv
  <2> QED
    BY <1>7, <2>1, StepsStayBetween
<1> QED
  BY <1>3, <1>8, <1>9 DEF Update

LEMMA InitLimits == Init => LimitInv
<1> SUFFICES ASSUME Init PROVE LimitInv
  OBVIOUS
<1>1. rate \in Rates
  BY DEF Init
<1> QED
  BY <1>1, RateFacts, Sizes, ErrorFacts, SMTT(30) DEF Init, LimitInv

LEMMA StepLimits == LimitInv /\ [Next]_vars => LimitInv'
<1> SUFFICES ASSUME LimitInv, [Next]_vars PROVE LimitInv'
  OBVIOUS
<1>1. /\ rate \in Rates /\ value \in Minimum..Maximum /\ hostRate \in Minimum..Maximum
      /\ filtered \in Errors /\ hostAcc \in 0..(OneFrame - 1) /\ fill \in 0..Capacity
  BY DEF LimitInv
<1>2. rate' = rate
  BY DEF Next, Settle, StartEngine, Prefill, Join, Play, Pause, LosePackets, Over, Goes,
     Microframe, vars
<1>3. Minimum' = Minimum /\ Maximum' = Maximum /\ Nominal' = Nominal
  BY <1>2 DEF Minimum, Maximum, Nominal
<1> SUFFICES /\ value' \in Minimum..Maximum /\ hostRate' \in Minimum..Maximum
             /\ filtered' \in Errors /\ hostAcc' \in 0..(OneFrame - 1) /\ fill' \in 0..Capacity
  <2>1. Errors' = Errors
    BY SMTT(30) DEF Errors, Target, HalfRing, Capacity
  <2> QED
    BY <1>1, <1>2, <1>3, <2>1 DEF LimitInv
<1>4. CASE Microframe
  <2>1. fill' \in 0..Capacity
    BY <1>4, RingFacts DEF Microframe
  <2>2. hostRate \in Nat /\ hostAcc \in Nat
    <3>1. Minimum \in Nat
      BY <1>1, RateFacts
    <3>2. hostAcc \in Nat
      BY <1>1, FractionFacts
    <3>3. hostRate \in Nat
      <4>1. Maximum \in Nat /\ hostRate \in Minimum..Maximum
        BY <1>1, RateFacts
      <4> QED
        BY <3>1, <4>1
    <3> QED
      BY <3>2, <3>3
  <2>3. hostAcc' \in 0..(OneFrame - 1)
    <3>1. hostAcc' = (hostAcc + hostRate) % OneFrame
      BY <1>4 DEF Microframe
    <3>2. OneFrame \in Nat \ {0}
      BY DEF OneFrame
    <3> QED
      BY <2>2, <3>1, <3>2, RestFacts
  <2>4. CASE SendFeedback
    <3>1. CASE FeedbackSent
      BY <1>1, <2>1, <2>3, <2>4, <3>1, RingFacts, UpdateKeepsLimits DEF SendFeedback
    <3>2. CASE ~FeedbackSent
      BY <1>1, <2>1, <2>3, <2>4, <3>2 DEF SendFeedback, controller
    <3> QED
      BY <3>1, <3>2
  <2>5. CASE Reset /\ hostRate' = hostRate
    BY <1>1, <2>1, <2>3, <2>5, RateFacts, ErrorFacts DEF Reset
  <2>6. SendFeedback \/ (Reset /\ hostRate' = hostRate)
    BY <1>4 DEF Next, Settle, StartEngine, Prefill, Join, Play, Pause, LosePackets, Over,
       Microframe, vars
  <2> QED
    BY <2>4, <2>5, <2>6
<1>5. CASE Join \/ LosePackets \/ Over \/ UNCHANGED vars
  BY <1>1, <1>5 DEF Join, LosePackets, Over, vars, controller
<1>6. CASE Pause
  <2>1. fill' = 0 /\ hostRate' = value /\ UNCHANGED <<value, filtered, hostAcc>>
    BY <1>6 DEF Pause, controller
  <2>2. 0 \in 0..Capacity
    BY DEF Capacity
  <2> QED
    BY <1>1, <2>1, <2>2
<1> QED
  BY <1>4, <1>5, <1>6 DEF Next, Settle, StartEngine, Prefill, Play, Goes

(* The controller stays within a frame of the nominal rate and its filter  *)
(* within half the ring, whatever the ring does (feedback_controller.cpp); *)
(* and whatever packets arrive, the ring takes none it has no room for.    *)
THEOREM LimitsHold == Spec => []LimitInv
BY InitLimits, StepLimits, PTL DEF Spec

(* No host that follows the feedback endpoint sends a packet longer than   *)
(* the audio endpoint takes, for any sample rate (sample_rate.cpp:8-12).   *)
THEOREM PacketsFit == Spec => []FitsEndpoint
<1>1. LimitInv => FitsEndpoint
  BY PacketFacts DEF FitsEndpoint
<1> QED
  BY <1>1, LimitsHold, PTL

(* Four times the filtered error never leaves 16 bits: the multiplication  *)
(* of update cannot overflow std::int32_t (feedback_controller.cpp:18).    *)
THEOREM CorrectionIsSmall == Spec => [](4 * filtered \in (-16384)..16384)
<1>1. LimitInv => 4 * filtered \in (-16384)..16384
  BY SMTT(30) DEF LimitInv, Errors, Target, HalfRing, Capacity
<1> QED
  BY <1>1, LimitsHold, PTL

----------------------------------------------------------------------------
(* How much the ring holds, and where it is going.                         *)

(* A byte, in the units in which a packet, a fraction of a frame (1/65536) *)
(* and a fraction of a transfer (1/800000 of a frame) are whole numbers;   *)
(* what a microframe adds in them, and the microframes to the next value   *)
(* from the controller. Level is the fill against its target with every    *)
(* fraction, and with what is bound to flow until then.                    *)
ByteUnits == 25600000
Flow      == 3125 * hostRate - 256 * PerMicroframe
Ahead     == 8 - (time % 8)
Level     == ByteUnits * (fill - Target) + 3125 * hostAcc - 256 * dmaAcc + Ahead * Flow
Trend     == Level + 1669565 * filtered + 207174 * (value - Nominal)

(* The two formats, oscillators at most 500 ppm apart, and a transfer at   *)
(* any quarter when the stream joins.                                      *)
CodeWorld == Rates \subseteq {441, 480} /\ Drifts \subseteq -5..5 /\ DmaPhases \subseteq 0..3

LEMMA TruncatedBounds ==
    ASSUME NEW a \in Int, NEW b \in {8, 16}
    PROVE  Truncated(a, b) \in Int /\ a - b * Truncated(a, b) \in (1 - b)..(b - 1)
<1>1. CASE b = 8
  BY <1>1, SMT DEF Truncated
<1>2. CASE b = 16
  BY <1>2, SMT DEF Truncated
<1> QED
  BY <1>1, <1>2

LEMMA TrendContracts ==
    ASSUME NEW level \in Int, -200000000000 <= level, level <= 200000000000,
           NEW acc \in Int, 0 <= acc, acc <= 65535,
           NEW dma \in Int, 0 <= dma, dma <= 38399999,
           NEW y \in Int, -4096 <= y, y <= 4096,
           NEW z \in Int, -16384 <= z, z <= 16384,
           NEW drain \in Int, -615025 <= drain, drain <= 614400,
           NEW e \in Int, 25600000 * e = 3125 * acc - 256 * dma - level,
           NEW q \in Int, -15 <= e - y - 16 * q, e - y - 16 * q <= 15,
           NEW w \in Int, -7 <= 4 * (y + q) - z - 8 * w, 4 * (y + q) - z - 8 * w <= 7,
           NEW before, before = level + 1669565 * y + 207174 * z,
           NEW after,
           after = level + 25000 * z + 8 * drain + 1669565 * (y + q) + 207174 * (z + w)
    PROVE  /\ 231 * after <= 230 * before + 1792000000
           /\ 231 * after >= 230 * before - 11417600000
BY SMTT(60)

LEMMA WorldFacts ==
    ASSUME CodeWorld, rate \in Rates, drift \in Drifts
    PROVE  /\ Nominal \in Int /\ 361267 <= Nominal /\ Nominal <= 393216
           /\ PerMicroframe \in Int /\ 4000000 <= PerMicroframe /\ PerMicroframe <= 5000000
           /\ -615025 <= 3125 * Nominal - 256 * PerMicroframe
           /\ 3125 * Nominal - 256 * PerMicroframe <= 614400
<1>1. drift \in Int /\ -5 <= drift /\ drift <= 5
  BY SMT DEF CodeWorld
<1>2. CASE rate = 441
  BY <1>1, <1>2, SMT DEF Nominal, PerMicroframe, OneFrame
<1>3. CASE rate = 480
  BY <1>1, <1>3, SMT DEF Nominal, PerMicroframe, OneFrame
<1> QED
  BY <1>2, <1>3, SMT DEF CodeWorld

(* What the steps keep in range, in a world of the code.                   *)
RangeInv ==
    /\ LimitInv
    /\ drift \in Drifts /\ stage \in {"settle", "prefill", "joined"}
    /\ value - Nominal >= -16384 /\ value - Nominal <= 16384
    /\ hostRate - Nominal >= -16384 /\ hostRate - Nominal <= 16384
    /\ dmaAcc \in Int /\ 0 <= dmaAcc /\ dmaAcc < PerTransfer
    /\ age \in Nat /\ time \in Nat /\ gap \in Nat /\ gap <= GapLength
    /\ audible \in BOOLEAN /\ glitch \in BOOLEAN

(* The variables as numbers, with nothing in them that is not arithmetic. *)
LEMMA RangeFacts ==
    ASSUME CodeWorld, RangeInv
    PROVE  /\ value \in Int /\ hostRate \in Int
           /\ filtered \in Int /\ -4096 <= filtered /\ filtered <= 4096
           /\ hostAcc \in Int /\ 0 <= hostAcc /\ hostAcc < 65536
           /\ fill \in Int /\ 0 <= fill /\ fill <= 8192
           /\ dmaAcc \in Int /\ 0 <= dmaAcc /\ dmaAcc < 38400000
           /\ Nominal \in Int /\ 361267 <= Nominal /\ Nominal <= 393216
           /\ PerMicroframe \in Int /\ 4000000 <= PerMicroframe /\ PerMicroframe <= 5000000
           /\ -615025 <= 3125 * Nominal - 256 * PerMicroframe
           /\ 3125 * Nominal - 256 * PerMicroframe <= 614400
<1>1. rate \in Rates /\ drift \in Drifts
  BY DEF RangeInv, LimitInv
<1>2. rate \in Nat
  BY <1>1, FeedbackAssumption
<1>3. /\ Nominal \in Int /\ Minimum \in Int /\ Maximum \in Int
      /\ value \in Int /\ hostRate \in Int
  BY <1>1, RateFacts DEF RangeInv, LimitInv
<1>4. filtered \in Int /\ -4096 <= filtered /\ filtered <= 4096
  BY ErrorFacts DEF RangeInv, LimitInv
<1>5. hostAcc \in Int /\ 0 <= hostAcc /\ hostAcc < 65536
  <2>1. hostAcc \in 0..(OneFrame - 1)
    BY DEF RangeInv, LimitInv
  <2>2. hostAcc \in Nat /\ 0 <= hostAcc /\ hostAcc <= 65535
    BY <2>1, FractionFacts
  <2> QED
    BY <2>2
<1>6. fill \in Int /\ 0 <= fill /\ fill <= 8192
  BY Sizes, SMTT(30) DEF RangeInv, LimitInv
<1>7. PerTransfer = 38400000
  BY SMT DEF PerTransfer
<1> QED
  BY <1>1, <1>3, <1>4, <1>5, <1>6, <1>7, WorldFacts, SMT DEF RangeInv

(* The feedback of eight microframes.                                      *)
LEMMA EighthFacts ==
    ASSUME NEW n \in Nat
    PROVE  n % 8 \in 0..7 /\ (n + 1) % 8 = IF n % 8 = 7 THEN 0 ELSE (n % 8) + 1
OBVIOUS

LEMMA AheadFacts ==
    ASSUME time \in Nat
    PROVE  /\ Ahead \in 1..8 /\ (FeedbackSent <=> Ahead = 1)
           /\ time' = time + 1 => Ahead' = IF Ahead = 1 THEN 8 ELSE Ahead - 1
<1>1. Ahead \in 1..8 /\ (FeedbackSent <=> Ahead = 1)
  BY EighthFacts DEF Ahead, FeedbackSent
<1>2. ASSUME time' = time + 1 PROVE Ahead' = IF Ahead = 1 THEN 8 ELSE Ahead - 1
  BY <1>2, EighthFacts DEF Ahead
<1> QED
  BY <1>1, <1>2

(* What arrives, is lost and is taken in a microframe.                     *)
LEMMA PacketRange ==
    ASSUME CodeWorld, RangeInv
    PROVE  \E frames \in Int :
              /\ Packet = 8 * frames /\ 5 <= frames /\ frames <= 7
              /\ (hostAcc + hostRate) % OneFrame = hostAcc + hostRate - 65536 * frames
<1>1. PICK frames \in Int : frames = (hostAcc + hostRate) \div 65536
  BY RangeFacts
<1>2. /\ 5 <= frames /\ frames <= 7
      /\ (hostAcc + hostRate) % 65536 = hostAcc + hostRate - 65536 * frames
  BY <1>1, RangeFacts, SMT DEF RangeInv
<1> QED
  BY <1>1, <1>2, SMT DEF Packet, OneFrame, BytesPerFrame

LEMMA UpdateFacts ==
    ASSUME CodeWorld, RangeInv, NEW level \in 0..Capacity, Update(level)
    PROVE  \E q \in Int, w \in Int :
              /\ filtered' = filtered + q /\ value' = value + w
              /\ -15 <= Target - level - filtered - 16 * q
              /\ Target - level - filtered - 16 * q <= 15
              /\ -7 <= 4 * (filtered + q) - (value - Nominal) - 8 * w
              /\ 4 * (filtered + q) - (value - Nominal) - 8 * w <= 7
              /\ -4096 <= filtered + q /\ filtered + q <= 4096
              /\ -16384 <= value + w - Nominal /\ value + w - Nominal <= 16384
<1>1. PICK e \in Int : e = Target - level - filtered
  BY RangeFacts, Sizes, SMTT(30)
<1>2. PICK q \in Int : q = Truncated(e, 16)
  BY TruncatedBounds
<1>3. -15 <= e - 16 * q /\ e - 16 * q <= 15
  BY <1>2, TruncatedBounds, SMT
<1>4. filtered' = filtered + q
  BY <1>1, <1>2 DEF Update, Filtered
<1>5. -4096 <= filtered + q /\ filtered + q <= 4096
  BY <1>4, UpdateKeepsLimits, ErrorFacts DEF RangeInv
<1>6. PICK average \in Int : average = filtered + q
  BY <1>2, RangeFacts
<1>7. Clamped(Nominal + 4 * average, Minimum, Maximum) = Nominal + 4 * average
  BY <1>5, <1>6, RangeFacts, SMT DEF Clamped, Minimum, Maximum, OneFrame
<1>8. PICK d \in Int : d = Nominal + 4 * average - value
  BY <1>6, RangeFacts
<1>9. PICK w \in Int : w = Truncated(d, 8)
  BY TruncatedBounds
<1>10. value' = value + w
  <2>1. Filtered(level) = average
    BY <1>1, <1>2, <1>6 DEF Filtered
  <2>2. PICK c : c = Clamped(Nominal + 4 * Filtered(level), Minimum, Maximum)
    OBVIOUS
  <2>3. c = Nominal + 4 * average
    BY <1>7, <2>1, <2>2, Zenon
  <2>4. c - value = d
    BY <1>6, <1>8, <2>3, RangeFacts, SMT
  <2>5. value' = value + Truncated(c - value, 8)
    BY <2>2, Zenon DEF Update
  <2> QED
    BY <1>9, <2>4, <2>5, Zenon
<1>11. -7 <= d - 8 * w /\ d - 8 * w <= 7
  BY <1>9, TruncatedBounds, SMT
<1>12. -16384 <= value + w - Nominal /\ value + w - Nominal <= 16384
  BY <1>5, <1>6, <1>8, <1>9, RangeFacts, SMT DEF Truncated, RangeInv
<1> QED
  BY <1>1, <1>2, <1>3, <1>4, <1>5, <1>6, <1>8, <1>9, <1>10, <1>11, <1>12, RangeFacts, Sizes,
     SMTT(30)

LEMMA FlowFacts ==
    ASSUME CodeWorld, RangeInv
    PROVE  /\ Flow \in Int /\ -51815025 <= Flow /\ Flow <= 51814400
           /\ Ahead * Flow \in Int /\ (Ahead = 1 => Ahead * Flow = Flow)
           /\ -414520200 <= Ahead * Flow /\ Ahead * Flow <= 414515200
<1>1. Flow \in Int /\ -51815025 <= Flow /\ Flow <= 51814400
  BY RangeFacts, SMT DEF Flow, RangeInv
<1>2. PICK flow \in Int : flow = Flow
  BY <1>1
<1>3. Ahead \in 1..8
  BY AheadFacts DEF RangeInv
<1>4. \A n \in 1..8 : /\ n * flow \in Int /\ (n = 1 => n * flow = flow)
                      /\ -414520200 <= n * flow /\ n * flow <= 414515200
  BY <1>1, <1>2, SMT
<1> QED
  BY <1>1, <1>2, <1>3, <1>4

(* How far the trend is from the level in the ring.                        *)
LEMMA LevelFacts ==
    ASSUME CodeWorld, RangeInv
    PROVE  /\ Level \in Int /\ Trend \in Int
           /\ -10244920200 <= Level - 25600000 * (fill - 4096)
           /\ Level - 25600000 * (fill - 4096) <= 619315200
           /\ -10232877056 <= Trend - Level /\ Trend - Level <= 10232877056
<1>1. PICK ahead \in Int : ahead = Ahead * Flow
  BY FlowFacts
<1>2. Level = 25600000 * (fill - 4096) + 3125 * hostAcc - 256 * dmaAcc + ahead
  BY <1>1, Sizes DEF Level, ByteUnits
<1>3. -414520200 <= ahead /\ ahead <= 414515200
  BY <1>1, FlowFacts
<1>4. /\ Level \in Int
      /\ -10244920200 <= Level - 25600000 * (fill - 4096)
      /\ Level - 25600000 * (fill - 4096) <= 619315200
  BY <1>2, <1>3, RangeFacts, SMT
<1> QED
  BY <1>4, RangeFacts, SMT DEF Trend, RangeInv

(* A microframe of playback: the level moves by what flows, less the       *)
(* packets that did not get into the ring.                                 *)
LEMMA RingFlows ==
    ASSUME CodeWorld, RangeInv, stage = "joined", Microframe, fill >= TransferBytes
    PROVE  \E missed \in Int :
              /\ 0 <= missed /\ missed <= 56 /\ (missed = 0 \/ Lost \/ Dropped)
              /\ 25600000 * (fill' - 4096) + 3125 * hostAcc' - 256 * dmaAcc'
                    = Level - Ahead * Flow + Flow - 25600000 * missed
<1>1. PICK frames \in Int :
         /\ Packet = 8 * frames /\ 5 <= frames /\ frames <= 7
         /\ (hostAcc + hostRate) % OneFrame = hostAcc + hostRate - 65536 * frames
  BY PacketRange
<1>2. PICK missed \in Int :
         /\ 0 <= missed /\ missed <= 56 /\ (missed = 0 \/ Lost \/ Dropped)
         /\ Pushed = fill + 8 * frames - missed
  <2>1. CASE Lost \/ Dropped
    <3> WITNESS 8 * frames \in Int
    <3> QED
      BY <1>1, <2>1, RangeFacts, SMT DEF Pushed
  <2>2. CASE ~(Lost \/ Dropped)
    <3> WITNESS 0 \in Int
    <3> QED
      BY <1>1, <2>2, RangeFacts, SMT DEF Pushed
  <2> QED
    BY <2>1, <2>2
<1>3. PICK due \in {0, 1} : due = 1 <=> TransferDue
  OBVIOUS
<1>4. Pushed >= 384
  BY <1>1, <1>2, RangeFacts, Sizes, SMT DEF Pushed
<1>5. fill' = fill + 8 * frames - missed - 384 * due
  BY <1>2, <1>3, <1>4, RangeFacts, Sizes, SMT DEF Microframe, FillAfter, Popped
<1>6. dmaAcc' = dmaAcc + PerMicroframe - 38400000 * due
  BY <1>3, RangeFacts, SMT DEF Microframe, PerTransfer
<1>7. hostAcc' = hostAcc + hostRate - 65536 * frames
  BY <1>1 DEF Microframe
<1>8. PICK ahead \in Int : ahead = Ahead * Flow
  BY FlowFacts
<1>9. Level = 25600000 * (fill - 4096) + 3125 * hostAcc - 256 * dmaAcc + ahead
  BY <1>8, Sizes DEF Level, ByteUnits
<1>10. Flow = 3125 * hostRate - 256 * PerMicroframe
  BY DEF Flow
<1>11. 25600000 * (fill' - 4096) + 3125 * hostAcc' - 256 * dmaAcc'
          = Level - ahead + Flow - 25600000 * missed
  BY <1>1, <1>2, <1>3, <1>5, <1>6, <1>7, <1>9, <1>10, RangeFacts, SMT
<1> QED
  BY <1>2, <1>8, <1>11
(* What the feedback of a microframe makes of an error e of the fill, when *)
(* rest is what the trend would be without it.                             *)
Filters(rest) ==
    \E e \in Int, q \in Int, w \in Int :
       /\ filtered' = filtered + q /\ value' - Nominal = value - Nominal + w
       /\ -15 <= e - filtered - 16 * q /\ e - filtered - 16 * q <= 15
       /\ -7 <= 4 * (filtered + q) - (value - Nominal) - 8 * w
       /\ 4 * (filtered + q) - (value - Nominal) - 8 * w <= 7
       /\ 25600000 * e >= 1669565 * filtered + 207174 * (value - Nominal) - rest - 9830399744
       /\ 25600000 * e <= 1669565 * filtered + 207174 * (value - Nominal) - rest + 204796875

(* A microframe of playback, the feedback it sends included: the trend     *)
(* loses the packets that did not get in and, once a millisecond, a part   *)
(* in 231 of itself; the truncating divisions add an offset of their own.  *)
LEMMA PlayTrend ==
    ASSUME CodeWorld, RangeInv, Play, fill >= TransferBytes
    PROVE  \E rest \in Int :
              /\ rest <= Trend /\ Trend - 1433600000 <= rest
              /\ rest = Trend \/ Lost \/ Dropped
              /\ Ahead > 1 => /\ Ahead' = Ahead - 1 /\ Trend' = rest
                              /\ UNCHANGED <<filtered, value>>
              /\ Ahead = 1 => /\ Ahead' = 8 /\ Filters(rest)
                              /\ 231 * Trend' <= 230 * rest + 1792000000
                              /\ 231 * Trend' >= 230 * rest - 11417600000
<1>1. stage = "joined" /\ Microframe /\ SendFeedback /\ time \in Nat
  BY DEF Play, Goes, RangeInv
<1>2. PICK missed \in Int :
         /\ 0 <= missed /\ missed <= 56 /\ (missed = 0 \/ Lost \/ Dropped)
         /\ 25600000 * (fill' - 4096) + 3125 * hostAcc' - 256 * dmaAcc'
               = Level - Ahead * Flow + Flow - 25600000 * missed
  BY <1>1, RingFlows
<1>3. PICK ahead \in Int : ahead = Ahead * Flow
  BY FlowFacts
<1>4. PICK before \in Int : before = Level - 25600000 * missed
  BY LevelFacts
<1>5. PICK rest \in Int : rest = Trend - 25600000 * missed
  BY LevelFacts
<1>6. Nominal' = Nominal /\ PerMicroframe' = PerMicroframe
  BY <1>1 DEF Microframe, Nominal, PerMicroframe
<1>7. /\ Ahead \in 1..8 /\ (FeedbackSent <=> Ahead = 1)
      /\ Ahead' = IF Ahead = 1 THEN 8 ELSE Ahead - 1
  BY <1>1, AheadFacts DEF Microframe
<1>8. PICK ring \in Int : ring = 25600000 * (fill' - 4096) + 3125 * hostAcc' - 256 * dmaAcc'
  BY <1>2, <1>3, LevelFacts, FlowFacts
<1>9. ring = before - ahead + Flow
  BY <1>2, <1>3, <1>4, <1>8, LevelFacts, FlowFacts
<1>10. Level' = ring + Ahead' * Flow'
  <2>1. Target' = 4096 /\ ByteUnits' = 25600000
    BY DEF Target, HalfRing, Capacity, ByteUnits
  <2>2. Level' = 25600000 * (fill' - 4096) + 3125 * hostAcc' - 256 * dmaAcc' + Ahead' * Flow'
    BY <2>1 DEF Level
  <2>3. PICK more : more = Ahead' * Flow'
    OBVIOUS
  <2> QED
    BY <1>8, <2>2, <2>3
<1>11. ASSUME Ahead > 1
       PROVE  Trend' = rest /\ UNCHANGED <<filtered, value>>
  <2>1. UNCHANGED <<hostRate, value, filtered>>
    BY <1>1, <1>7, <1>11 DEF SendFeedback, controller
  <2>2. Flow' = Flow
    BY <1>6, <2>1 DEF Flow
  <2>3. PICK flow \in Int : flow = Flow
    BY FlowFacts
  <2>4. \A n \in 1..8 : (n - 1) * flow = n * flow - flow
    BY SMT
  <2>5. Ahead' * Flow' = ahead - flow
    BY <1>3, <1>7, <1>11, <2>2, <2>3, <2>4
  <2>6. Level' = before
    BY <1>9, <1>10, <2>3, <2>5
  <2>7. Trend' = before + 1669565 * filtered + 207174 * (value - Nominal)
    BY <1>6, <2>1, <2>6 DEF Trend
  <2>8. Trend' = rest
    BY <1>4, <1>5, <2>7, LevelFacts, RangeFacts, SMT DEF Trend
  <2> QED
    BY <2>1, <2>8
<1>12. ASSUME Ahead = 1
       PROVE  /\ Filters(rest)
              /\ 231 * Trend' <= 230 * rest + 1792000000
              /\ 231 * Trend' >= 230 * rest - 11417600000
  <2>1. hostRate' = value /\ Update(FillAfter) /\ fill' = FillAfter
    BY <1>1, <1>7, <1>12 DEF SendFeedback, Microframe
  <2>2. FillAfter \in 0..Capacity
    BY RingFacts DEF RangeInv
  <2>3. PICK q \in Int, w \in Int :
           /\ filtered' = filtered + q /\ value' = value + w
           /\ -15 <= Target - FillAfter - filtered - 16 * q
           /\ Target - FillAfter - filtered - 16 * q <= 15
           /\ -7 <= 4 * (filtered + q) - (value - Nominal) - 8 * w
           /\ 4 * (filtered + q) - (value - Nominal) - 8 * w <= 7
    BY <2>1, <2>2, UpdateFacts
  <2>4. PICK z \in Int : z = value - Nominal
    BY RangeFacts
  <2>5. PICK drain \in Int : drain = 3125 * Nominal - 256 * PerMicroframe
    BY RangeFacts
  <2>6. Flow' = 3125 * z + drain
    BY <1>6, <2>1, <2>4, <2>5, RangeFacts, SMT DEF Flow
  <2>7. ring = before
    BY <1>3, <1>7, <1>9, <1>12, FlowFacts
  <2>8. Level' = before + 25000 * z + 8 * drain
    BY <1>7, <1>10, <1>12, <2>4, <2>5, <2>6, <2>7
  <2>9. PICK e \in Int : e = 4096 - FillAfter
    BY <2>2, Sizes, SMTT(30)
  <2>10. hostAcc' \in Int /\ 0 <= hostAcc' /\ hostAcc' <= 65535
    <3>1. hostAcc' \in 0..(OneFrame - 1)
      <4>1. OneFrame \in Nat \ {0} /\ hostAcc \in Nat /\ hostRate \in Nat
        BY RangeFacts, Sizes, SMT DEF RangeInv
      <4> QED
        BY <1>1, <4>1, RestFacts DEF Microframe
    <3> QED
      BY <3>1, FractionFacts
  <2>11. dmaAcc' \in Int /\ 0 <= dmaAcc' /\ dmaAcc' <= 38399999
    BY <1>1, RangeFacts, SMT DEF Microframe, TransferDue, PerTransfer
  <2>12. PICK acc \in Int, dma \in Int, f \in Int : hostAcc' = acc /\ dmaAcc' = dma /\ fill' = f
    BY <2>1, <2>2, <2>10, <2>11, Sizes, SMTT(30)
  <2>13. -200000000000 <= before /\ before <= 200000000000
    BY <1>2, <1>4, LevelFacts, RangeFacts, SMT
  <2>14. PICK y \in Int : y = filtered /\ -4096 <= y /\ y <= 4096
    BY RangeFacts
  <2>15. -16384 <= z /\ z <= 16384
    BY <2>4, RangeFacts, SMT DEF RangeInv
  <2>16. -615025 <= drain /\ drain <= 614400
    BY <2>5, RangeFacts
  <2>17. -15 <= e - y - 16 * q /\ e - y - 16 * q <= 15
    BY <2>2, <2>3, <2>9, <2>14, Sizes, SMTT(30)
  <2>18. -7 <= 4 * (y + q) - z - 8 * w /\ 4 * (y + q) - z - 8 * w <= 7
    BY <2>3, <2>4, <2>14, SMT
  <2>19. rest = before + 1669565 * y + 207174 * z
    BY <1>4, <1>5, <2>4, <2>14, LevelFacts, SMT DEF Trend
  <2>20. Trend' = before + 25000 * z + 8 * drain + 1669565 * (y + q) + 207174 * (z + w)
    <3>1. Trend' = Level' + 1669565 * filtered' + 207174 * (value' - Nominal)
      BY <1>6 DEF Trend
    <3>2. value' - Nominal = z + w
      BY <2>3, <2>4, RangeFacts, SMT
    <3> QED
      BY <2>3, <2>4, <2>5, <2>8, <2>14, <3>1, <3>2, SMT
  <2>21. 0 <= acc /\ acc <= 65535 /\ 0 <= dma /\ dma <= 38399999
    BY <2>10, <2>11, <2>12
  <2>22. before = 25600000 * (f - 4096) + 3125 * acc - 256 * dma
    <3>1. before = 25600000 * (fill' - 4096) + 3125 * hostAcc' - 256 * dmaAcc'
      BY <1>8, <2>7
    <3> QED
      BY <2>12, <3>1, SMT
  <2>23. 25600000 * e = 3125 * acc - 256 * dma - before
    BY <2>1, <2>9, <2>12, <2>22, SMT
  <2>24. PICK after : after = before + 25000 * z + 8 * drain + 1669565 * (y + q) + 207174 * (z + w)
    OBVIOUS
  <2>25. 231 * after <= 230 * rest + 1792000000 /\ 231 * after >= 230 * rest - 11417600000
    BY <2>13, <2>14, <2>15, <2>16, <2>17, <2>18, <2>19, <2>21, <2>23, <2>24,
       TrendContracts, SMT
  <2>26. Trend' = after
    BY <2>20, <2>24
  <2>27. Filters(rest)
    <3>1. 25600000 * e >= 1669565 * y + 207174 * z - rest - 9830399744
      BY <2>19, <2>21, <2>23, SMT
    <3>2. 25600000 * e <= 1669565 * y + 207174 * z - rest + 204796875
      BY <2>19, <2>21, <2>23, SMT
    <3>3. filtered' = y + q /\ value' - Nominal = z + w
      BY <2>3, <2>4, <2>14, RangeFacts, SMT
    <3> QED
      BY <2>4, <2>14, <2>17, <2>18, <3>1, <3>2, <3>3, SMT DEF Filters
  <2> QED
    BY <2>25, <2>26, <2>27, SMT
<1>13. rest <= Trend /\ Trend - 1433600000 <= rest /\ (rest = Trend \/ Lost \/ Dropped)
  BY <1>2, <1>5, LevelFacts, SMT
<1> QED
  BY <1>7, <1>11, <1>12, <1>13
LEMMA InitRange == CodeWorld /\ Init => RangeInv
<1> SUFFICES ASSUME CodeWorld, Init PROVE RangeInv
  OBVIOUS
<1>1. LimitInv
  BY InitLimits
<1>2. Nominal \in Nat
  BY <1>1, RateFacts DEF LimitInv
<1>3. value - Nominal = 0 /\ hostRate - Nominal = 0
  BY <1>2 DEF Init
<1>4. dmaAcc = 0 /\ 0 < PerTransfer
  BY SMT DEF Init, PerTransfer
<1>5. audible \in BOOLEAN /\ glitch \in BOOLEAN /\ drift \in Drifts
  BY Zenon DEF Init
<1>6. stage = "settle" /\ age = 0 /\ time = 0 /\ gap = 0 /\ GapLength \in Nat
  BY FeedbackAssumption, Zenon DEF Init
<1> QED
  BY <1>1, <1>3, <1>4, <1>5, <1>6 DEF RangeInv

LEMMA MicroframeRange ==
    ASSUME CodeWorld, RangeInv, Microframe
    PROVE  /\ dmaAcc' \in Int /\ 0 <= dmaAcc' /\ dmaAcc' < PerTransfer
           /\ time' = time + 1 /\ time' \in Nat /\ gap' \in Nat /\ gap' <= GapLength
           /\ drift' = drift /\ glitch' \in BOOLEAN /\ Nominal' = Nominal
<1>1. /\ dmaAcc \in Int /\ 0 <= dmaAcc /\ dmaAcc < 38400000 /\ PerTransfer = 38400000
      /\ PerMicroframe \in Int /\ 4000000 <= PerMicroframe /\ PerMicroframe <= 5000000
  BY RangeFacts, SMT DEF PerTransfer
<1>2. dmaAcc' = dmaAcc \/ dmaAcc' = dmaAcc + PerMicroframe - PerTransfer
         \/ dmaAcc' = dmaAcc + PerMicroframe
  BY DEF Microframe
<1>3. dmaAcc' = dmaAcc + PerMicroframe - PerTransfer => dmaAcc + PerMicroframe >= PerTransfer
         \/ dmaAcc' = dmaAcc \/ dmaAcc' = dmaAcc + PerMicroframe
  BY DEF Microframe, TransferDue
<1>4. dmaAcc' = dmaAcc + PerMicroframe => dmaAcc + PerMicroframe < PerTransfer
         \/ dmaAcc' = dmaAcc \/ dmaAcc' = dmaAcc + PerMicroframe - PerTransfer
  BY <1>1, SMT DEF Microframe, TransferDue
<1>5. dmaAcc' \in Int /\ 0 <= dmaAcc' /\ dmaAcc' < PerTransfer
  BY <1>1, <1>2, <1>3, <1>4, SMT
<1>6. time' = time + 1 /\ time' \in Nat
  BY DEF Microframe, RangeInv
<1>7. gap' \in Nat /\ gap' <= GapLength
  BY FeedbackAssumption DEF Microframe, RangeInv, Lost
<1> QED
  BY <1>5, <1>6, <1>7 DEF Microframe, Nominal, RangeInv

LEMMA FeedbackRange ==
    ASSUME CodeWorld, RangeInv, Microframe, SendFeedback
    PROVE  /\ value' - Nominal >= -16384 /\ value' - Nominal <= 16384
           /\ hostRate' - Nominal >= -16384 /\ hostRate' - Nominal <= 16384
<1>1. CASE FeedbackSent
  <2>1. hostRate' = value /\ Update(FillAfter) /\ FillAfter \in 0..Capacity
    BY <1>1, RingFacts DEF SendFeedback, RangeInv
  <2>2. PICK w \in Int :
           value' = value + w /\ -16384 <= value + w - Nominal /\ value + w - Nominal <= 16384
    BY <2>1, UpdateFacts
  <2> QED
    <3>1. value - Nominal >= -16384 /\ value - Nominal <= 16384
      BY DEF RangeInv
    <3> QED
      BY <2>1, <2>2, <3>1, RangeFacts, SMT
<1>2. CASE ~FeedbackSent
  BY <1>2, SMT DEF SendFeedback, controller, RangeInv
<1> QED
  BY <1>1, <1>2

LEMMA StepRange == CodeWorld /\ RangeInv /\ [Next]_vars => RangeInv'
<1> SUFFICES ASSUME CodeWorld, RangeInv, [Next]_vars PROVE RangeInv'
  OBVIOUS
<1>1. LimitInv'
  BY StepLimits DEF RangeInv
<1>2. CASE (Settle \/ Prefill \/ Play)
  <2>1. Microframe /\ SendFeedback
    BY <1>2 DEF Settle, Prefill, Play, Goes
  <2>2. stage' = stage /\ age' = age + 1
    BY <1>2 DEF Settle, Prefill, Play, Ages
  <2>3. audible' \in BOOLEAN
    <3>1. audible' = audible \/ audible' = (audible \/ age >= CloseDelay)
      BY <1>2, Zenon DEF Settle, Prefill, Play, Ages
    <3>2. audible \in BOOLEAN
      BY DEF RangeInv
    <3> QED
      BY <3>1, <3>2, Zenon
  <2>4. PerTransfer' = PerTransfer
    BY DEF PerTransfer
  <2>5. age' \in Nat /\ stage' \in {"settle", "prefill", "joined"}
    BY <2>2 DEF RangeInv
  <2> QED
    BY <1>1, <2>1, <2>3, <2>4, <2>5, MicroframeRange, FeedbackRange, SMT DEF RangeInv
<1>3. CASE StartEngine
  <2>1. Microframe /\ value' = Nominal /\ hostRate' = hostRate
    BY <1>3 DEF StartEngine, Goes, Reset
  <2>2. stage' = "prefill" /\ age' = 0 /\ audible' = audible
    BY <1>3 DEF StartEngine
  <2>3. PerTransfer' = PerTransfer
    BY DEF PerTransfer
  <2> QED
    BY <1>1, <2>1, <2>2, <2>3, MicroframeRange, RangeFacts, SMT DEF RangeInv
<1>4. CASE Join
  <2>1. PICK p \in 0..3 : dmaAcc' = (p * PerTransfer) \div 4
    BY <1>4 DEF Join, CodeWorld
  <2>2. dmaAcc' \in Int /\ 0 <= dmaAcc' /\ dmaAcc' < PerTransfer /\ PerTransfer' = PerTransfer
    BY <2>1, SMT DEF PerTransfer
  <2>3. /\ stage' = "joined" /\ age' = 0
        /\ UNCHANGED <<rate, drift, controller, hostRate, time, gap, audible, glitch>>
    BY <1>4 DEF Join
  <2> QED
    BY <1>1, <2>2, <2>3 DEF RangeInv, Nominal, controller
<1>5. CASE Pause
  <2>1. /\ stage' = "prefill" /\ age' = 0 /\ hostRate' = value
        /\ UNCHANGED <<rate, drift, value, dmaAcc, time, gap, audible, glitch>>
    BY <1>5 DEF Pause, controller
  <2>2. Nominal' = Nominal /\ PerTransfer' = PerTransfer
    BY <2>1 DEF Nominal, PerTransfer
  <2> QED
    BY <1>1, <2>1, <2>2 DEF RangeInv
<1>6. CASE LosePackets
  <2>1. /\ gap' = GapLength
        /\ UNCHANGED <<rate, drift, value, hostRate, dmaAcc, stage, age, time, audible, glitch>>
    BY <1>6 DEF LosePackets, controller
  <2>2. Nominal' = Nominal /\ PerTransfer' = PerTransfer
    BY <2>1 DEF Nominal, PerTransfer
  <2> QED
    BY <1>1, <2>1, <2>2, FeedbackAssumption DEF RangeInv
<1>7. CASE Over \/ UNCHANGED vars
  <2>1. UNCHANGED <<rate, drift, value, hostRate, dmaAcc, stage, age, time, gap, audible, glitch>>
    BY <1>7 DEF Over, vars, controller
  <2>2. Nominal' = Nominal /\ PerTransfer' = PerTransfer
    BY <2>1 DEF Nominal, PerTransfer
  <2> QED
    BY <1>1, <2>1, <2>2 DEF RangeInv
<1> QED
  BY <1>2, <1>3, <1>4, <1>5, <1>6, <1>7 DEF Next
----------------------------------------------------------------------------
(* From an overflowing ring to playback.                                   *)

(* 8136: less than one packet, of 56 bytes at most, fits.                  *)
StageInv ==
    /\ stage = "settle" =>
          ~audible /\ gap = 0 /\ age <= 560 /\ (fill >= 32 * age \/ fill > 8136)
    /\ stage = "prefill" /\ ~audible => gap = 0 /\ fill > 8136
    /\ stage = "prefill" /\ audible =>
          fill <= 4151 /\ (gap > 0 => fill = 0) /\ (age < 8 => fill <= 56 * age)
    /\ stage = "joined" /\ ~audible => age <= 960

LEMMA FillRises ==
    ASSUME CodeWorld, RangeInv, Microframe, stage # "joined"
    PROVE  \E packet \in Int :
              /\ 40 <= packet /\ packet <= 56 /\ packet = Packet
              /\ fill' = IF gap > 0 \/ fill + packet > 8192 THEN fill ELSE fill + packet
              /\ gap' = IF gap > 0 THEN gap - 1 ELSE gap
<1>1. PICK frames \in Int : Packet = 8 * frames /\ 5 <= frames /\ frames <= 7
  BY PacketRange
<1>2. PICK packet \in Int : packet = Packet
  BY <1>1
<1>3. fill' = Pushed /\ gap' = IF gap > 0 THEN gap - 1 ELSE gap
  BY DEF Microframe, FillAfter, TransferDue, Lost
<1>4. Pushed = IF gap > 0 \/ fill + packet > 8192 THEN fill ELSE fill + packet
  BY <1>2, Sizes DEF Pushed, Dropped, Lost
<1> QED
  BY <1>1, <1>2, <1>3, <1>4

LEMMA InitStage == Init => StageInv
BY SMT DEF Init, StageInv

LEMMA StepStage ==
    ASSUME CodeWorld, RangeInv, StageInv, [Next]_vars
    PROVE  StageInv'
<1>1. /\ fill \in Int /\ 0 <= fill /\ fill <= 8192
      /\ age \in Nat /\ gap \in Nat
  BY RangeFacts DEF RangeInv
<1>2. audible \in BOOLEAN /\ HalfRing = 4096 /\ StartDelay = 560 /\ CloseDelay = 960
  BY DEF RangeInv, HalfRing, Capacity, StartDelay, CloseDelay
<1>3. CASE Settle
  <2>1. PICK packet \in Int :
           /\ 40 <= packet /\ packet <= 56
           /\ fill' = IF gap > 0 \/ fill + packet > 8192 THEN fill ELSE fill + packet
           /\ gap' = IF gap > 0 THEN gap - 1 ELSE gap
    BY <1>3, FillRises DEF Settle, Goes
  <2>2. stage = "settle" /\ stage' = "settle" /\ age < 560 /\ age' = age + 1 /\ audible' = audible
    BY <1>2, <1>3 DEF Settle, Goes, Ages
  <2>3. ~audible /\ gap = 0 /\ (fill >= 32 * age \/ fill > 8136)
    BY <2>2 DEF StageInv
  <2>4. age' <= 560 /\ gap' = 0 /\ (fill' >= 32 * age' \/ fill' > 8136)
    BY <1>1, <2>1, <2>2, <2>3, SMT
  <2> QED
    BY <2>2, <2>3, <2>4 DEF StageInv
<1>4. CASE StartEngine
  <2>1. PICK packet \in Int :
           /\ 40 <= packet /\ packet <= 56
           /\ fill' = IF gap > 0 \/ fill + packet > 8192 THEN fill ELSE fill + packet
           /\ gap' = IF gap > 0 THEN gap - 1 ELSE gap
    BY <1>4, FillRises DEF StartEngine, Goes
  <2>2. stage = "settle" /\ age = 560 /\ stage' = "prefill" /\ audible' = audible
    BY <1>2, <1>4 DEF StartEngine, Goes
  <2>3. ~audible /\ gap = 0 /\ (fill >= 32 * age \/ fill > 8136)
    BY <2>2 DEF StageInv
  <2>4. gap' = 0 /\ fill' > 8136
    BY <1>1, <2>1, <2>2, <2>3, SMT
  <2> QED
    BY <2>2, <2>3, <2>4 DEF StageInv
<1>5. CASE Prefill
  <2>1. PICK packet \in Int :
           /\ 40 <= packet /\ packet <= 56
           /\ fill' = IF gap > 0 \/ fill + packet > 8192 THEN fill ELSE fill + packet
           /\ gap' = IF gap > 0 THEN gap - 1 ELSE gap
    BY <1>5, FillRises DEF Prefill, Goes
  <2>2. /\ stage = "prefill" /\ stage' = "prefill" /\ age' = age + 1 /\ audible' = audible
        /\ ~(age >= 8 /\ fill >= 4096)
    BY <1>2, <1>5 DEF Prefill, Goes, Ages, DmaStarted, Enough
  <2>3. CASE audible
    <3> stage = "prefill" /\ audible
      BY <2>2, <2>3
    <3>1. fill <= 4151 /\ (gap > 0 => fill = 0) /\ (age < 8 => fill <= 56 * age)
      BY DEF StageInv
    <3>2. fill' <= 4151 /\ (gap' > 0 => fill' = 0) /\ (age' < 8 => fill' <= 56 * age')
      BY <1>1, <2>1, <2>2, <3>1, SMT
    <3>3. audible' /\ stage' = "prefill"
      BY <2>2, <2>3
    <3> QED
      BY <3>2, <3>3 DEF StageInv
  <2>4. CASE ~audible
    <3>1. gap = 0 /\ fill > 8136
      BY <2>2, <2>4 DEF StageInv
    <3>2. gap' = 0 /\ fill' > 8136
      BY <1>1, <2>1, <3>1, SMT
    <3> QED
      BY <2>2, <2>4, <3>2 DEF StageInv
  <2> QED
    BY <2>3, <2>4
<1>6. CASE Join
  <2>1. stage' = "joined" /\ age' = 0
    BY <1>6 DEF Join
  <2> QED
    BY <2>1 DEF StageInv
<1>7. CASE Play
  <2>1. /\ stage = "joined" /\ stage' = "joined" /\ age' = age + 1
        /\ audible' = (audible \/ age >= 960)
    BY <1>2, <1>7 DEF Play, Goes
  <2>2. ~audible' => age' <= 960
    <3>1. ~audible' => ~(age >= 960)
      BY <2>1, Zenon
    <3> QED
      BY <1>1, <2>1, <3>1
  <2> QED
    BY <2>1, <2>2 DEF StageInv
<1>8. CASE Pause
  <2>1. stage' = "prefill" /\ age' = 0 /\ fill' = 0 /\ audible /\ audible' = audible
    BY <1>8 DEF Pause
  <2> QED
    BY <2>1, SMT DEF StageInv
<1>9. CASE LosePackets
  <2>1. stage = "joined" /\ UNCHANGED <<stage, age, audible>>
    BY <1>9 DEF LosePackets
  <2> QED
    BY <2>1 DEF StageInv
<1>10. CASE Over \/ UNCHANGED vars
  BY <1>10 DEF Over, vars, StageInv
<1> QED
  BY <1>3, <1>4, <1>5, <1>6, <1>7, <1>8, <1>9, <1>10 DEF Next
----------------------------------------------------------------------------
(* Bounds on the trend in playback.                                        *)

(* Bursts of 40 packets (5 ms) at most, a second from start to start.      *)
RareBursts ==
    /\ GapTimes \subseteq Nat /\ (\A t \in GapTimes : GapLength <= 40)
    /\ \A s \in GapTimes, t \in GapTimes : s < t => t - s >= 8000

(* The burst that began at t: under way, or over.                          *)
Bursting(t)   == t <= time /\ time < t + GapLength /\ gap = GapLength - (time - t)
Recovering(t) == t + GapLength <= time /\ gap = 0

(* From above: the full ring a stream starts with drains by 12 bytes a     *)
(* millisecond until the relay closes.                                     *)
HighInv ==
    /\ stage = "joined" /\ audible => Trend <= 25600000 * 3100
    /\ stage = "joined" /\ ~audible => 2 * Trend <= 25600000 * (9066 - 3 * (age + Ahead))

(* From below, before the relay closes: it drains by 16 bytes a            *)
(* millisecond at most, and one burst takes 56 bytes a microframe.         *)
ColdFloor == 3183 - 2 * (age + Ahead)
ColdInv ==
    stage = "joined" /\ ~audible =>
        \/ gap = 0 /\ Trend >= 25600000 * ColdFloor
        \/ \E t \in GapTimes : /\ Bursting(t) /\ time <= t + age
                              /\ Trend >= 25600000 * (ColdFloor - 56 * (time - t))
        \/ \E t \in GapTimes : /\ Recovering(t) /\ time <= t + age
                              /\ Trend >= 25600000 * (ColdFloor - 2240)

(* From below, once it is closed: a burst takes 56 bytes a microframe, and *)
(* the controller makes up for it by 2.4 bytes a millisecond at least.     *)
LowInv ==
    stage = "joined" /\ audible =>
        \/ gap = 0 /\ Trend >= 25600000 * (-1010)
        \/ \E t \in GapTimes : /\ Bursting(t)
                              /\ Trend >= 25600000 * (-1010 - 56 * (time - t))
        \/ \E t \in GapTimes :
              /\ Recovering(t)
              /\ 10 * Trend >= 25600000 * (3 * (time + Ahead - (t + GapLength) - 8) - 32500)

LevelBounds ==
    /\ Level \in Int /\ Trend \in Int
    /\ -10244920200 <= Level - 25600000 * (fill - 4096)
    /\ Level - 25600000 * (fill - 4096) <= 619315200
    /\ -10232877056 <= Trend - Level /\ Trend - Level <= 10232877056

LEMMA LevelIsBounded == CodeWorld /\ RangeInv => LevelBounds
<1> SUFFICES ASSUME CodeWorld, RangeInv PROVE LevelBounds
  OBVIOUS
<1> QED
  BY LevelFacts, SMT DEF LevelBounds

LEMMA NextLevelIsBounded == CodeWorld /\ RangeInv' => LevelBounds'
<1>1. (CodeWorld /\ RangeInv => LevelBounds)'
  BY LevelIsBounded, PTL
<1>2. CodeWorld' <=> CodeWorld
  BY DEF CodeWorld
<1> QED
  BY <1>1, <1>2

(* What a step of no playback leaves alone.                                *)
LEMMA TrendKept ==
    ASSUME UNCHANGED <<rate, drift, value, filtered, hostRate, hostAcc, fill, dmaAcc, time>>
    PROVE  Trend' = Trend /\ Ahead' = Ahead
<1>1. Nominal' = Nominal /\ PerMicroframe' = PerMicroframe
  BY DEF Nominal, PerMicroframe
<1>2. Flow' = Flow /\ Ahead' = Ahead /\ Target' = Target /\ ByteUnits' = ByteUnits
  BY <1>1 DEF Flow, Ahead, Target, HalfRing, Capacity, ByteUnits
<1>3. Level' = Level
  BY <1>2 DEF Level
<1> QED
  BY <1>1, <1>2, <1>3 DEF Trend

(* The bounds keep the ring off its ends.                                  *)
LEMMA RingHasRoom ==
    ASSUME CodeWorld, RangeInv, HighInv, stage = "joined", audible
    PROVE  fill + Packet <= 8192
<1>1. PICK frames \in Int : Packet = 8 * frames /\ 5 <= frames /\ frames <= 7
  BY PacketRange
<1>2. Trend <= 25600000 * 3100
  BY DEF HighInv
<1>3. fill + 56 <= 8192
  BY <1>2, LevelFacts, RangeFacts, SMT
<1> QED
  BY <1>1, <1>3, RangeFacts, SMT

LEMMA RingHasTransfer ==
    ASSUME CodeWorld, RareBursts, RangeInv, StageInv, LowInv, ColdInv, stage = "joined"
    PROVE  fill >= 384 /\ (~audible => fill >= 2048)
<1>1. /\ GapLength \in Nat /\ time \in Nat /\ GapTimes \subseteq Nat
      /\ \A t \in GapTimes : GapLength <= 40
  BY FeedbackAssumption DEF RareBursts, RangeInv
<1>2. PICK ahead \in 1..8 : ahead = Ahead
  BY <1>1, AheadFacts
<1>3. PICK trend \in Int : trend = Trend
  BY LevelFacts
<1>4. CASE audible
  <2>1. trend >= 25600000 * (-3253)
    <3>1. CASE gap = 0 /\ Trend >= 25600000 * (-1010)
      BY <1>3, <3>1, SMT
    <3>2. ASSUME NEW t \in GapTimes, Bursting(t), Trend >= 25600000 * (-1010 - 56 * (time - t))
          PROVE  trend >= 25600000 * (-3253)
      BY <1>1, <1>3, <3>2, SMT DEF Bursting
    <3>3. ASSUME NEW t \in GapTimes, Recovering(t),
                 10 * Trend >= 25600000 * (3 * (time + Ahead - (t + GapLength) - 8) - 32500)
          PROVE  trend >= 25600000 * (-3253)
      BY <1>1, <1>2, <1>3, <3>3, SMT DEF Recovering
    <3> QED
      BY <1>4, <3>1, <3>2, <3>3 DEF LowInv
  <2> QED
    BY <1>3, <1>4, <2>1, LevelFacts, RangeFacts, SMT
<1>5. CASE ~audible
  <2>1. age \in Nat /\ age <= 960
    BY <1>5 DEF StageInv, RangeInv
  <2>2. PICK floor \in Int : floor = ColdFloor /\ floor >= 1247
    BY <1>2, <2>1, SMT DEF ColdFloor
  <2>3. trend >= 25600000 * (floor - 2240)
    <3>1. CASE gap = 0 /\ Trend >= 25600000 * ColdFloor
      BY <1>3, <2>2, <3>1, SMT
    <3>2. ASSUME NEW t \in GapTimes, Bursting(t),
                 Trend >= 25600000 * (ColdFloor - 56 * (time - t))
          PROVE  trend >= 25600000 * (floor - 2240)
      BY <1>1, <1>3, <2>2, <3>2, SMT DEF Bursting
    <3>3. ASSUME NEW t \in GapTimes, Trend >= 25600000 * (ColdFloor - 2240)
          PROVE  trend >= 25600000 * (floor - 2240)
      BY <1>3, <2>2, <3>3
    <3> QED
      BY <1>5, <3>1, <3>2, <3>3 DEF ColdInv
  <2> QED
    BY <1>3, <2>2, <2>3, LevelFacts, RangeFacts, SMT
<1> QED
  BY <1>4, <1>5 DEF RangeInv
----------------------------------------------------------------------------
(* Playback keeps them.                                                    *)

(* A step of playback in numbers: n and m microframes until the feedback,  *)
(* before and after it, the trend, the trend less the packet that was      *)
(* lost, and the trend after the step.                                     *)
Stepped(n, trend, rest, m, next) ==
    /\ rest <= trend /\ trend - 25600000 * 56 <= rest
    /\ rest = trend \/ gap > 0 \/ (~audible /\ rest >= 25600000 * 3184)
    /\ n > 1 => m = n - 1 /\ next = rest
    /\ n = 1 => m = 8 /\ 231 * next <= 230 * rest + 1792000000
                     /\ 231 * next >= 230 * rest - 11417600000

LEMMA PlayStep ==
    ASSUME CodeWorld, RareBursts, RangeInv, RangeInv', StageInv, HighInv, ColdInv, LowInv, Play
    PROVE  \E n \in 1..8, trend \in Int, rest \in Int, m \in 1..8, next \in Int :
              /\ Ahead = n /\ Trend = trend /\ Ahead' = m /\ Trend' = next
              /\ Stepped(n, trend, rest, m, next)
              /\ (n > 1 => UNCHANGED <<filtered, value>>) /\ (n = 1 => Filters(rest))
<1>1. stage = "joined" /\ Microframe /\ time \in Nat
  BY DEF Play, Goes, RangeInv
<1>2. fill >= TransferBytes
  BY <1>1, RingHasTransfer, Sizes
<1>3. PICK rest \in Int :
         /\ rest <= Trend /\ Trend - 1433600000 <= rest
         /\ rest = Trend \/ Lost \/ Dropped
         /\ Ahead > 1 => Ahead' = Ahead - 1 /\ Trend' = rest /\ UNCHANGED <<filtered, value>>
         /\ Ahead = 1 => /\ Ahead' = 8 /\ Filters(rest)
                         /\ 231 * Trend' <= 230 * rest + 1792000000
                         /\ 231 * Trend' >= 230 * rest - 11417600000
  BY <1>2, PlayTrend
<1>4. PICK n \in 1..8 : Ahead = n
  BY <1>1, AheadFacts
<1>5. PICK m \in 1..8 : Ahead' = m
  BY <1>1, <1>4, AheadFacts DEF Microframe
<1>6. PICK trend \in Int : Trend = trend
  BY LevelFacts
<1>7. PICK next \in Int : Trend' = next
  BY NextLevelIsBounded DEF LevelBounds
<1>8. rest <= trend /\ trend - 25600000 * 56 <= rest
  BY <1>3, <1>6, SMT
<1>9. rest = trend \/ gap > 0 \/ (~audible /\ rest >= 25600000 * 3184)
  <2>1. ASSUME Dropped PROVE ~audible /\ rest >= 25600000 * 3184
    <3>1. PICK frames \in Int : Packet = 8 * frames /\ 5 <= frames /\ frames <= 7
      BY PacketRange
    <3>2. fill > 8136
      BY <2>1, <3>1, RangeFacts, Sizes, SMT DEF Dropped
    <3>3. ~(fill + Packet <= 8192)
      BY <2>1, <3>1, RangeFacts, Sizes, SMT DEF Dropped
    <3>4. rest >= 25600000 * 3184
      BY <1>6, <1>8, <3>2, LevelFacts, RangeFacts, SMT
    <3> QED
      BY <1>1, <3>3, <3>4, RingHasRoom
  <2> QED
    BY <1>3, <1>6, <2>1 DEF Lost
<1>10. n > 1 => m = n - 1 /\ next = rest
  BY <1>3, <1>4, <1>5, <1>7, SMT
<1>11. n = 1 => m = 8 /\ 231 * next <= 230 * rest + 1792000000
                     /\ 231 * next >= 230 * rest - 11417600000
  BY <1>3, <1>4, <1>5, <1>7, SMT
<1>12. Stepped(n, trend, rest, m, next)
  BY <1>8, <1>9, <1>10, <1>11, SMT DEF Stepped
<1>13. (n > 1 => UNCHANGED <<filtered, value>>) /\ (n = 1 => Filters(rest))
  BY <1>3, <1>4
<1> QED
  BY <1>4, <1>5, <1>6, <1>7, <1>12, <1>13

(* How the clocks of a step of playback move.                              *)
LEMMA PlayClocks ==
    ASSUME RangeInv, StageInv, Play
    PROVE  /\ time \in Nat /\ age \in Nat /\ gap \in Nat /\ stage = "joined"
           /\ time' = time + 1 /\ age' = age + 1 /\ stage' = "joined"
           /\ (gap > 0 => gap' = gap - 1) /\ (gap = 0 => gap' = 0)
           /\ (audible => audible') /\ (~audible => age <= 960)
           /\ (audible' => audible \/ age = 960)
<1>1. time \in Nat /\ age \in Nat /\ gap \in Nat /\ stage = "joined"
  BY DEF RangeInv, Play, Goes
<1>2. /\ time' = time + 1 /\ age' = age + 1 /\ stage' = "joined"
      /\ (gap > 0 => gap' = gap - 1) /\ (gap = 0 => gap' = 0)
  BY <1>1 DEF Play, Goes, Microframe, Lost
<1>3. ~audible => age <= 960
  BY <1>1 DEF StageInv
<1>4. audible' <=> (audible \/ age >= CloseDelay)
  BY Zenon DEF Play
<1>5. age >= CloseDelay <=> age >= 960
  BY DEF CloseDelay
<1>6. audible' => audible \/ age = 960
  <2>1. SUFFICES ASSUME audible', ~audible PROVE age = 960
    OBVIOUS
  <2>2. age >= 960 /\ age <= 960
    BY <1>3, <1>4, <1>5, <2>1
  <2> QED
    BY <1>1, <2>2
<1> QED
  BY <1>1, <1>2, <1>3, <1>4, <1>6, Zenon

LEMMA PlayKeepsHigh ==
    ASSUME RangeInv, StageInv, HighInv, Play,
           NEW n \in 1..8, NEW trend \in Int, NEW rest \in Int, NEW m \in 1..8, NEW next \in Int,
           Ahead = n, Trend = trend, Ahead' = m, Trend' = next,
           Stepped(n, trend, rest, m, next)
    PROVE  HighInv'
<1>1. /\ rest <= trend /\ (n > 1 => m = n - 1 /\ next = rest)
      /\ (n = 1 => m = 8 /\ 231 * next <= 230 * rest + 1792000000)
  BY SMT DEF Stepped
<1>2. /\ age \in Nat /\ stage = "joined" /\ age' = age + 1
      /\ (audible => audible') /\ (~audible => age <= 960) /\ (audible' => audible \/ age = 960)
  BY PlayClocks
<1>3. CASE audible
  <2>1. trend <= 25600000 * 3100
    BY <1>2, <1>3 DEF HighInv
  <2>2. next <= 25600000 * 3100
    BY <1>1, <2>1, SMT
  <2>3. audible'
    BY <1>2, <1>3
  <2> QED
    BY <2>2, <2>3, SMT DEF HighInv
<1>4. CASE ~audible
  <2>1. 2 * trend <= 25600000 * (9066 - 3 * (age + n)) /\ age <= 960
    BY <1>2, <1>4, SMT DEF HighInv
  <2>2. 2 * next <= 25600000 * (9066 - 3 * (age + 1 + m))
    BY <1>1, <1>2, <2>1, SMT
  <2>3. age = 960 => next <= 25600000 * 3100
    BY <2>2, SMT
  <2> QED
    BY <1>2, <1>4, <2>2, <2>3, SMT DEF HighInv
<1> QED
  BY <1>3, <1>4
(* What a step does to a bound from below.                                 *)
LEMMA FloorsSink ==
    ASSUME NEW n \in 1..8, NEW rest \in Int, NEW next \in Int, NEW floor \in Int,
           n > 1 => next = rest, n = 1 => 231 * next >= 230 * rest - 11417600000,
           rest >= 25600000 * floor
    PROVE  /\ floor <= 3184 => next >= 25600000 * (IF n = 1 THEN floor - 16 ELSE floor)
           /\ floor <= -446 => next >= 25600000 * floor
<1>1. CASE n > 1
  BY <1>1, SMT
<1>2. CASE n = 1
  BY <1>2, SMT
<1> QED
  BY <1>1, <1>2

LEMMA PlayKeepsCold ==
    ASSUME RareBursts, RangeInv, StageInv, ColdInv, Play,
           NEW n \in 1..8, NEW trend \in Int, NEW rest \in Int, NEW m \in 1..8, NEW next \in Int,
           Ahead = n, Trend = trend, Ahead' = m, Trend' = next,
           Stepped(n, trend, rest, m, next)
    PROVE  ColdInv'
<1> SUFFICES ASSUME ~audible' PROVE ColdInv'
  BY DEF ColdInv
<1>1. /\ trend - 25600000 * 56 <= rest
      /\ (rest = trend \/ gap > 0 \/ rest >= 25600000 * 3184)
      /\ (n > 1 => m = n - 1 /\ next = rest)
      /\ (n = 1 => m = 8 /\ 231 * next >= 230 * rest - 11417600000)
  BY SMT DEF Stepped
<1>2. /\ time \in Nat /\ age \in Nat /\ gap \in Nat /\ stage = "joined"
      /\ time' = time + 1 /\ age' = age + 1
      /\ (gap > 0 => gap' = gap - 1) /\ (gap = 0 => gap' = 0) /\ ~audible /\ age <= 960
  BY PlayClocks
<1>3. GapTimes \subseteq Nat /\ GapLength \in Nat /\ (\A t \in GapTimes : GapLength <= 40)
  BY FeedbackAssumption DEF RareBursts
<1>4. PICK floor \in Int : floor = 3183 - 2 * (age + n)
  BY <1>2
<1>5. ColdFloor = floor
  BY <1>4 DEF ColdFloor
<1>6. ColdFloor' = 3183 - 2 * (age + 1 + m)
  BY <1>2 DEF ColdFloor
<1>7. PICK after \in Int : after = 3183 - 2 * (age + 1 + m)
  BY <1>2
<1>8. floor <= 3184 /\ after = IF n = 1 THEN floor - 16 ELSE floor
  BY <1>1, <1>2, <1>4, <1>7, SMT
<1>9. CASE gap = 0 /\ trend >= 25600000 * floor
  <2>1. rest >= 25600000 * floor
    BY <1>1, <1>8, <1>9, SMT
  <2>2. next >= 25600000 * after
    BY <1>1, <1>8, <2>1, FloorsSink, SMT
  <2> QED
    BY <1>2, <1>6, <1>7, <1>9, <2>2 DEF ColdInv
<1>10. ASSUME NEW t \in GapTimes, Bursting(t), time <= t + age,
              trend >= 25600000 * (floor - 56 * (time - t))
       PROVE  ColdInv'
  <2>1. PICK k \in Nat : k = time - t
    BY <1>2, <1>3, <1>10, SMT DEF Bursting
  <2>2. k < GapLength /\ gap = GapLength - k /\ time' - t = k + 1 /\ time' <= t + age'
    BY <1>2, <1>3, <1>10, <2>1, SMT DEF Bursting
  <2>3. rest >= 25600000 * (floor - 56 * (k + 1))
    BY <1>1, <1>10, <2>1, SMT
  <2>4. PICK low \in Int : low = floor - 56 * (k + 1)
    OBVIOUS
  <2>5. rest >= 25600000 * low /\ low <= 3184
    BY <1>8, <2>3, <2>4, SMT
  <2>6. next >= 25600000 * (after - 56 * (k + 1))
    BY <1>1, <1>8, <2>4, <2>5, FloorsSink, SMT
  <2>7. CASE k + 1 < GapLength
    <3>1. Bursting(t)'
      BY <1>2, <1>3, <2>1, <2>2, <2>7, SMT DEF Bursting
    <3>2. Trend' >= 25600000 * (ColdFloor' - 56 * (time' - t))
      BY <1>6, <1>7, <2>2, <2>6, SMT
    <3> QED
      BY <2>2, <3>1, <3>2 DEF ColdInv
  <2>8. CASE k + 1 = GapLength
    <3>1. Recovering(t)'
      BY <1>2, <1>3, <2>1, <2>2, <2>8, SMT DEF Recovering
    <3>2. Trend' >= 25600000 * (ColdFloor' - 2240)
      BY <1>3, <1>6, <1>7, <2>6, <2>8, SMT
    <3> QED
      BY <2>2, <3>1, <3>2 DEF ColdInv
  <2> QED
    BY <1>3, <2>2, <2>7, <2>8, SMT
<1>11. ASSUME NEW t \in GapTimes, Recovering(t), time <= t + age,
              trend >= 25600000 * (floor - 2240)
       PROVE  ColdInv'
  <2>1. gap = 0 /\ t + GapLength <= time /\ t \in Nat
    BY <1>3, <1>11 DEF Recovering
  <2>2. PICK low \in Int : low = floor - 2240
    OBVIOUS
  <2>3. rest >= 25600000 * low /\ low <= 3184
    BY <1>1, <1>8, <1>11, <2>1, <2>2, SMT
  <2>4. next >= 25600000 * (after - 2240)
    BY <1>1, <1>8, <2>2, <2>3, FloorsSink, SMT
  <2>5. Recovering(t)' /\ time' <= t + age'
    BY <1>2, <1>3, <1>11, <2>1, SMT DEF Recovering
  <2>6. Trend' >= 25600000 * (ColdFloor' - 2240)
    BY <1>6, <1>7, <2>4, SMT
  <2> QED
    BY <2>5, <2>6 DEF ColdInv
<1> QED
  BY <1>2, <1>5, <1>9, <1>10, <1>11 DEF ColdInv
LEMMA PlayKeepsLow ==
    ASSUME RareBursts, RangeInv, LowInv, Play, audible, StageInv,
           NEW n \in 1..8, NEW trend \in Int, NEW rest \in Int, NEW m \in 1..8, NEW next \in Int,
           Ahead = n, Trend = trend, Ahead' = m, Trend' = next,
           Stepped(n, trend, rest, m, next)
    PROVE  LowInv'
<1>1. /\ trend - 25600000 * 56 <= rest /\ (rest = trend \/ gap > 0)
      /\ (n > 1 => m = n - 1 /\ next = rest)
      /\ (n = 1 => m = 8 /\ 231 * next >= 230 * rest - 11417600000)
  BY SMT DEF Stepped
<1>2. /\ time \in Nat /\ gap \in Nat /\ stage = "joined" /\ time' = time + 1
      /\ (gap > 0 => gap' = gap - 1) /\ (gap = 0 => gap' = 0)
  BY PlayClocks
<1>3. GapTimes \subseteq Nat /\ GapLength \in Nat /\ (\A t \in GapTimes : GapLength <= 40)
  BY FeedbackAssumption DEF RareBursts
<1>4. CASE gap = 0 /\ trend >= 25600000 * (-1010)
  <2>1. next >= 25600000 * (-1010)
    BY <1>1, <1>4, FloorsSink, SMT
  <2> QED
    BY <1>2, <1>4, <2>1 DEF LowInv
<1>5. ASSUME NEW t \in GapTimes, Bursting(t), trend >= 25600000 * (-1010 - 56 * (time - t))
      PROVE  LowInv'
  <2>1. PICK k \in Nat : k = time - t
    BY <1>2, <1>3, <1>5, SMT DEF Bursting
  <2>2. k < GapLength /\ gap = GapLength - k /\ time' - t = k + 1 /\ t \in Nat
    BY <1>2, <1>3, <1>5, <2>1, SMT DEF Bursting
  <2>3. PICK low \in Int : low = -1010 - 56 * (k + 1)
    OBVIOUS
  <2>4. rest >= 25600000 * low /\ low <= -446
    BY <1>1, <1>5, <2>1, <2>3, SMT
  <2>5. next >= 25600000 * (-1010 - 56 * (k + 1))
    BY <1>1, <2>3, <2>4, FloorsSink, SMT
  <2>6. CASE k + 1 < GapLength
    <3>1. Bursting(t)'
      BY <1>2, <1>3, <2>1, <2>2, <2>6, SMT DEF Bursting
    <3>2. Trend' >= 25600000 * (-1010 - 56 * (time' - t))
      BY <2>2, <2>5, SMT
    <3> QED
      BY <3>1, <3>2 DEF LowInv
  <2>7. CASE k + 1 = GapLength
    <3>1. Recovering(t)' /\ time' = t + GapLength
      BY <1>2, <1>3, <2>1, <2>2, <2>7, SMT DEF Recovering
    <3>2. time' + Ahead' - (t + GapLength) - 8 <= 0 /\ time' + Ahead' - (t + GapLength) - 8 \in Int
      BY <1>2, <1>3, <2>2, <3>1, SMT
    <3>3. 10 * Trend' >= 25600000 * (3 * (time' + Ahead' - (t + GapLength) - 8) - 32500)
      BY <1>3, <2>5, <2>7, <3>2, SMT
    <3> QED
      BY <3>1, <3>3 DEF LowInv
  <2> QED
    BY <1>3, <2>2, <2>6, <2>7, SMT
<1>6. ASSUME NEW t \in GapTimes, Recovering(t),
             10 * trend >= 25600000 * (3 * (time + n - (t + GapLength) - 8) - 32500)
      PROVE  LowInv'
  <2>1. gap = 0 /\ gap' = 0 /\ t + GapLength <= time /\ t \in Nat /\ rest = trend
    BY <1>1, <1>2, <1>3, <1>6, SMT DEF Recovering
  <2>2. Recovering(t)'
    BY <1>2, <1>3, <2>1, SMT DEF Recovering
  <2>3. CASE n > 1
    <3>1. 10 * Trend' >= 25600000 * (3 * (time' + Ahead' - (t + GapLength) - 8) - 32500)
      BY <1>1, <1>2, <1>3, <1>6, <2>1, <2>3, SMT
    <3> QED
      BY <2>2, <3>1 DEF LowInv
  <2>4. CASE n = 1 /\ trend >= 25600000 * (-1010)
    <3>1. next >= 25600000 * (-1010)
      BY <1>1, <2>1, <2>4, FloorsSink, SMT
    <3> QED
      BY <2>1, <3>1 DEF LowInv
  <2>5. CASE n = 1 /\ trend < 25600000 * (-1010)
    <3>1. PICK late \in Int : late = time - (t + GapLength)
      BY <1>2, <1>3, <2>1
    <3>2. 10 * trend >= 25600000 * (3 * (late - 7) - 32500)
      BY <1>2, <1>3, <1>6, <2>1, <2>5, <3>1, SMT
    <3>3. 10 * next >= 25600000 * (3 * (late + 1) - 32500)
      BY <1>1, <2>1, <2>5, <3>2, SMT
    <3>4. 10 * Trend' >= 25600000 * (3 * (time' + Ahead' - (t + GapLength) - 8) - 32500)
      BY <1>1, <1>2, <1>3, <2>1, <2>5, <3>1, <3>3, SMT
    <3> QED
      BY <2>2, <3>4 DEF LowInv
  <2> QED
    BY <2>3, <2>4, <2>5, SMT
<1> QED
  BY <1>2, <1>4, <1>5, <1>6 DEF LowInv

(* At the moment the relay closes.                                         *)
LEMMA CloseKeepsLow ==
    ASSUME RareBursts, RangeInv, StageInv, ColdInv, Play, ~audible,
           NEW n \in 1..8, NEW trend \in Int, NEW rest \in Int, NEW m \in 1..8, NEW next \in Int,
           Ahead = n, Trend = trend, Ahead' = m, Trend' = next,
           Stepped(n, trend, rest, m, next)
    PROVE  LowInv'
<1> SUFFICES ASSUME audible' PROVE LowInv'
  BY DEF LowInv
<1>1. /\ trend - 25600000 * 56 <= rest
      /\ (rest = trend \/ gap > 0 \/ rest >= 25600000 * 3184)
      /\ (n > 1 => next = rest)
      /\ (n = 1 => 231 * next >= 230 * rest - 11417600000)
  BY SMT DEF Stepped
<1>2. /\ time \in Nat /\ gap \in Nat /\ stage = "joined" /\ age = 960 /\ time' = time + 1
      /\ (gap > 0 => gap' = gap - 1) /\ (gap = 0 => gap' = 0)
  BY PlayClocks
<1>3. GapTimes \subseteq Nat /\ GapLength \in Nat /\ (\A t \in GapTimes : GapLength <= 40)
  BY FeedbackAssumption DEF RareBursts
<1>4. PICK floor \in Int : floor = ColdFloor /\ floor >= 1247
  BY <1>2, SMT DEF ColdFloor
<1>5. ASSUME NEW low \in Int, rest >= 25600000 * low, low >= -993
      PROVE  next >= 25600000 * (-1010)
  BY <1>1, <1>5, SMT
<1>6. CASE gap = 0 /\ trend >= 25600000 * floor
  <2>1. rest >= 25600000 * 0
    BY <1>1, <1>4, <1>6, SMT
  <2> QED
    BY <1>2, <1>5, <1>6, <2>1 DEF LowInv
<1>7. ASSUME NEW t \in GapTimes, Bursting(t), trend >= 25600000 * (floor - 56 * (time - t))
      PROVE  LowInv'
  <2>1. PICK k \in Nat : k = time - t
    BY <1>2, <1>3, <1>7, SMT DEF Bursting
  <2>2. k < GapLength /\ gap = GapLength - k /\ time' - t = k + 1 /\ t \in Nat
    BY <1>2, <1>3, <1>7, <2>1, SMT DEF Bursting
  <2>3. rest >= 25600000 * (1247 - 56 * (k + 1)) /\ 1247 - 56 * (k + 1) >= -993
    BY <1>1, <1>3, <1>4, <1>7, <2>1, <2>2, SMT
  <2>4. next >= 25600000 * (-1010)
    BY <1>5, <2>3
  <2>5. CASE k + 1 < GapLength
    <3>1. Bursting(t)'
      BY <1>2, <1>3, <2>1, <2>2, <2>5, SMT DEF Bursting
    <3>2. Trend' >= 25600000 * (-1010 - 56 * (time' - t))
      BY <2>2, <2>4, SMT
    <3> QED
      BY <3>1, <3>2 DEF LowInv
  <2>6. CASE k + 1 = GapLength
    <3>1. gap' = 0
      BY <1>2, <1>3, <2>2, <2>6, SMT
    <3> QED
      BY <2>4, <3>1 DEF LowInv
  <2> QED
    BY <1>3, <2>2, <2>5, <2>6, SMT
<1>8. ASSUME NEW t \in GapTimes, Recovering(t), trend >= 25600000 * (floor - 2240)
      PROVE  LowInv'
  <2>1. gap = 0 /\ rest >= 25600000 * (-993)
    BY <1>1, <1>4, <1>8, SMT DEF Recovering
  <2> QED
    BY <1>2, <1>5, <2>1 DEF LowInv
<1> QED
  BY <1>2, <1>4, <1>6, <1>7, <1>8 DEF ColdInv
----------------------------------------------------------------------------
(* So do a stream that joins and a burst that begins.                      *)

LEMMA JoinKeepsTrend ==
    ASSUME CodeWorld, RangeInv, RangeInv', StageInv, Join
    PROVE  HighInv' /\ ColdInv' /\ LowInv'
<1>1. /\ stage = "prefill" /\ fill >= 4096 /\ age >= 8
      /\ stage' = "joined" /\ age' = 0 /\ fill' = fill /\ time' = time /\ gap' = gap
      /\ audible' = audible
  BY DEF Join, DmaStarted, Enough, HalfRing, Capacity
<1>2. fill \in Int /\ fill <= 8192 /\ time \in Nat /\ gap \in Nat
  BY RangeFacts DEF RangeInv
<1>3. PICK m \in 1..8 : Ahead' = m
  BY <1>1, <1>2, AheadFacts DEF Ahead
<1>4. PICK next \in Int :
         /\ Trend' = next
         /\ -20477797256 <= next - 25600000 * (fill - 4096)
         /\ next - 25600000 * (fill - 4096) <= 10852192256
  <2>1. PICK level \in Int, next \in Int : Level' = level /\ Trend' = next
    BY NextLevelIsBounded DEF LevelBounds
  <2>2. /\ -10244920200 <= level - 25600000 * (fill - 4096)
        /\ level - 25600000 * (fill - 4096) <= 619315200
        /\ -10232877056 <= next - level /\ next - level <= 10232877056
    BY <1>1, <2>1, NextLevelIsBounded, SMT DEF LevelBounds
  <2> QED
    BY <1>2, <2>1, <2>2, SMT
<1>5. CASE audible
  <2> stage = "prefill" /\ audible
    BY <1>1, <1>5
  <2>1. fill <= 4151 /\ gap = 0
    BY <1>1, <1>2, SMT DEF StageInv
  <2>2. next <= 25600000 * 3100 /\ next >= 25600000 * (-1010)
    BY <1>1, <1>2, <1>4, <2>1, SMT
  <2> QED
    BY <1>1, <1>4, <2>1, <2>2 DEF HighInv, ColdInv, LowInv
<1>6. CASE ~audible
  <2>1. fill > 8136 /\ gap = 0
    BY <1>1, <1>6 DEF StageInv
  <2>2. 2 * next <= 25600000 * (9066 - 3 * (0 + m)) /\ next >= 25600000 * (3183 - 2 * (0 + m))
    BY <1>2, <1>4, <2>1, SMT
  <2> QED
    BY <1>1, <1>3, <1>4, <1>6, <2>1, <2>2 DEF HighInv, ColdInv, LowInv, ColdFloor
<1> QED
  BY <1>5, <1>6

LEMMA BurstKeepsTrend ==
    ASSUME CodeWorld, RareBursts, RangeInv, StageInv, HighInv, ColdInv, LowInv, LosePackets
    PROVE  HighInv' /\ ColdInv' /\ LowInv'
<1>1. /\ time \in GapTimes /\ gap = 0 /\ stage = "joined" /\ gap' = GapLength
      /\ UNCHANGED <<rate, drift, value, filtered, hostRate, hostAcc, fill, dmaAcc, stage, age,
                     time, audible>>
  BY DEF LosePackets, controller
<1>2. Trend' = Trend /\ Ahead' = Ahead /\ ColdFloor' = ColdFloor
  BY <1>1, TrendKept DEF ColdFloor
<1>3. GapTimes \subseteq Nat /\ GapLength \in Nat /\ time \in Nat /\ age \in Nat
  BY FeedbackAssumption DEF RareBursts, RangeInv
<1>4. HighInv'
  BY <1>1, <1>2 DEF HighInv
<1>5. CASE GapLength = 0
  <2>1. gap' = gap
    BY <1>1, <1>5
  <2> QED
    BY <1>1, <1>2, <1>4, <2>1 DEF ColdInv, LowInv, Bursting, Recovering
<1>6. CASE GapLength > 0
  <2>1. Bursting(time)' /\ time' - time = 0
    BY <1>1, <1>3, <1>6, SMT DEF Bursting
  <2>2. \A t \in GapTimes : ~Bursting(t)
    BY <1>1, <1>3, SMT DEF Bursting
  <2>3. \A t \in GapTimes : Recovering(t) => time - t >= 8000 /\ t + GapLength <= time
    BY <1>1, <1>3, <1>6, SMT DEF Recovering, RareBursts
  <2>4. PICK trend \in Int, n \in 1..8 : Trend = trend /\ Ahead = n
    BY <1>3, LevelFacts, AheadFacts
  <2>5. ColdInv'
    <3>1. SUFFICES ASSUME ~audible PROVE ColdInv'
      BY <1>1 DEF ColdInv
    <3>2. age <= 960
      BY <1>1, <3>1 DEF StageInv
    <3>3. PICK floor \in Int : ColdFloor = floor
      BY <1>3, <2>4 DEF ColdFloor
    <3>4. \A t \in GapTimes : ~(Recovering(t) /\ time <= t + age)
      BY <1>3, <2>3, <3>2, SMT
    <3>5. trend >= 25600000 * floor
      BY <1>1, <2>2, <2>4, <3>1, <3>3, <3>4 DEF ColdInv
    <3>6. Trend' >= 25600000 * (ColdFloor' - 56 * (time' - time)) /\ time' <= time + age'
      BY <1>1, <1>2, <1>3, <2>1, <2>4, <3>3, <3>5, SMT
    <3> QED
      BY <1>1, <2>1, <3>6 DEF ColdInv
  <2>6. LowInv'
    <3>1. SUFFICES ASSUME audible PROVE LowInv'
      BY <1>1 DEF LowInv
    <3>2. trend >= 25600000 * (-1010)
      <4>1. ASSUME NEW t \in GapTimes, Recovering(t),
                   10 * Trend >= 25600000 * (3 * (time + Ahead - (t + GapLength) - 8) - 32500)
            PROVE  trend >= 25600000 * (-1010)
        <5>1. time - t >= 8000 /\ t \in Nat /\ GapLength <= 40
          BY <1>3, <2>3, <4>1 DEF RareBursts
        <5> QED
          BY <1>3, <2>4, <4>1, <5>1, SMT
      <4> QED
        BY <1>1, <2>2, <2>4, <3>1, <4>1 DEF LowInv
    <3>3. Trend' >= 25600000 * (-1010 - 56 * (time' - time))
      BY <1>2, <2>1, <2>4, <3>2, SMT
    <3> QED
      BY <1>1, <2>1, <3>3 DEF LowInv
  <2> QED
    BY <1>4, <2>5, <2>6
<1> QED
  BY <1>3, <1>5, <1>6

----------------------------------------------------------------------------
(* Every step.                                                             *)

LoopInv == RangeInv /\ StageInv /\ HighInv /\ ColdInv /\ LowInv /\ NoGlitch

LEMMA InitLoop == CodeWorld /\ Init => LoopInv
<1> SUFFICES ASSUME CodeWorld, Init PROVE LoopInv
  OBVIOUS
<1>1. RangeInv /\ StageInv
  BY InitRange, InitStage
<1>2. HighInv /\ ColdInv /\ LowInv
  BY DEF Init, HighInv, ColdInv, LowInv
<1>3. NoGlitch
  BY Zenon DEF Init, NoGlitch
<1> QED
  BY <1>1, <1>2, <1>3 DEF LoopInv

LEMMA StepTrend ==
    ASSUME CodeWorld, RareBursts, LoopInv, RangeInv', [Next]_vars
    PROVE  HighInv' /\ ColdInv' /\ LowInv'
<1>1. RangeInv /\ StageInv /\ HighInv /\ ColdInv /\ LowInv
  BY DEF LoopInv
<1>2. CASE Play
  <2>1. PICK n \in 1..8, trend \in Int, rest \in Int, m \in 1..8, next \in Int :
           /\ Ahead = n /\ Trend = trend /\ Ahead' = m /\ Trend' = next
           /\ Stepped(n, trend, rest, m, next)
    BY <1>1, <1>2, PlayStep
  <2>2. HighInv' /\ ColdInv'
    BY <1>1, <1>2, <2>1, PlayKeepsHigh, PlayKeepsCold
  <2>3. LowInv'
    BY <1>1, <1>2, <2>1, PlayKeepsLow, CloseKeepsLow
  <2> QED
    BY <2>2, <2>3
<1>3. CASE Join
  BY <1>1, <1>3, JoinKeepsTrend
<1>4. CASE LosePackets
  BY <1>1, <1>4, BurstKeepsTrend
<1>5. CASE Settle \/ StartEngine \/ Prefill \/ Pause
  <2>1. stage' # "joined"
    BY <1>5 DEF Settle, StartEngine, Prefill, Pause, Goes, Ages
  <2> QED
    BY <2>1 DEF HighInv, ColdInv, LowInv
<1>6. CASE Over \/ UNCHANGED vars
  <2>1. UNCHANGED <<rate, drift, value, filtered, hostRate, hostAcc, fill, dmaAcc, stage, age,
                    time, gap, audible>>
    BY <1>6 DEF Over, vars, controller
  <2>2. Trend' = Trend /\ Ahead' = Ahead
    BY <2>1, TrendKept
  <2> QED
    BY <1>1, <2>1, <2>2 DEF HighInv, ColdInv, LowInv, ColdFloor, Bursting, Recovering
<1> QED
  BY <1>2, <1>3, <1>4, <1>5, <1>6 DEF Next

LEMMA MicroframeIsClean ==
    ASSUME CodeWorld, RareBursts, LoopInv, Microframe
    PROVE  NoGlitch'
<1>1. RangeInv /\ StageInv /\ HighInv /\ ColdInv /\ LowInv /\ ~glitch
  BY DEF LoopInv, NoGlitch
<1>2. PICK frames \in Int : Packet = 8 * frames /\ 5 <= frames /\ frames <= 7
  BY <1>1, PacketRange
<1>3. ASSUME audible, stage # "settle" PROVE ~Dropped
  <2>1. CASE stage = "joined"
    <3>1. fill + Packet <= 8192
      BY <1>1, <1>3, <2>1, RingHasRoom
    <3> QED
      BY <1>1, <1>2, <3>1, RangeFacts, Sizes, SMT DEF Dropped
  <2>2. CASE stage = "prefill"
    <3>1. fill <= 4151
      BY <1>1, <1>3, <2>2 DEF StageInv
    <3> QED
      BY <1>1, <1>2, <3>1, RangeFacts, Sizes, SMT DEF Dropped
  <2> QED
    BY <1>1, <1>3, <2>1, <2>2 DEF RangeInv
<1>4. ASSUME TransferDue PROVE ~(Pushed < TransferBytes)
  <2>1. fill >= 384
    BY <1>1, <1>4, RingHasTransfer DEF TransferDue
  <2> QED
    BY <1>1, <1>2, <2>1, RangeFacts, Sizes, SMT DEF Pushed
<1>5. stage = "settle" => ~audible
  BY <1>1 DEF StageInv
<1>6. ~glitch'
  BY <1>1, <1>3, <1>4, <1>5, Zenon DEF Microframe
<1> QED
  BY <1>6 DEF NoGlitch

LEMMA StepLoop == CodeWorld /\ RareBursts /\ LoopInv /\ [Next]_vars => LoopInv'
<1> SUFFICES ASSUME CodeWorld, RareBursts, LoopInv, [Next]_vars PROVE LoopInv'
  OBVIOUS
<1>1. RangeInv /\ StageInv
  BY DEF LoopInv
<1>2. RangeInv' /\ StageInv'
  BY <1>1, StepRange, StepStage
<1>3. HighInv' /\ ColdInv' /\ LowInv'
  BY <1>2, StepTrend
<1>4. NoGlitch'
  <2>1. CASE Microframe
    BY <2>1, MicroframeIsClean
  <2>2. CASE glitch' = glitch
    BY <2>2 DEF LoopInv, NoGlitch
  <2>3. Microframe \/ glitch' = glitch
    BY DEF Next, Settle, StartEngine, Prefill, Join, Play, Pause, LosePackets, Over, Goes, vars
  <2> QED
    BY <2>1, <2>2, <2>3
<1> QED
  BY <1>2, <1>3, <1>4 DEF LoopInv

(* At either rate, with oscillators up to 500 ppm apart, whatever the      *)
(* transfer under way when the stream joins, through a pause at any time   *)
(* and through bursts of 40 lost packets as long as they are a second      *)
(* apart, from the moment the relay closes no packet is dropped and no     *)
(* transfer runs short, for as long as the stream plays                    *)
(* (feedback_controller.cpp, usb-interface.md:39-40).                      *)
THEOREM NeverGlitches ==
    ASSUME CodeWorld, RareBursts
    PROVE  Spec => []NoGlitch
<1>1. Init => LoopInv
  BY InitLoop
<1>2. LoopInv /\ [Next]_vars => LoopInv'
  BY StepLoop
<1>3. LoopInv => NoGlitch
  BY DEF LoopInv
<1> QED
  BY <1>1, <1>2, <1>3, PTL DEF Spec

(* In the same worlds the ring holds the quarter that the last look before *)
(* the relay closes demands: no start ends in a fault for want of audio,   *)
(* even when a burst is lost on its way (main.cpp:167-168).                *)
THEOREM EveryStartIsReady ==
    ASSUME CodeWorld, RareBursts
    PROVE  Spec => []ReadyToClose
<1>1. Init => LoopInv
  BY InitLoop
<1>2. LoopInv /\ [Next]_vars => LoopInv'
  BY StepLoop
<1>3. LoopInv => ReadyToClose
  <2> SUFFICES ASSUME LoopInv, stage = "joined", ~audible PROVE fill >= Capacity \div 4
    BY DEF ReadyToClose
  <2>1. fill >= 2048
    BY RingHasTransfer DEF LoopInv
  <2> QED
    BY <2>1 DEF Capacity
<1> QED
  BY <1>1, <1>2, <1>3, PTL DEF Spec
----------------------------------------------------------------------------
(* Where the ring comes to rest.                                           *)

(* An excess, in 500ths of a byte, that fades by no more than a part in    *)
(* 231 every eight microframes: chords of that decay, 62 ms each.          *)
Excess(a) ==
    IF a < 500 THEN 2235000 - 955 * a
    ELSE IF a < 1000 THEN 2133000 - 751 * a
    ELSE IF a < 1500 THEN 1972000 - 590 * a
    ELSE IF a < 2000 THEN 1783000 - 464 * a
    ELSE IF a < 2500 THEN 1585000 - 365 * a
    ELSE IF a < 3000 THEN 1390000 - 287 * a
    ELSE IF a < 3500 THEN 1207000 - 226 * a
    ELSE IF a < 4000 THEN 1035500 - 177 * a
    ELSE IF a < 4500 THEN 883500 - 139 * a
    ELSE IF a < 5000 THEN 753000 - 110 * a
    ELSE IF a < 5500 THEN 633000 - 86 * a
    ELSE IF a < 6000 THEN 534000 - 68 * a
    ELSE IF a < 6500 THEN 444000 - 53 * a
    ELSE IF a < 7000 THEN 372500 - 42 * a
    ELSE IF a < 7500 THEN 309500 - 33 * a
    ELSE IF a < 8000 THEN 257000 - 26 * a
    ELSE 49000

LEMMA ExcessFades ==
    ASSUME NEW a \in Nat
    PROVE  /\ Excess(a) \in Int /\ Excess(a) >= 49000 /\ Excess(a + 8) <= Excess(a)
           /\ 231 * Excess(a + 8) >= 230 * Excess(a)
           /\ a <= 8 => Excess(a) >= 500 * 4451
           /\ a >= 8000 => Excess(a) = 49000
BY SMTT(60) DEF Excess

(* The trend, the filter and the rate, each as far from its rest as an     *)
(* excess x allows.                                                        *)
Near(x) ==
    /\ Trend <= 51200 * (35000 + x) /\ Trend >= -51200 * (223000 + x)
    /\ 2000 * filtered <= 5 * x + 1040000 /\ 2000 * filtered >= -(5 * x + 1040000)
    /\ 2000 * (value - Nominal) <= 21 * x + 4174000
    /\ 2000 * (value - Nominal) >= -(21 * x + 4174000)

CentreInv == stage = "joined" => Near(Excess(age + Ahead)) /\ gap = 0

LEMMA NearContracts ==
    ASSUME NEW x \in Int, NEW less \in Int, less >= 49000, less <= x, 231 * less >= 230 * x,
           NEW trend \in Int, NEW rest \in Int, NEW next \in Int,
           rest <= trend, rest = trend \/ rest >= 0,
           NEW y \in Int, NEW z \in Int, NEW e \in Int, NEW q \in Int, NEW w \in Int,
           trend <= 51200 * (35000 + x), trend >= -51200 * (223000 + x),
           2000 * y <= 5 * x + 1040000, 2000 * y >= -(5 * x + 1040000),
           2000 * z <= 21 * x + 4174000, 2000 * z >= -(21 * x + 4174000),
           -15 <= e - y - 16 * q, e - y - 16 * q <= 15,
           -7 <= 4 * (y + q) - z - 8 * w, 4 * (y + q) - z - 8 * w <= 7,
           25600000 * e >= 1669565 * y + 207174 * z - rest - 9830399744,
           25600000 * e <= 1669565 * y + 207174 * z - rest + 204796875,
           231 * next <= 230 * rest + 1792000000, 231 * next >= 230 * rest - 11417600000
    PROVE  /\ next <= 51200 * (35000 + less) /\ next >= -51200 * (223000 + less)
           /\ 2000 * (y + q) <= 5 * less + 1040000 /\ 2000 * (y + q) >= -(5 * less + 1040000)
           /\ 2000 * (z + w) <= 21 * less + 4174000 /\ 2000 * (z + w) >= -(21 * less + 4174000)
<1>1. rest <= 51200 * (35000 + x) /\ rest >= -51200 * (223000 + x)
  BY SMT
<1>2. next <= 51200 * (35000 + less) /\ next >= -51200 * (223000 + less)
  BY <1>1, SMT
<1>3. 2000 * (y + q) <= 5 * less + 1040000
  BY <1>1, SMTT(60)
<1>4. 2000 * (y + q) >= -(5 * less + 1040000)
  BY <1>1, SMTT(60)
<1>5. 2000 * (z + w) <= 21 * less + 4174000 /\ 2000 * (z + w) >= -(21 * less + 4174000)
  BY <1>3, <1>4, SMTT(60)
<1> QED
  BY <1>2, <1>3, <1>4, <1>5, SMT
LEMMA PlayKeepsNear ==
    ASSUME CodeWorld, RareBursts, GapTimes = {}, LoopInv, RangeInv', CentreInv, Play
    PROVE  Near(Excess(age + Ahead))'
<1>1. RangeInv /\ StageInv /\ HighInv /\ ColdInv /\ LowInv
  BY DEF LoopInv
<1>2. stage = "joined" /\ age \in Nat /\ age' = age + 1
  BY <1>1, PlayClocks
<1>3. PICK n \in 1..8, trend \in Int, rest \in Int, m \in 1..8, next \in Int :
         /\ Ahead = n /\ Trend = trend /\ Ahead' = m /\ Trend' = next
         /\ Stepped(n, trend, rest, m, next)
         /\ (n > 1 => UNCHANGED <<filtered, value>>) /\ (n = 1 => Filters(rest))
  BY <1>1, PlayStep
<1>4. /\ rest <= trend /\ (rest = trend \/ rest >= 0)
      /\ (n > 1 => m = n - 1 /\ next = rest)
      /\ (n = 1 => m = 8 /\ 231 * next <= 230 * rest + 1792000000
                       /\ 231 * next >= 230 * rest - 11417600000)
  <2>1. gap = 0
    BY <1>2 DEF CentreInv
  <2> QED
    BY <1>3, <2>1, SMT DEF Stepped
<1>5. PICK a \in Nat : a = age + n
  BY <1>2
<1>6. PICK x \in Int : x = Excess(a) /\ x >= 49000
  BY ExcessFades
<1>7. PICK y \in Int, z \in Int : y = filtered /\ z = value - Nominal
  BY <1>1, RangeFacts
<1>8. /\ trend <= 51200 * (35000 + x) /\ trend >= -51200 * (223000 + x)
      /\ 2000 * y <= 5 * x + 1040000 /\ 2000 * y >= -(5 * x + 1040000)
      /\ 2000 * z <= 21 * x + 4174000 /\ 2000 * z >= -(21 * x + 4174000)
  <2>1. Near(x)
    BY <1>2, <1>3, <1>5, <1>6 DEF CentreInv
  <2> QED
    BY <1>3, <1>7, <2>1, SMT DEF Near
<1>9. Nominal' = Nominal
  BY <1>1, MicroframeRange DEF Play, Goes
<1>10. CASE n > 1
  <2>1. m = n - 1 /\ next = rest /\ filtered' = y /\ value' - Nominal' = z
    BY <1>3, <1>4, <1>7, <1>9, <1>10
  <2>2. age' + m = a
    BY <1>2, <1>5, <2>1
  <2>3. next <= 51200 * (35000 + x) /\ next >= -51200 * (223000 + x)
    BY <1>4, <1>6, <1>8, <2>1, SMT
  <2>4. Near(x)'
    BY <1>3, <1>8, <2>1, <2>3, SMT DEF Near
  <2> QED
    BY <1>3, <1>6, <2>2, <2>4
<1>11. CASE n = 1
  <2>1. PICK less \in Int :
           less = Excess(a + 8) /\ less >= 49000 /\ less <= x /\ 231 * less >= 230 * x
    BY <1>5, <1>6, ExcessFades
  <2>2. PICK e \in Int, q \in Int, w \in Int :
           /\ filtered' = y + q /\ value' - Nominal = z + w
           /\ -15 <= e - y - 16 * q /\ e - y - 16 * q <= 15
           /\ -7 <= 4 * (y + q) - z - 8 * w /\ 4 * (y + q) - z - 8 * w <= 7
           /\ 25600000 * e >= 1669565 * y + 207174 * z - rest - 9830399744
           /\ 25600000 * e <= 1669565 * y + 207174 * z - rest + 204796875
    BY <1>3, <1>7, <1>11 DEF Filters
  <2>3. age' + m = a + 8
    BY <1>2, <1>4, <1>5, <1>11
  <2>4. /\ next <= 51200 * (35000 + less) /\ next >= -51200 * (223000 + less)
        /\ 2000 * (y + q) <= 5 * less + 1040000 /\ 2000 * (y + q) >= -(5 * less + 1040000)
        /\ 2000 * (z + w) <= 21 * less + 4174000 /\ 2000 * (z + w) >= -(21 * less + 4174000)
    BY <1>4, <1>8, <1>11, <2>1, <2>2, NearContracts, SMT
  <2>5. Near(less)'
    BY <1>3, <1>9, <2>2, <2>4, SMT DEF Near
  <2> QED
    BY <1>3, <2>1, <2>3, <2>5
<1> QED
  BY <1>10, <1>11

LEMMA JoinIsNear ==
    ASSUME CodeWorld, RangeInv, RangeInv', StageInv, Join
    PROVE  Near(Excess(age + Ahead))'
<1>1. /\ fill >= 4096 /\ age' = 0 /\ fill' = fill /\ time' = time
      /\ UNCHANGED <<rate, value, filtered>>
  BY DEF Join, Enough, HalfRing, Capacity, controller
<1>2. fill \in Int /\ fill <= 8192 /\ time \in Nat
  BY RangeFacts DEF RangeInv
<1>3. PICK m \in 1..8 : Ahead' = m
  BY <1>1, <1>2, AheadFacts DEF Ahead
<1>4. PICK level \in Int, next \in Int :
         /\ Trend' = next /\ Level' = level
         /\ -10244920200 <= level - 25600000 * (fill - 4096)
         /\ level - 25600000 * (fill - 4096) <= 619315200
         /\ -10232877056 <= next - level /\ next - level <= 10232877056
  <2>1. PICK level \in Int, next \in Int : Level' = level /\ Trend' = next
    BY NextLevelIsBounded DEF LevelBounds
  <2> QED
    BY <1>1, <2>1, NextLevelIsBounded, SMT DEF LevelBounds
<1>5. PICK x \in Int : x = Excess(m) /\ x >= 500 * 4451
  BY ExcessFades
<1>6. next <= 51200 * (35000 + x) /\ next >= -51200 * (223000 + x)
  BY <1>1, <1>2, <1>4, <1>5, SMT
<1>7. PICK y \in Int, z \in Int :
         /\ y = filtered' /\ z = value' - Nominal' /\ -4096 <= y /\ y <= 4096
         /\ -16384 <= z /\ z <= 16384
  <2>1. Nominal' = Nominal
    BY <1>1 DEF Nominal
  <2>2. PICK y \in Int, z \in Int : y = filtered /\ z = value - Nominal
    BY RangeFacts
  <2> QED
    BY <1>1, <2>1, <2>2, RangeFacts, SMT DEF RangeInv
<1>8. Near(x)'
  BY <1>4, <1>5, <1>6, <1>7, SMT DEF Near
<1>9. (age + Ahead)' = m
  BY <1>1, <1>3
<1> QED
  BY <1>5, <1>8, <1>9
LEMMA StepCentre ==
    ASSUME CodeWorld, RareBursts, GapTimes = {}, LoopInv, LoopInv', CentreInv, [Next]_vars
    PROVE  CentreInv'
<1>1. RangeInv /\ StageInv /\ RangeInv'
  BY DEF LoopInv
<1>2. CASE Play
  <2>1. gap' = 0
    BY <1>1, <1>2, PlayClocks DEF CentreInv
  <2> QED
    BY <1>1, <1>2, <2>1, PlayKeepsNear DEF CentreInv
<1>3. CASE Join
  <2>1. stage = "prefill" /\ fill >= 4096 /\ gap' = gap
    BY <1>3 DEF Join, Enough, HalfRing, Capacity
  <2>2. fill \in Int /\ gap \in Nat /\ audible \in BOOLEAN
    BY <1>1, RangeFacts DEF RangeInv
  <2>3. gap = 0 \/ fill = 0
    BY <1>1, <2>1, <2>2 DEF StageInv
  <2> QED
    BY <1>1, <1>3, <2>1, <2>2, <2>3, JoinIsNear DEF CentreInv
<1>4. CASE Settle \/ StartEngine \/ Prefill \/ Pause
  <2>1. stage' # "joined"
    BY <1>4 DEF Settle, StartEngine, Prefill, Pause, Goes, Ages
  <2> QED
    BY <2>1 DEF CentreInv
<1>5. CASE LosePackets
  BY <1>5 DEF LosePackets
<1>6. CASE Over \/ UNCHANGED vars
  <2>1. UNCHANGED <<rate, drift, value, filtered, hostRate, hostAcc, fill, dmaAcc, stage, age,
                    time, gap>>
    BY <1>6 DEF Over, vars, controller
  <2>2. Trend' = Trend /\ Ahead' = Ahead /\ Nominal' = Nominal
    BY <2>1, TrendKept DEF Nominal
  <2> QED
    BY <2>1, <2>2 DEF CentreInv, Near
<1> QED
  BY <1>2, <1>3, <1>4, <1>5, <1>6 DEF Next

(* The last of the excess leaves 632 bytes: the sawtooth of the transfers  *)
(* (384), what the truncating divisions add, and what is left of it.       *)
LEMMA NearIsCentred ==
    ASSUME CodeWorld, LoopInv, CentreInv, stage = "joined", age >= 8000
    PROVE  fill - 4096 <= 640 /\ 4096 - fill <= 640
<1>1. RangeInv
  BY DEF LoopInv
<1>2. age + Ahead \in Nat /\ age + Ahead >= 8000
  BY <1>1, AheadFacts DEF RangeInv
<1>3. Near(49000)
  BY <1>2, ExcessFades DEF CentreInv
<1>4. PICK y \in Int, z \in Int : y = filtered /\ z = value - Nominal
  BY <1>1, RangeFacts
<1>5. PICK trend \in Int, level \in Int :
         /\ trend = Trend /\ level = Level /\ trend = level + 1669565 * y + 207174 * z
  BY <1>1, <1>4, LevelFacts DEF Trend
<1>6. /\ trend <= 51200 * 84000 /\ trend >= -51200 * 272000
      /\ 2000 * y <= 1285000 /\ 2000 * y >= -1285000
      /\ 2000 * z <= 5203000 /\ 2000 * z >= -5203000
  BY <1>3, <1>4, <1>5, SMT DEF Near
<1> QED
  BY <1>1, <1>5, <1>6, LevelFacts, RangeFacts, SMT

(* A second into playback, and a second after every pause, the ring stays  *)
(* within 640 bytes of its half for good: at either rate, with oscillators *)
(* up to 500 ppm apart and no packet lost, the truncating divisions of the *)
(* controller leave neither an offset nor an oscillation larger than that  *)
(* (feedback_controller.cpp:16-24).                                        *)
THEOREM RingStaysCentred ==
    ASSUME CodeWorld, GapTimes = {}, SettleTime >= 8000, Band >= 640
    PROVE  Spec => []Centred
<1> RareBursts
  BY DEF RareBursts
<1>1. Init => LoopInv /\ CentreInv
  <2>1. Init => LoopInv
    BY InitLoop
  <2>2. Init => CentreInv
    BY DEF Init, CentreInv
  <2> QED
    BY <2>1, <2>2
<1>2. LoopInv /\ CentreInv /\ [Next]_vars => LoopInv' /\ CentreInv'
  BY StepLoop, StepCentre
<1>3. LoopInv /\ CentreInv => Centred
  <2> SUFFICES ASSUME LoopInv, CentreInv, stage = "joined", age >= SettleTime
               PROVE  Distance(fill, HalfRing) <= Band
    BY DEF Centred
  <2>1. age \in Nat /\ fill \in Int
    BY RangeFacts DEF LoopInv, RangeInv
  <2>2. age >= 8000
    BY <2>1, FeedbackAssumption
  <2>3. fill - 4096 <= 640 /\ 4096 - fill <= 640
    BY <2>2, NearIsCentred
  <2> QED
    BY <2>1, <2>3, FeedbackAssumption DEF Distance, HalfRing, Capacity
<1> QED
  BY <1>1, <1>2, <1>3, PTL DEF Spec
=============================================================================
