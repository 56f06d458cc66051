-------------------------- MODULE ControlPathProofs --------------------------
(***************************************************************************)
(* Proofs about ControlPath for every timing of the converter, every size  *)
(* of the two rings and every volume the host may send: what the driver    *)
(* knows of its chip, the way of a volume and of a request for a report    *)
(* through the queue, and that UsbDevice keeps the contract of EventLog.    *)
(***************************************************************************)
EXTENDS ControlPath, UsbDeviceProofs

(* The chip on the way through the bootstrap: nothing was ever written to  *)
(* it but the commands that came before, and its reset is asserted only    *)
(* before the first of them and after a fault.                             *)
ChipInv ==
    /\ inReset <=> dacState \in {"WaitingReset", "Fault"}
    /\ dacState \notin {"ReadyMuted", "Fault"} =>
          /\ commandIndex < Len(Bootstrap)
          /\ commandIndex = 4 => registers.power
          /\ dacMuted /\ attenuation = 0 /\ registers.left = 0 /\ registers.right = 0
    /\ DriverKnowsChip

(* USB starts with a DAC that is ready, and the queue is empty except in   *)
(* the pass that fills it.                                                 *)
LoopInv ==
    /\ usbReady => dacState \in {"ReadyMuted", "Fault"}
    /\ ~usbReady => attenuation = 0 /\ volume = 0 /\ pc \in {"poll", "run"}
    /\ pc \in {"poll", "run"} => eventCount = 0

NoLaterVolume(i) == \A j \in 1..eventCount : j > i => Queued[j].event # "Volume"
NoLaterReport(i) == \A j \in 1..eventCount : j > i => Queued[j].event \notin ReportRequests

(* Unless the last volume was lost, the last one in the queue is the one   *)
(* GET_CUR answers; when none is in the queue the DAC has it.              *)
VolumeInv ==
    ~volumeLost =>
        /\ \A i \in 1..eventCount :
              Queued[i].event = "Volume" /\ NoLaterVolume(i) => Queued[i].value = volume
        /\ Ready /\ NoLaterVolume(0) => attenuation = volume

(* The last request in the queue is the last one the host waits for; when  *)
(* none is in the queue its report is in the endpoint or pending.          *)
ReportInv ==
    /\ \/ asked = "None"
       \/ NoLaterReport(0) /\ asked \in {hidBusy, pendingReport}
       \/ \E i \in 1..eventCount : NoLaterReport(i) /\ Queued[i].event = asked
    /\ pc # "task" /\ pendingReport # "None" => hidBusy # "None"

Steps == 0..255
RegisterSets == [power : BOOLEAN, port : BOOLEAN, muted : BOOLEAN,
                 left : Steps, right : Steps]

DacTypeOK ==
    /\ dacState \in DacStates /\ wait \in Nat
    /\ commandIndex \in 0..Len(Bootstrap)
    /\ dacMuted \in BOOLEAN /\ attenuation \in LowestVolume..0
    /\ inReset \in BOOLEAN /\ registers \in RegisterSets

Reports == ReportRequests \cup {"None"}

HostTypeOK ==
    /\ pc \in {"poll", "task", "drain", "run"} /\ usbReady \in BOOLEAN
    /\ dropped \in BOOLEAN /\ volumeLost \in BOOLEAN /\ volume \in LowestHostVolume..0
    /\ pendingReport \in Reports /\ hidBusy \in Reports /\ asked \in Reports

(* The inductive invariant, in the two halves that disturb each other only *)
(* where a volume reaches the DAC.                                         *)
DacInv == DacTypeOK /\ ChipInv
IInv == DacInv /\ RingsOK /\ HostTypeOK /\ LoopInv /\ VolumeInv /\ ReportInv

----------------------------------------------------------------------------
(* The converter. *)

(* attenuation_from_uac2_db rounds to the nearest half dB, and no volume   *)
(* that its caller lets through needs the cap.                             *)
LEMMA AttenuationRounds ==
    ASSUME NEW v \in LowestVolume..0
    PROVE  /\ AttenuationSteps(v) \in Steps
           /\ v + 128 * AttenuationSteps(v) \in -64..64
BY DEF AttenuationSteps, LowestVolume, Steps

LEMMA ClampedRange ==
    ASSUME NEW v \in Int
    PROVE  Clamped(v, LowestVolume) \in LowestVolume..0
BY DEF Clamped, LowestVolume

LEMMA TransferFacts ==
    ASSUME NEW r, NEW reg, NEW value, NEW t \in Transfer(r, reg, value)
    PROVE  t.chip \in {r, Write(r, reg, value)} /\ (t.ok => t.chip = Write(r, reg, value))
BY DEF Transfer

(* What the two kinds of write that the loop makes leave in the chip.      *)
LEMMA MuteWritten ==
    ASSUME NEW r \in RegisterSets, NEW m \in BOOLEAN
    PROVE  LET w == Write(r, "MuteControl", m)
           IN w \in RegisterSets /\ w.muted = m /\ w.power = r.power
              /\ w.left = r.left /\ w.right = r.right
BY DEF Write, RegisterSets

LEMMA AttenuationWritten ==
    ASSUME NEW r \in RegisterSets, NEW n \in Steps
    PROVE  LET l == Write(r, "AttenuationLeft", n)
               w == Write(r, "AttenuationRight", n)
           IN /\ l \in RegisterSets /\ l.left = n /\ l.power = r.power /\ l.muted = r.muted
              /\ w \in RegisterSets /\ w.right = n /\ w.left = r.left
              /\ w.power = r.power /\ w.muted = r.muted
BY DEF Write, RegisterSets

LEMMA ControlWritten ==
    ASSUME NEW r \in RegisterSets, NEW value
    PROVE  LET w == Write(r, "Control8", value)
           IN /\ w \in RegisterSets /\ w.left = r.left /\ w.right = r.right
              /\ w.power = (value = "Running")
              /\ Write(r, "Control7", value) = r /\ Write(r, "Control2", value) = r
BY DEF Write, RegisterSets

(* A fault leaves a chip in reset, whatever it was doing.                  *)
LEMMA FaultKeepsChip ==
    ASSUME DacTypeOK, SafeFault, wait' \in Nat, commandIndex' = commandIndex,
           attenuation' = attenuation
    PROVE  DacTypeOK' /\ ChipInv'
BY DEF DacTypeOK, SafeFault, PowerOn, RegisterSets, Steps, DacStates, ChipInv, DriverKnowsChip, Ready

LEMMA WriteNextKeepsChip ==
    ASSUME DacTypeOK, ChipInv, NEW d \in Nat, WriteNext(d)
    PROVE  DacTypeOK' /\ ChipInv'
<1> DEFINE command == Bootstrap[commandIndex + 1]
<1>1. PICK t \in Transfer(registers, command[1], command[2]) :
        IF t.ok
        THEN /\ registers' = t.chip
             /\ commandIndex' = commandIndex + 1
             /\ dacState' = IF commandIndex' = Len(Bootstrap) THEN "ReadyMuted" ELSE "WaitingInterWrite"
             /\ wait' = IF commandIndex' = Len(Bootstrap) THEN 0 ELSE InterWrite
             /\ UNCHANGED <<dacMuted, inReset>>
        ELSE SafeFault /\ wait' = 0 /\ UNCHANGED commandIndex
  BY DEF WriteNext
<1>2. /\ attenuation' = attenuation /\ dacState = "WaitingChipSelect"
      /\ commandIndex \in 0..4 /\ ~inReset /\ dacMuted = TRUE /\ attenuation = 0
      /\ registers.left = 0 /\ registers.right = 0 /\ registers \in RegisterSets
      /\ commandIndex = 4 => registers.power
  BY DEF WriteNext, ChipInv, DacTypeOK, Bootstrap
<1>3. CASE ~t.ok
  BY <1>1, <1>2, <1>3, FaultKeepsChip
<1>4. CASE t.ok
  <2>1. registers' = Write(registers, command[1], command[2])
    BY <1>1, <1>4, TransferFacts
  <2>2. /\ commandIndex' = commandIndex + 1 /\ dacMuted' = dacMuted /\ inReset' = inReset
        /\ dacState' = IF commandIndex' = 5 THEN "ReadyMuted" ELSE "WaitingInterWrite"
        /\ wait' = IF commandIndex' = 5 THEN 0 ELSE InterWrite
    BY <1>1, <1>4 DEF Bootstrap
  <2>3. /\ registers' \in RegisterSets /\ registers'.left = 0 /\ registers'.right = 0
        /\ commandIndex = 3 => registers'.power
        /\ commandIndex = 4 => registers'.power /\ registers'.muted = TRUE
    <3>1. CASE commandIndex = 0
      <4>1. registers' = Write(registers, "Control8", "PoweredDown")
        BY <2>1, <3>1 DEF Bootstrap
      <4> QED
        BY <1>2, <3>1, <4>1, ControlWritten
    <3>2. CASE commandIndex = 1 \/ commandIndex = 2
      <4>1. registers' = Write(registers, "Control2", "Legacy")
            \/ registers' = Write(registers, "Control7", "Legacy")
        BY <2>1, <3>2 DEF Bootstrap
      <4> QED
        BY <1>2, <3>2, <4>1, ControlWritten
    <3>3. CASE commandIndex = 3
      <4>1. registers' = Write(registers, "Control8", "Running")
        BY <2>1, <3>3 DEF Bootstrap
      <4>2. registers'.power
        <5>1. registers'.power = ("Running" = "Running")
          BY <1>2, <4>1, ControlWritten
        <5> QED
          BY <5>1
      <4> QED
        BY <1>2, <3>3, <4>1, <4>2, ControlWritten
    <3>4. CASE commandIndex = 4
      <4>1. registers' = Write(registers, "MuteControl", TRUE)
        BY <2>1, <3>4 DEF Bootstrap
      <4> QED
        BY <1>2, <3>4, <4>1, MuteWritten
    <3>5. \/ commandIndex = 0 \/ commandIndex = 1 \/ commandIndex = 2
          \/ commandIndex = 3 \/ commandIndex = 4
      BY <1>2
    <3> QED
      BY <3>1, <3>2, <3>3, <3>4, <3>5, Zenon
  <2>4. wait' \in Nat /\ commandIndex' \in 0..5 /\ dacState' \in DacStates
    BY <1>2, <2>2, DacTimingAssumption DEF DacStates
  <2>5. AttenuationSteps(0) = 0
    BY DEF AttenuationSteps
  <2>6. DacTypeOK'
    BY <1>2, <2>2, <2>3, <2>4 DEF DacTypeOK, Bootstrap
  <2>7. CASE commandIndex = 4
    <3>9. dacState' = "ReadyMuted"
      BY <2>2, <2>7
    <3>1. ~inReset' /\ registers'.power /\ registers'.muted = dacMuted'
      BY <1>2, <2>2, <2>3, <2>7, Zenon
    <3>2. registers'.left = AttenuationSteps(attenuation')
      BY <1>2, <2>3, <2>5
    <3> QED
      BY <2>3, <2>6, <3>9, <3>1, <3>2 DEF ChipInv, DriverKnowsChip, Ready, AttenuationSteps
  <2>8. CASE commandIndex # 4
    <3>1. /\ dacState' = "WaitingInterWrite" /\ ~inReset' /\ dacMuted' /\ attenuation' = 0
          /\ commandIndex' < 5 /\ (commandIndex' = 4 => registers'.power)
      BY <1>2, <2>2, <2>3, <2>8
    <3> QED
      BY <2>3, <2>6, <3>1 DEF ChipInv, DriverKnowsChip, Ready, Bootstrap
  <2> QED
    BY <2>7, <2>8
<1> QED
  BY <1>3, <1>4

LEMMA PollKeepsChip ==
    ASSUME DacTypeOK, ChipInv, NEW d \in Nat, PollDac(d)
    PROVE  DacTypeOK' /\ ChipInv'
<1>1. Left(d) \in Nat
  BY DEF DacTypeOK, Left
<1>2. CASE PollWaits(d)
  BY <1>1, <1>2 DEF PollWaits, DacTypeOK, ChipInv, DriverKnowsChip, Ready
<1>3. CASE ReleaseReset(d)
  BY <1>3, DacTimingAssumption
     DEF ReleaseReset, DacTypeOK, DacStates, ChipInv, DriverKnowsChip, Ready
<1>4. CASE SelectChip(d)
  BY <1>4, DacTimingAssumption
     DEF SelectChip, DacTypeOK, DacStates, ChipInv, DriverKnowsChip, Ready
<1>5. CASE WriteNext(d)
  BY <1>5, WriteNextKeepsChip
<1> QED
  BY <1>2, <1>3, <1>4, <1>5 DEF PollDac

LEMMA MuteKeepsChip ==
    ASSUME DacTypeOK, ChipInv, NEW m \in BOOLEAN, SetDacMute(m)
    PROVE  DacTypeOK' /\ ChipInv'
<1>1. PICK t \in Transfer(registers, "MuteControl", m) :
        IF t.ok THEN registers' = t.chip /\ dacMuted' = m /\ UNCHANGED <<dacState, inReset>>
                ELSE SafeFault
  BY DEF SetDacMute
<1>2. Ready /\ UNCHANGED <<wait, commandIndex, attenuation>> /\ wait' \in Nat
  BY DEF SetDacMute, DacTypeOK
<1>3. CASE ~t.ok
  BY <1>1, <1>2, <1>3, FaultKeepsChip
<1>4. CASE t.ok
  <2>1. registers' = Write(registers, "MuteControl", m)
    BY <1>1, <1>4, TransferFacts
  <2>2. /\ registers' \in RegisterSets
        /\ registers'.muted = m /\ registers'.power = registers.power
        /\ registers'.left = registers.left /\ registers'.right = registers.right
    BY <2>1, MuteWritten DEF DacTypeOK
  <2> QED
    BY <1>1, <1>2, <1>4, <2>2
       DEF DacTypeOK, ChipInv, DriverKnowsChip, Ready, AttenuationSteps
<1> QED
  BY <1>3, <1>4

(* Either both channels take the new attenuation or the driver faults.     *)
LEMMA AttenuationKeepsChip ==
    ASSUME DacTypeOK, ChipInv, NEW v \in Int, SetAttenuation(v)
    PROVE  DacTypeOK' /\ ChipInv'
           /\ (dacState' = "ReadyMuted" => attenuation' = Clamped(v, LowestVolume))
<1> DEFINE db == Clamped(v, LowestVolume)
           steps == AttenuationSteps(db)
<1>1. PICK left \in Transfer(registers, "AttenuationLeft", steps) :
           \E right \in Transfer(left.chip, "AttenuationRight", steps) :
             IF BothWritten(left, right)
             THEN registers' = right.chip /\ attenuation' = db /\ UNCHANGED <<dacState, dacMuted, inReset>>
             ELSE SafeFault /\ UNCHANGED attenuation
  BY DEF SetAttenuation
<1>2. PICK right \in Transfer(left.chip, "AttenuationRight", steps) :
             IF BothWritten(left, right)
             THEN registers' = right.chip /\ attenuation' = db /\ UNCHANGED <<dacState, dacMuted, inReset>>
             ELSE SafeFault /\ UNCHANGED attenuation
  BY <1>1
<1>3. Ready /\ UNCHANGED <<wait, commandIndex>> /\ wait' \in Nat
  BY DEF SetAttenuation, DacTypeOK
<1>4. db \in LowestVolume..0 /\ steps \in Steps
  BY ClampedRange, AttenuationRounds
<1> HIDE DEF db, steps
<1>5. CASE ~BothWritten(left, right)
  <2>1. SafeFault /\ attenuation' = attenuation
    BY <1>2, <1>5
  <2>2. dacState' # "ReadyMuted"
    BY <2>1 DEF SafeFault
  <2> QED
    BY <1>3, <2>1, <2>2, FaultKeepsChip
<1>6. CASE BothWritten(left, right)
  <2>1. left.chip = Write(registers, "AttenuationLeft", steps)
    BY <1>6, TransferFacts DEF BothWritten
  <2>2. right.chip = Write(left.chip, "AttenuationRight", steps)
    BY <1>6, TransferFacts DEF BothWritten
  <2>3. /\ registers' = right.chip /\ attenuation' = db /\ UNCHANGED <<dacState, dacMuted, inReset>>
    BY <1>2, <1>6
  <2>4. /\ registers' \in RegisterSets
        /\ registers'.left = steps /\ registers'.right = steps
        /\ registers'.power = registers.power /\ registers'.muted = registers.muted
    <3>1. /\ left.chip \in RegisterSets /\ left.chip.left = steps
          /\ left.chip.power = registers.power /\ left.chip.muted = registers.muted
      <4>1. registers \in RegisterSets
        BY DEF DacTypeOK
      <4>2. steps \in Steps
        BY <1>4
      <4> QED
        BY <2>1, <4>1, <4>2, AttenuationWritten
    <3>2. left.chip \in RegisterSets
      BY <3>1
    <3>3. steps \in Steps
      BY <1>4
    <3>4. /\ right.chip \in RegisterSets /\ right.chip.right = steps
          /\ right.chip.left = left.chip.left
          /\ right.chip.power = left.chip.power /\ right.chip.muted = left.chip.muted
      BY <2>2, <3>2, <3>3, AttenuationWritten
    <3> QED
      BY <2>3, <3>1, <3>4
  <2>5. AttenuationSteps(attenuation') = steps
    BY <2>3 DEF steps
  <2>6. DacTypeOK'
    BY <1>3, <1>4, <2>3, <2>4 DEF DacTypeOK
  <2>7. DriverKnowsChip'
    BY <1>3, <2>3, <2>4, <2>5 DEF ChipInv, DriverKnowsChip, Ready, AttenuationSteps
  <2>8. ChipInv'
    BY <1>3, <2>3, <2>7 DEF ChipInv, Ready
  <2> QED
    BY <2>3, <2>6, <2>8 DEF db
<1> QED
  BY <1>5, <1>6

LEMMA FormatKeepsChip ==
    ASSUME DacTypeOK, ChipInv, ConfigureFormat
    PROVE  DacTypeOK' /\ ChipInv'
<1>1. PICK t \in Transfer(registers, "Control7", "Legacy") :
        IF t.ok THEN registers' = t.chip /\ UNCHANGED <<dacState, dacMuted, inReset>>
                ELSE SafeFault
  BY DEF ConfigureFormat
<1>2. UNCHANGED <<wait, commandIndex, attenuation>> /\ wait' \in Nat
  BY DEF ConfigureFormat, DacTypeOK
<1>3. CASE ~t.ok
  BY <1>1, <1>2, <1>3, FaultKeepsChip
<1>4. CASE t.ok
  <2>1. registers' = Write(registers, "Control7", "Legacy")
    BY <1>1, <1>4, TransferFacts
  <2>2. registers' = registers
    BY <2>1, ControlWritten DEF DacTypeOK
  <2> QED
    BY <1>1, <1>2, <1>4, <2>2 DEF DacTypeOK, ChipInv, DriverKnowsChip, Ready, AttenuationSteps
<1> QED
  BY <1>3, <1>4

----------------------------------------------------------------------------
(* The queue, request by request. *)

LEMMA PostedQueue ==
    ASSUME RingsOK, NEW r \in Posted, PostEvent(r), eventCount # EventCapacity
    PROVE  /\ eventCount' = eventCount + 1
           /\ \A i \in 1..eventCount : Queued'[i] = Queued[i]
           /\ Queued'[eventCount + 1] = r
           /\ \A i \in 0..eventCount :
                 /\ NoLaterVolume(i)' <=> NoLaterVolume(i) /\ r.event # "Volume"
                 /\ NoLaterReport(i)' <=> NoLaterReport(i) /\ r.event \notin ReportRequests
<1>1. Queued \in Seq(Posted) /\ Len(Queued) = eventCount /\ eventCount \in Nat
  BY RingSequences
<1>2. eventCount' = eventCount + 1 /\ Queued' = Append(Queued, r)
  BY PostQueues DEF PostEvent
<1>3. \A i \in 1..eventCount : Queued'[i] = Queued[i]
  BY <1>1, <1>2, AppendProperties
<1>4. Queued'[eventCount + 1] = r
  BY <1>1, <1>2, AppendProperties
<1>5. ASSUME NEW i \in 0..eventCount
      PROVE  /\ NoLaterVolume(i)' <=> NoLaterVolume(i) /\ r.event # "Volume"
             /\ NoLaterReport(i)' <=> NoLaterReport(i) /\ r.event \notin ReportRequests
  <2>1. \A j \in 1..eventCount' : j \in 1..eventCount \/ j = eventCount + 1
    BY <1>1, <1>2
  <2>2. /\ \A j \in 1..eventCount : j \in 1..eventCount'
        /\ eventCount + 1 \in 1..eventCount' /\ eventCount + 1 > i
    BY <1>1, <1>2
  <2> QED
    BY <1>3, <1>4, <2>1, <2>2 DEF NoLaterVolume, NoLaterReport
<1> QED
  BY <1>2, <1>3, <1>4, <1>5

LEMMA TakenQueue ==
    ASSUME RingsOK, TakeEvent
    PROVE  /\ eventCount \in Nat \ {0} /\ eventCount' = eventCount - 1
           /\ \A i \in 1..(eventCount - 1) : Queued'[i] = Queued[i + 1]
           /\ Queued[1] = NextEvent
           /\ \A i \in 0..(eventCount - 1) :
                 /\ NoLaterVolume(i)' <=> NoLaterVolume(i + 1)
                 /\ NoLaterReport(i)' <=> NoLaterReport(i + 1)
           /\ NoLaterVolume(0) <=> NextEvent.event # "Volume" /\ NoLaterVolume(1)
           /\ NoLaterReport(0) <=> NextEvent.event \notin ReportRequests /\ NoLaterReport(1)
<1>1. /\ Queued \in Seq(Posted) /\ Len(Queued) = eventCount /\ eventCount \in Nat \ {0}
      /\ eventCount' = eventCount - 1
  BY RingSequences DEF TakeEvent
<1>2. Queued # <<>> /\ Head(Queued) = NextEvent /\ Queued' = Tail(Queued)
  BY TakeQueues
<1>3. \A i \in 1..(eventCount - 1) : Queued'[i] = Queued[i + 1]
  BY <1>1, <1>2, HeadTailProperties
<1>4. Queued[1] = NextEvent
  BY <1>1, <1>2
<1>5. ASSUME NEW i \in 0..(eventCount - 1)
      PROVE  /\ NoLaterVolume(i)' <=> NoLaterVolume(i + 1)
             /\ NoLaterReport(i)' <=> NoLaterReport(i + 1)
  <2>1. \A j \in 1..eventCount' : j \in 1..(eventCount - 1) /\ j + 1 \in 1..eventCount
                                  /\ (j > i <=> j + 1 > i + 1)
    BY <1>1
  <2>2. \A j \in 1..eventCount : j > i + 1 => /\ j - 1 \in 1..eventCount' /\ j - 1 > i
                                              /\ (j - 1) + 1 = j /\ j - 1 \in 1..(eventCount - 1)
    BY <1>1
  <2> QED
    BY <1>3, <2>1, <2>2 DEF NoLaterVolume, NoLaterReport
<1>6. \A j \in 1..eventCount : j = 1 \/ j > 1
  BY <1>1
<1>7. 1 \in 1..eventCount /\ 1 > 0 /\ \A j \in 1..eventCount : j > 1 => j > 0
  BY <1>1
<1>8. /\ NoLaterVolume(0) <=> NextEvent.event # "Volume" /\ NoLaterVolume(1)
      /\ NoLaterReport(0) <=> NextEvent.event \notin ReportRequests /\ NoLaterReport(1)
  BY <1>4, <1>6, <1>7 DEF NoLaterVolume, NoLaterReport
<1> QED
  BY <1>1, <1>3, <1>4, <1>5, <1>8

(* A queue nobody touched. *)
LEMMA SameQueue ==
    ASSUME UNCHANGED queueVars
    PROVE  /\ Queued' = Queued /\ eventCount' = eventCount
           /\ \A i : (NoLaterVolume(i)' <=> NoLaterVolume(i)) /\ (NoLaterReport(i)' <=> NoLaterReport(i))
<1>1. Queued' = Queued /\ eventCount' = eventCount
  BY DEF queueVars, Queued
<1> QED
  BY <1>1 DEF NoLaterVolume, NoLaterReport

LEMMA SameRings ==
    ASSUME RingsOK, UNCHANGED <<queueVars, historyVars>>
    PROVE  RingsOK'
BY DEF RingsOK, IndicesAgree, queueVars, historyVars

(* A record of the queue, and the volume of one.                           *)
LEMMA RecordValues ==
    ASSUME NEW r \in Posted, r.event = "Volume"
    PROVE  r.value \in LowestHostVolume..0
<1>1. ASSUME NEW v \in HostVolumes PROVE HostVolume(v) \in LowestHostVolume..0
  <2>1. v \in Int
    BY VolumeAssumption
  <2> QED
    BY <2>1 DEF HostVolume, LowestHostVolume
<1>2. CASE r = NoEvent
  BY <1>2 DEF NoEvent
<1>3. ASSUME NEW v \in HostVolumes, r = Record("Volume", HostVolume(v))
      PROVE  r.value \in LowestHostVolume..0
  BY <1>1, <1>3 DEF Record
<1>4. ASSUME NEW k \in HostReports, r = Record(k, 0) PROVE FALSE
  BY <1>4, ReportAssumption DEF Record
<1> QED
  BY <1>2, <1>3, <1>4 DEF Posted, Records

----------------------------------------------------------------------------
(* The steps of the loop. *)

LEMMA PollKeeps ==
    ASSUME IInv, NEW d \in 0..MaxElapsed, Poll(d)
    PROVE  IInv'
<1>1. /\ DacInv /\ RingsOK /\ HostTypeOK /\ LoopInv /\ VolumeInv /\ ReportInv
      /\ d \in Nat /\ PollDac(d) /\ pc = "poll" /\ UNCHANGED usbVars
      /\ pc' = IF usbReady' THEN "task" ELSE "run"
      /\ usbReady' = usbReady \/ (dacState' = "ReadyMuted" /\ usbReady' = TRUE)
  BY ElapsedAssumption DEF IInv, Poll
<1>2. DacInv'
  BY <1>1, PollKeepsChip DEF DacInv
<1>3. /\ RingsOK' /\ UNCHANGED <<queueVars, dropped, volumeLost, volume>>
      /\ UNCHANGED <<pendingReport, hidBusy, asked>>
      /\ Queued' = Queued /\ eventCount' = eventCount
      /\ \A i : (NoLaterVolume(i)' <=> NoLaterVolume(i)) /\ (NoLaterReport(i)' <=> NoLaterReport(i))
  BY <1>1, SameQueue, SameRings DEF usbVars
<1>4. attenuation' = attenuation
  BY <1>1 DEF PollDac, PollWaits, ReleaseReset, SelectChip, WriteNext
<1>5. dacState \in {"ReadyMuted", "Fault"} => dacState' = dacState
  BY <1>1 DEF PollDac, PollWaits, ReleaseReset, SelectChip, WriteNext
<1>6. HostTypeOK'
  BY <1>1, <1>3, Zenon DEF HostTypeOK
<1>7. LoopInv'
  <2>1. usbReady' => dacState' \in {"ReadyMuted", "Fault"}
    BY <1>1, <1>5 DEF LoopInv
  <2>2. ~usbReady' => ~usbReady
    BY <1>1
  <2>3. pc' \in {"task", "run"} /\ (~usbReady' => pc' = "run")
    BY <1>1
  <2> QED
    BY <1>1, <1>3, <1>4, <2>1, <2>2, <2>3 DEF LoopInv
<1>8. VolumeInv'
  <2>1. Ready' /\ ~Ready => ~usbReady
    BY <1>1, <1>5 DEF LoopInv, Ready
  <2>2. Ready' /\ ~Ready => attenuation = volume
    BY <1>1, <2>1 DEF LoopInv
  <2> QED
    BY <1>1, <1>3, <1>4, <2>2 DEF VolumeInv
<1>9. ReportInv'
  BY <1>1, <1>3 DEF ReportInv
<1> QED
  BY <1>2, <1>3, <1>6, <1>7, <1>8, <1>9 DEF IInv

(* A volume of the host becomes the one GET_CUR answers and the last one   *)
(* of the queue, or is counted as lost.                                    *)
LEMMA SetVolumeKeeps ==
    ASSUME IInv, pc = "task", NEW v \in HostVolumes, SetVolume(v),
           UNCHANGED <<pc, usbReady, dacVars>>
    PROVE  IInv'
<1> DEFINE r == Record("Volume", volume')
<1>1. /\ DacInv /\ RingsOK /\ HostTypeOK /\ LoopInv /\ VolumeInv /\ ReportInv
      /\ PostEvent(r) /\ UNCHANGED <<eventTrace, pendingReport, hidBusy, asked>>
      /\ usbReady
  BY DEF IInv, LoopInv, SetVolume
<1>2. volume' = HostVolume(v) /\ r \in Posted /\ r.event = "Volume" /\ r.value = volume'
      /\ r.event \notin ReportRequests /\ volumeLost' = (eventCount = EventCapacity)
  BY DEF SetVolume, Posted, Records, Record, ReportRequests
<1>3. volume' \in LowestHostVolume..0
  BY <1>2, RecordValues
<1> HIDE DEF r
<1>4. DacInv'
  BY <1>1 DEF DacInv, DacTypeOK, ChipInv, DriverKnowsChip, Ready, dacVars
<1>5. RingsOK'
  BY <1>1, <1>2, PostKeepsRings
<1>6. HostTypeOK' /\ LoopInv'
  <2>1. dropped' \in {dropped, TRUE}
    BY <1>1 DEF PostEvent
  <2>2. LoopInv'
    BY <1>1 DEF LoopInv, dacVars
  <2>3. dropped' \in BOOLEAN
    BY <1>1, <2>1 DEF HostTypeOK
  <2>4. volumeLost' \in BOOLEAN
    BY <1>2
  <2> QED
    BY <1>1, <1>3, <2>2, <2>3, <2>4 DEF HostTypeOK
<1>7. CASE eventCount = EventCapacity
  <2>1. dropped' = TRUE /\ UNCHANGED queueVars
    BY <1>1, <1>7 DEF PostEvent
  <2>2. VolumeInv'
    BY <1>2, <1>7 DEF VolumeInv
  <2>3. ReportInv'
    BY <1>1, <2>1, SameQueue DEF ReportInv
  <2> QED
    BY <1>4, <1>5, <1>6, <2>2, <2>3 DEF IInv
<1>8. CASE eventCount # EventCapacity
  <2>1. /\ eventCount' = eventCount + 1 /\ eventCount \in Nat
        /\ \A i \in 1..eventCount : Queued'[i] = Queued[i]
        /\ Queued'[eventCount + 1] = r
        /\ \A i \in 0..eventCount :
              /\ NoLaterVolume(i)' <=> NoLaterVolume(i) /\ r.event # "Volume"
              /\ NoLaterReport(i)' <=> NoLaterReport(i) /\ r.event \notin ReportRequests
    BY <1>1, <1>2, <1>8, PostedQueue, RingSequences
  <2>2. /\ \A i \in 1..eventCount' : i \in 1..eventCount \/ i = eventCount + 1
        /\ 1..eventCount \subseteq 0..eventCount /\ 0 \in 0..eventCount
    BY <2>1
  <2>3. VolumeInv'
    BY <1>2, <2>1, <2>2 DEF VolumeInv
  <2>4. ReportInv'
    <3>1. \A i \in 1..eventCount : i \in 1..eventCount'
      BY <2>1
    <3> QED
      BY <1>1, <1>2, <2>1, <2>2, <3>1 DEF ReportInv
  <2> QED
    BY <1>4, <1>5, <1>6, <2>3, <2>4 DEF IInv
<1> QED
  BY <1>7, <1>8

(* A request for a report that is queued is the last one asked for.        *)
LEMMA AskReportKeeps ==
    ASSUME IInv, pc = "task", NEW k \in HostReports, AskReport(k),
           UNCHANGED <<pc, usbReady, dacVars>>
    PROVE  IInv'
<1> DEFINE r == Record(k, 0)
<1>1. /\ DacInv /\ RingsOK /\ HostTypeOK /\ LoopInv /\ VolumeInv /\ ReportInv
      /\ PostEvent(r) /\ UNCHANGED <<volumeLost, volume, eventTrace, pendingReport, hidBusy>>
      /\ usbReady /\ asked' = IF eventCount < EventCapacity THEN k ELSE asked
  BY DEF IInv, LoopInv, AskReport
<1>2. r \in Posted /\ r.event = k /\ k \in ReportRequests /\ k # "Volume"
  BY ReportAssumption DEF Posted, Records, Record, ReportRequests
<1> HIDE DEF r
<1>3. eventCount \in 0..EventCapacity /\ EventCapacity \in Nat
  BY <1>1, UsbSizeAssumption DEF RingsOK, IndicesAgree
<1>4. DacInv'
  BY <1>1 DEF DacInv, DacTypeOK, ChipInv, DriverKnowsChip, Ready, dacVars
<1>5. RingsOK'
  BY <1>1, <1>2, PostKeepsRings
<1>6. HostTypeOK' /\ LoopInv'
  <2>1. dropped' \in {dropped, TRUE}
    BY <1>1 DEF PostEvent
  <2>2. LoopInv'
    BY <1>1 DEF LoopInv, dacVars
  <2>3. dropped' \in BOOLEAN
    BY <1>1, <2>1 DEF HostTypeOK
  <2>4. asked' \in Reports
    BY <1>1, <1>2 DEF HostTypeOK, Reports
  <2> QED
    BY <1>1, <2>2, <2>3, <2>4 DEF HostTypeOK
<1>7. CASE eventCount = EventCapacity
  <2>1. dropped' = TRUE /\ UNCHANGED queueVars /\ asked' = asked
    BY <1>1, <1>3, <1>7 DEF PostEvent
  <2>2. VolumeInv'
    BY <1>1, <2>1, SameQueue DEF VolumeInv, Ready, dacVars
  <2>3. ReportInv'
    BY <1>1, <2>1, SameQueue DEF ReportInv
  <2> QED
    BY <1>4, <1>5, <1>6, <2>2, <2>3 DEF IInv
<1>8. CASE eventCount # EventCapacity
  <2>1. /\ eventCount' = eventCount + 1 /\ eventCount \in Nat
        /\ \A i \in 1..eventCount : Queued'[i] = Queued[i]
        /\ Queued'[eventCount + 1] = r
        /\ \A i \in 0..eventCount :
              /\ NoLaterVolume(i)' <=> NoLaterVolume(i) /\ r.event # "Volume"
              /\ NoLaterReport(i)' <=> NoLaterReport(i) /\ r.event \notin ReportRequests
    BY <1>1, <1>2, <1>3, <1>8, PostedQueue
  <2>2. /\ \A i \in 1..eventCount' : i \in 1..eventCount \/ i = eventCount + 1
        /\ 1..eventCount \subseteq 0..eventCount /\ 0 \in 0..eventCount
    BY <2>1
  <2>3. VolumeInv'
    <3>1. UNCHANGED <<volume, volumeLost, attenuation, dacState>>
      BY <1>1, <1>8 DEF dacVars, PostEvent
    <3> QED
      BY <1>1, <1>2, <2>1, <2>2, <3>1 DEF VolumeInv, Ready
  <2>4. ReportInv'
    <3>1. asked' = k
      BY <1>1, <1>3, <1>8
    <3>2. PICK n \in Nat : n = eventCount + 1
      BY <2>1
    <3>3. n \in 1..eventCount' /\ Queued'[n].event = asked'
      BY <1>2, <2>1, <3>1, <3>2
    <3>4. NoLaterReport(n)'
      BY <2>1, <3>2 DEF NoLaterReport
    <3>5. \E i \in 1..eventCount' : NoLaterReport(i)' /\ Queued'[i].event = asked'
      BY <3>3, <3>4
    <3> QED
      BY <1>1, <3>5 DEF ReportInv
  <2> QED
    BY <1>4, <1>5, <1>6, <2>3, <2>4 DEF IInv
<1> QED
  BY <1>7, <1>8

(* The endpoint: the host reads a report, and a pending one takes its place. *)
LEMMA EndpointKeeps ==
    ASSUME IInv, HostReads \/ TaskDone
    PROVE  IInv'
<1>1. /\ DacInv /\ RingsOK /\ HostTypeOK /\ LoopInv /\ VolumeInv /\ ReportInv
      /\ UNCHANGED <<dacVars, queueVars, historyVars, dropped, volumeLost, volume, usbReady>>
      /\ pc = "task" /\ pc' \in {"task", "drain"}
  BY DEF IInv, HostReads, ReadReport, TaskDone, SendPending
<1>2. DacInv'
  BY <1>1 DEF DacInv, DacTypeOK, ChipInv, DriverKnowsChip, Ready, dacVars
<1>3. /\ RingsOK' /\ Queued' = Queued /\ eventCount' = eventCount
      /\ \A i : (NoLaterVolume(i)' <=> NoLaterVolume(i)) /\ (NoLaterReport(i)' <=> NoLaterReport(i))
  BY <1>1, SameQueue, SameRings
<1>4. LoopInv'
  BY <1>1 DEF LoopInv, dacVars
<1>5. VolumeInv'
  BY <1>1, <1>3 DEF VolumeInv, Ready, dacVars
<1>6. CASE HostReads
  <2>1. /\ hidBusy # "None" /\ hidBusy' = "None" /\ pc' = "task" /\ pendingReport' = pendingReport
        /\ asked' = IF asked = hidBusy THEN "None" ELSE asked
    BY <1>1, <1>6 DEF HostReads, ReadReport
  <2>2. HostTypeOK'
    BY <1>1, <2>1 DEF HostTypeOK, Reports
  <2>3. ReportInv'
    BY <1>1, <1>3, <2>1 DEF ReportInv
  <2> QED
    BY <1>2, <1>3, <1>4, <1>5, <2>2, <2>3 DEF IInv
<1>7. CASE TaskDone
  <2>1. /\ asked' = asked /\ pc' = "drain"
        /\ IF hidBusy = "None" /\ pendingReport # "None"
           THEN hidBusy' = pendingReport /\ pendingReport' = "None"
           ELSE UNCHANGED <<hidBusy, pendingReport>>
    BY <1>7 DEF TaskDone, SendPending
  <2>2. HostTypeOK'
    BY <1>1, <2>1 DEF HostTypeOK, Reports
  <2>3. ReportInv'
    BY <1>1, <1>3, <2>1 DEF ReportInv
  <2> QED
    BY <1>2, <1>3, <1>4, <1>5, <2>2, <2>3 DEF IInv
<1> QED
  BY <1>6, <1>7

(* What taking a request leaves to show of each handler.                   *)
LEMMA TakeKeeps ==
    ASSUME IInv, NEW e, Take(e)
    PROVE  /\ RingsOK' /\ LoopInv /\ HostTypeOK /\ pc' = pc /\ pc = "drain" /\ usbReady' = usbReady
           /\ usbReady /\ UNCHANGED <<volume, dropped, volumeLost>>
           /\ NextEvent \in Posted /\ NextEvent.event = e
           /\ ~volumeLost =>
                /\ \A i \in 1..eventCount' :
                      Queued'[i].event = "Volume" /\ NoLaterVolume(i)' => Queued'[i].value = volume
                /\ NoLaterVolume(0)' /\ e = "Volume" => NextEvent.value = volume
                /\ NoLaterVolume(0)' /\ e # "Volume" /\ Ready => attenuation = volume
           /\ \/ asked = "None"
              \/ NoLaterReport(0)' /\ e \in ReportRequests /\ asked = e
              \/ NoLaterReport(0)' /\ e \notin ReportRequests /\ asked \in {hidBusy, pendingReport}
              \/ \E i \in 1..eventCount' : NoLaterReport(i)' /\ Queued'[i].event = asked
           /\ pendingReport # "None" => hidBusy # "None"
<1>1. /\ RingsOK /\ HostTypeOK /\ LoopInv /\ VolumeInv /\ ReportInv /\ pc = "drain"
      /\ TakeEvent /\ UNCHANGED <<pc, usbReady, volume, dropped, volumeLost>> /\ NextEvent.event = e
  BY DEF IInv, Take, TakeEvent
<1>2. /\ eventCount \in Nat \ {0} /\ eventCount' = eventCount - 1
      /\ \A i \in 1..(eventCount - 1) : Queued'[i] = Queued[i + 1]
      /\ Queued[1] = NextEvent
      /\ \A i \in 0..(eventCount - 1) :
            /\ NoLaterVolume(i)' <=> NoLaterVolume(i + 1)
            /\ NoLaterReport(i)' <=> NoLaterReport(i + 1)
      /\ NoLaterVolume(0) <=> NextEvent.event # "Volume" /\ NoLaterVolume(1)
      /\ NoLaterReport(0) <=> NextEvent.event \notin ReportRequests /\ NoLaterReport(1)
  BY <1>1, TakenQueue
<1>3. /\ \A i \in 1..eventCount' : /\ i \in 1..(eventCount - 1) /\ i \in 0..(eventCount - 1)
                                   /\ i + 1 \in 1..eventCount
      /\ 1 \in 1..eventCount /\ 0 \in 0..(eventCount - 1) /\ 0 + 1 = 1
  BY <1>2
<1>4. RingsOK'
  BY <1>1, TakeKeepsRings
<1>5. NextEvent \in Posted
  BY <1>1 DEF NextEvent, RingsOK
<1>6. usbReady
  BY <1>1 DEF LoopInv
<1>7. ~volumeLost =>
        /\ \A i \in 1..eventCount' :
              Queued'[i].event = "Volume" /\ NoLaterVolume(i)' => Queued'[i].value = volume
        /\ NoLaterVolume(0)' /\ e = "Volume" => NextEvent.value = volume
        /\ NoLaterVolume(0)' /\ e # "Volume" /\ Ready => attenuation = volume
  BY <1>1, <1>2, <1>3 DEF VolumeInv
<1>8. \/ asked = "None"
      \/ NoLaterReport(0)' /\ e \in ReportRequests /\ asked = e
      \/ NoLaterReport(0)' /\ e \notin ReportRequests /\ asked \in {hidBusy, pendingReport}
      \/ \E i \in 1..eventCount' : NoLaterReport(i)' /\ Queued'[i].event = asked
  <2>1. CASE asked = "None"
    BY <2>1
  <2>2. CASE NoLaterReport(0) /\ asked \in {hidBusy, pendingReport}
    BY <1>1, <1>2, <1>3, <2>2
  <2>3. ASSUME NEW i \in 1..eventCount, NoLaterReport(i), Queued[i].event = asked, asked # "None"
        PROVE  \/ NoLaterReport(0)' /\ e \in ReportRequests /\ asked = e
               \/ \E j \in 1..eventCount' : NoLaterReport(j)' /\ Queued'[j].event = asked
    <3>1. asked \in ReportRequests
      BY <1>1, <2>3 DEF HostTypeOK, Reports
    <3>2. CASE i = 1
      BY <1>1, <1>2, <1>3, <2>3, <3>1, <3>2
    <3>3. CASE i # 1
      <4>1. /\ i - 1 \in 1..eventCount' /\ i - 1 \in 1..(eventCount - 1) /\ (i - 1) + 1 = i
            /\ i - 1 \in 0..(eventCount - 1)
        BY <1>2, <3>3
      <4>2. NoLaterReport(i - 1)' /\ Queued'[i - 1].event = asked
        BY <1>2, <2>3, <4>1
      <4> QED
        BY <4>1, <4>2
    <3> QED
      BY <3>2, <3>3
  <2> QED
    BY <1>1, <2>1, <2>2, <2>3 DEF ReportInv
<1>9. pendingReport # "None" => hidBusy # "None"
  BY <1>1 DEF ReportInv
<1> QED
  BY <1>1, <1>4, <1>5, <1>6, <1>7, <1>8, <1>9

(* The event of a volume: written, or a fault, or refused by a DAC that is *)
(* not ready (main.cpp:322-324).                                           *)
LEMMA HandleVolumeKeeps ==
    ASSUME IInv, HandleVolume
    PROVE  IInv'
<1>1. /\ DacInv /\ RingsOK' /\ LoopInv /\ HostTypeOK /\ pc' = pc /\ pc = "drain" /\ usbReady' = usbReady
      /\ usbReady /\ UNCHANGED <<volume, dropped, volumeLost>>
      /\ NextEvent \in Posted /\ NextEvent.event = "Volume"
      /\ ~volumeLost =>
           /\ \A i \in 1..eventCount' :
                 Queued'[i].event = "Volume" /\ NoLaterVolume(i)' => Queued'[i].value = volume
           /\ NoLaterVolume(0)' => NextEvent.value = volume
      /\ \/ asked = "None"
         \/ NoLaterReport(0)' /\ asked \in {hidBusy, pendingReport}
         \/ \E i \in 1..eventCount' : NoLaterReport(i)' /\ Queued'[i].event = asked
      /\ pendingReport # "None" => hidBusy # "None"
  <2>1. Take("Volume") /\ "Volume" \notin ReportRequests
    BY DEF HandleVolume, ReportRequests
  <2> QED
    BY <2>1, TakeKeeps DEF IInv
<1>2. /\ UNCHANGED <<pendingReport, hidBusy, asked>>
      /\ SetAttenuation(NextEvent.value) \/ Refused
  BY DEF HandleVolume
<1>3. NextEvent.value \in LowestHostVolume..0 /\ NextEvent.value \in Int
  <2>1. NextEvent.value \in LowestHostVolume..0
    BY <1>1, RecordValues
  <2>2. LowestHostVolume \in Int
    BY DEF LowestHostVolume
  <2> QED
    BY <2>1, <2>2
<1>4. /\ DacInv' /\ dacState' \in {"ReadyMuted", "Fault"}
      /\ Ready' => attenuation' = NextEvent.value
  <2>1. CASE SetAttenuation(NextEvent.value)
    <3>1. /\ DacInv'
          /\ dacState' = "ReadyMuted" => attenuation' = Clamped(NextEvent.value, LowestVolume)
      BY <1>1, <1>3, <2>1, AttenuationKeepsChip DEF DacInv
    <3>2. Clamped(NextEvent.value, LowestVolume) = NextEvent.value
      <4>1. \A v \in LowestHostVolume..0 : Clamped(v, LowestVolume) = v
        BY DEF Clamped, LowestVolume, LowestHostVolume
      <4> QED
        BY <1>3, <4>1
    <3>3. dacState' \in {"ReadyMuted", "Fault"}
      BY <2>1 DEF SetAttenuation, SafeFault, Ready
    <3> QED
      BY <3>1, <3>2, <3>3 DEF Ready
  <2>2. CASE Refused
    <3>1. UNCHANGED dacVars /\ dacState # "ReadyMuted"
      BY <2>2 DEF Refused, Ready
    <3>2. DacInv'
      BY <1>1, <3>1 DEF DacInv, DacTypeOK, ChipInv, DriverKnowsChip, Ready, dacVars
    <3> QED
      BY <1>1, <3>1, <3>2 DEF LoopInv, Ready, dacVars
  <2> QED
    BY <1>2, <2>1, <2>2
<1>5. HostTypeOK'
  BY <1>1, <1>2, Zenon DEF HostTypeOK
<1>6. LoopInv'
  BY <1>1, <1>4 DEF LoopInv
<1>7. VolumeInv'
  BY <1>1, <1>4 DEF VolumeInv
<1>8. ReportInv'
  BY <1>1, <1>2 DEF ReportInv
<1> QED
  BY <1>1, <1>4, <1>5, <1>6, <1>7, <1>8 DEF IInv

(* The event of a request for a report: sent, or pending                   *)
(* (main.cpp:341-372).                                                     *)
LEMMA HandleReportKeeps ==
    ASSUME IInv, HandleReport
    PROVE  IInv'
<1>1. PICK e \in ReportRequests :
         /\ Take(e) /\ asked' = asked /\ UNCHANGED dacVars
         /\ SendOrPend(e)
  BY DEF HandleReport, SendEventTrace, SendDiagnostics, ReportRequests
<1>2. e \in ReportRequests /\ e # "Volume" /\ e # "None"
  BY DEF ReportRequests
<1>3. /\ DacInv /\ RingsOK' /\ LoopInv /\ HostTypeOK /\ pc' = pc /\ pc = "drain" /\ usbReady' = usbReady
      /\ usbReady /\ UNCHANGED <<volume, dropped, volumeLost>>
      /\ ~volumeLost =>
           /\ \A i \in 1..eventCount' :
                 Queued'[i].event = "Volume" /\ NoLaterVolume(i)' => Queued'[i].value = volume
           /\ NoLaterVolume(0)' /\ Ready => attenuation = volume
      /\ \/ asked = "None"
         \/ NoLaterReport(0)' /\ asked = e
         \/ \E i \in 1..eventCount' : NoLaterReport(i)' /\ Queued'[i].event = asked
      /\ pendingReport # "None" => hidBusy # "None"
  BY <1>1, <1>2, TakeKeeps DEF IInv
<1>4. DacInv'
  BY <1>1, <1>3 DEF DacInv, DacTypeOK, ChipInv, DriverKnowsChip, Ready, dacVars
<1>5. \/ hidBusy = "None" /\ hidBusy' = e /\ pendingReport' = "None"
      \/ hidBusy # "None" /\ pendingReport' = e /\ hidBusy' = hidBusy
  BY <1>1 DEF SendOrPend
<1>6. HostTypeOK'
  <2>1. pendingReport' \in Reports /\ hidBusy' \in Reports
    BY <1>2, <1>3, <1>5 DEF HostTypeOK, Reports
  <2> QED
    BY <1>1, <1>3, <2>1, Zenon DEF HostTypeOK
<1>7. LoopInv'
  BY <1>1, <1>3 DEF LoopInv, dacVars
<1>8. VolumeInv'
  BY <1>1, <1>3 DEF VolumeInv, Ready, dacVars
<1>9. ReportInv'
  BY <1>1, <1>2, <1>3, <1>5 DEF ReportInv
<1> QED
  BY <1>3, <1>4, <1>6, <1>7, <1>8, <1>9 DEF IInv

LEMMA LoopKeeps ==
    ASSUME IInv, Drained \/ StageCalls \/ PassDone
    PROVE  IInv'
<1>1. /\ DacInv /\ RingsOK /\ HostTypeOK /\ LoopInv /\ VolumeInv /\ ReportInv
      /\ UNCHANGED <<usbReady, usbVars>> /\ pc \in {"drain", "run"} /\ pc' \in {"run", "poll"}
      /\ eventCount = 0
  BY DEF IInv, Drained, StageCalls, PassDone, LoopInv
<1>2. /\ RingsOK' /\ UNCHANGED <<queueVars, dropped, volumeLost, volume>>
      /\ UNCHANGED <<pendingReport, hidBusy, asked>>
      /\ Queued' = Queued /\ eventCount' = eventCount
      /\ \A i : (NoLaterVolume(i)' <=> NoLaterVolume(i)) /\ (NoLaterReport(i)' <=> NoLaterReport(i))
  BY <1>1, SameQueue, SameRings DEF usbVars
<1>3. HostTypeOK'
  BY <1>1, <1>2, Zenon DEF HostTypeOK
<1>4. ReportInv'
  BY <1>1, <1>2 DEF ReportInv
<1>5. CASE UNCHANGED dacVars
  <2>1. DacInv'
    BY <1>1, <1>5 DEF DacInv, DacTypeOK, ChipInv, DriverKnowsChip, Ready, dacVars
  <2>2. LoopInv'
    BY <1>1, <1>2, <1>5 DEF LoopInv, dacVars
  <2>3. VolumeInv'
    BY <1>1, <1>2, <1>5 DEF VolumeInv, Ready, dacVars
  <2> QED
    BY <1>2, <1>3, <1>4, <2>1, <2>2, <2>3 DEF IInv
<1>6. CASE StageCalls
  <2>1. ConfigureFormat \/ \E m \in BOOLEAN : SetDacMute(m)
    BY <1>6 DEF StageCalls
  <2>2. /\ attenuation' = attenuation /\ Ready /\ usbReady
        /\ dacState' \in {"ReadyMuted", "Fault"}
    BY <1>6, <2>1 DEF StageCalls, ConfigureFormat, SetDacMute, Ready, SafeFault
  <2>3. DacInv'
    BY <1>1, <2>1, FormatKeepsChip, MuteKeepsChip DEF DacInv
  <2>4. LoopInv'
    BY <1>1, <1>2, <2>2 DEF LoopInv
  <2>5. VolumeInv'
    BY <1>1, <1>2, <2>2 DEF VolumeInv
  <2> QED
    BY <1>2, <1>3, <1>4, <2>3, <2>4, <2>5 DEF IInv
<1> QED
  BY <1>5, <1>6 DEF Drained, PassDone

LEMMA InitEstablishes == Init => IInv
<1> SUFFICES ASSUME Init PROVE IInv
  OBVIOUS
<1>1. DacInv
  BY DacTimingAssumption DEF Init, DacInit, DacInv, DacTypeOK, DacStates, Bootstrap, LowestVolume,
     PowerOn, RegisterSets, Steps, ChipInv, DriverKnowsChip, Ready
<1>2. RingsOK
  <2>1. 0 \in 0..(EventCapacity - 1) /\ 0 \in 0..(HistorySize - 1) /\ 0 \in 0..EventCapacity
        /\ 0 \in 0..HistorySize /\ 0 + 0 = 0
    BY UsbSizeAssumption
  <2>2. Slot(0, EventCapacity) = 0
    <3>1. 0 \in 0..(2 * EventCapacity - 1) /\ EventCapacity \in Nat \ {0} /\ 0 < EventCapacity
      BY UsbSizeAssumption
    <3> QED
      BY <3>1, Wrapped
  <2>3. /\ events \in [0..(EventCapacity - 1) -> Posted]
        /\ eventHistory \in [0..(HistorySize - 1) -> Posted]
    BY DEF Init, UsbInit, Posted
  <2> QED
    BY <2>1, <2>2, <2>3 DEF Init, UsbInit, RingsOK, IndicesAgree, Slot
<1>3. HostTypeOK /\ LoopInv
  <2>1. 0 \in LowestHostVolume..0
    BY DEF LowestHostVolume
  <2> QED
    BY <2>1 DEF Init, DacInit, UsbInit, HostTypeOK, Reports, LoopInv
<1>4. VolumeInv /\ ReportInv
  BY DEF Init, DacInit, UsbInit, VolumeInv, ReportInv, Ready
<1> QED
  BY <1>1, <1>2, <1>3, <1>4 DEF IInv

LEMMA StepPreserves == IInv /\ [Next]_vars => IInv'
<1> SUFFICES ASSUME IInv, [Next]_vars PROVE IInv'
  OBVIOUS
<1>1. ASSUME NEW d \in 0..MaxElapsed, Poll(d) PROVE IInv'
  BY <1>1, PollKeeps
<1>2. CASE Callback
  BY <1>2, SetVolumeKeeps, AskReportKeeps DEF Callback
<1>3. CASE HostReads \/ TaskDone
  BY <1>3, EndpointKeeps
<1>4. CASE HandleVolume
  BY <1>4, HandleVolumeKeeps
<1>5. CASE HandleReport
  BY <1>5, HandleReportKeeps
<1>6. CASE Drained \/ StageCalls \/ PassDone
  BY <1>6, LoopKeeps
<1>7. CASE UNCHANGED vars
  <2>1. UNCHANGED <<pc, usbReady, dacVars, queueVars, historyVars, dropped, volumeLost,
                    volume, pendingReport, hidBusy, asked>>
    BY <1>7 DEF vars, usbVars
  <2>2. DacInv'
    BY <2>1 DEF IInv, DacInv, DacTypeOK, ChipInv, DriverKnowsChip, Ready, dacVars
  <2>3. /\ RingsOK' /\ Queued' = Queued /\ eventCount' = eventCount
        /\ \A i : (NoLaterVolume(i)' <=> NoLaterVolume(i)) /\ (NoLaterReport(i)' <=> NoLaterReport(i))
    BY <2>1, SameQueue, SameRings DEF IInv
  <2>4. HostTypeOK' /\ LoopInv'
    BY <2>1, <2>3 DEF IInv, HostTypeOK, LoopInv, dacVars
  <2>5. VolumeInv' /\ ReportInv'
    BY <2>1, <2>3 DEF IInv, VolumeInv, ReportInv, Ready, dacVars
  <2> QED
    BY <2>2, <2>3, <2>4, <2>5 DEF IInv
<1> QED
  BY <1>1, <1>2, <1>3, <1>4, <1>5, <1>6, <1>7 DEF Next

----------------------------------------------------------------------------
(* IInv holds in every reachable state, for every timing, size and host.   *)
THEOREM Invariance == Spec => []IInv
BY InitEstablishes, StepPreserves, PTL DEF Spec

(* Every variable keeps its type, and the indices of the rings agree with  *)
(* their counts.                                                           *)
THEOREM TypeCorrect == Spec => []TypeOK
<1>1. IInv => TypeOK
  BY DEF IInv, DacInv, DacTypeOK, RegisterSets, Steps, RingsOK, Posted, HostTypeOK, Reports, TypeOK
<1> QED
  BY <1>1, Invariance, PTL

(* Whatever fails on the bus and whenever, a driver that is ready knows    *)
(* its chip (dac.cpp, poll, set_mute, set_attenuation, safe_fault).        *)
THEOREM ReadyDriverKnowsChip == Spec => []DriverKnowsChip
<1>1. IInv => DriverKnowsChip
  BY DEF IInv, DacInv, ChipInv
<1> QED
  BY <1>1, Invariance, PTL

(* When the pass has drained the queue, and the last volume found room in  *)
(* it, both channels of a ready chip play at the volume that GET_CUR       *)
(* answers, whatever was lost before (usb_device.cpp post_event and        *)
(* take_event, main.cpp:322-324, dac.cpp).                                 *)
THEOREM ChipFollowsVolume == Spec => []VolumeFollowsHost
<1>1. IInv => VolumeFollowsHost
  <2> SUFFICES ASSUME IInv, pc \in {"run", "poll"}, usbReady, Ready, ~volumeLost
               PROVE  registers.left = registers.right /\ volume + 128 * registers.left \in -64..64
    BY DEF VolumeFollowsHost
  <2>1. NoLaterVolume(0)
    BY DEF IInv, LoopInv, NoLaterVolume
  <2>2. attenuation = volume
    BY <2>1 DEF IInv, VolumeInv
  <2>3. registers.left = registers.right /\ registers.left = AttenuationSteps(attenuation)
    BY DEF IInv, DacInv, ChipInv, DriverKnowsChip
  <2>4. attenuation \in LowestVolume..0
    BY DEF IInv, DacInv, DacTypeOK
  <2> QED
    BY <2>2, <2>3, <2>4, AttenuationRounds
<1> QED
  BY <1>1, Invariance, PTL

(* The report the host asked for last is requested, being sent or pending, *)
(* and pending only behind another one (send_diagnostics, send_event_trace, *)
(* send_dma_diagnostics and task in usb_device.cpp).                       *)
THEOREM LastReportIsKept == Spec => []ReportNotForgotten
<1>1. IInv => ReportNotForgotten
  <2> SUFFICES ASSUME IInv PROVE ReportNotForgotten
    OBVIOUS
  <2>1. ReportInv /\ RingsOK
    BY DEF IInv
  <2>2. DOMAIN Queued = 1..eventCount
    BY DEF Queued
  <2>3. asked \in {"None", hidBusy, pendingReport} \cup {Queued[i].event : i \in DOMAIN Queued}
    BY <2>1, <2>2 DEF ReportInv
  <2> QED
    BY <2>1, <2>3 DEF ReportInv, ReportNotForgotten
<1> QED
  BY <1>1, Invariance, PTL

----------------------------------------------------------------------------
(* The rings of UsbDevice as the queue and the history of EventLog.        *)

logVars == <<Queued, Trace, eventTrace, dropped>>

LEMMA LogInit == Init => Log!Init
<1> SUFFICES ASSUME Init PROVE Log!Init
  OBVIOUS
<1>1. /\ eventCount = 0 /\ historyCount = 0 /\ eventTrace = <<>> /\ dropped = FALSE
  BY DEF Init, UsbInit
<1>2. Queued = <<>> /\ Trace = <<>>
  BY <1>1 DEF Queued, Trace
<1> QED
  BY <1>1, <1>2 DEF Log!Init

(* A callback posts: the queue loses what it has no room for, the history  *)
(* does not.                                                               *)
LEMMA PostIsLogged ==
    ASSUME RingsOK, NEW r \in Records, PostEvent(r), eventTrace' = eventTrace
    PROVE  Log!Next
<1>1. r \in Posted /\ RecordHistory(r)
  BY DEF Posted, PostEvent
<1>2. /\ Len(Queued) = eventCount /\ eventCount \in 0..EventCapacity /\ EventCapacity \in Nat
  BY RingSequences, UsbSizeAssumption
<1>3. Trace' = IF r.event \in ReportRequests THEN Trace ELSE Log!Latest(Append(Trace, r))
  BY <1>1, PostRecords
<1>4. IF Len(Queued) < EventCapacity
      THEN Queued' = Append(Queued, r) /\ UNCHANGED dropped
      ELSE dropped' = TRUE /\ UNCHANGED Queued
  <2>1. Len(Queued) < EventCapacity <=> eventCount # EventCapacity
    BY <1>2
  <2>2. /\ eventCount = EventCapacity => Queued' = Queued /\ dropped' = TRUE
        /\ eventCount # EventCapacity => Queued' = Append(Queued, r) /\ dropped' = dropped
    BY <1>1, PostQueues
  <2> QED
    BY <2>1, <2>2
<1>5. Log!Post(r)
  BY <1>3, <1>4 DEF Log!Post
<1> QED
  BY <1>5 DEF Log!Next

(* The loop takes the oldest request, and only one for a trace looks at the *)
(* history.                                                                *)
LEMMA TakeIsLogged ==
    ASSUME RingsOK, TakeEvent,
           IF NextEvent.event = "EventTrace" THEN eventTrace' = Trace ELSE eventTrace' = eventTrace
    PROVE  Log!Next
<1>1. Queued # <<>> /\ Head(Queued) = NextEvent /\ Queued' = Tail(Queued)
  BY TakeQueues
<1>2. Trace' = Trace /\ dropped' = dropped
  BY DEF TakeEvent, historyVars, Trace, Oldest
<1>3. CASE NextEvent.event = "EventTrace"
  BY <1>1, <1>2, <1>3 DEF Log!TakeTraceRequest, Log!Next
<1>4. CASE NextEvent.event # "EventTrace"
  BY <1>1, <1>2, <1>4 DEF Log!Take, Log!TakeOther, Log!Next
<1> QED
  BY <1>3, <1>4

LEMMA SameRingsSameLog ==
    ASSUME UNCHANGED <<queueVars, historyVars, dropped, eventTrace>>
    PROVE  UNCHANGED logVars
BY DEF queueVars, historyVars, logVars, Queued, Trace, Oldest

LEMMA StepIsLogged ==
    ASSUME IInv, [Next]_vars
    PROVE  [Log!Next]_logVars
<1>1. RingsOK
  BY DEF IInv
<1>2. CASE Callback
  <2>1. PICK r \in Records : PostEvent(r) /\ eventTrace' = eventTrace
    <3>1. ASSUME NEW v \in HostVolumes, SetVolume(v)
          PROVE  \E r \in Records : PostEvent(r) /\ eventTrace' = eventTrace
      <4>1. PostEvent(Record("Volume", HostVolume(v))) /\ eventTrace' = eventTrace
        BY <3>1 DEF SetVolume
      <4> QED
        BY <4>1 DEF Records
    <3>2. ASSUME NEW k \in HostReports, AskReport(k)
          PROVE  \E r \in Records : PostEvent(r) /\ eventTrace' = eventTrace
      BY <3>2 DEF AskReport, Records
    <3> QED
      BY <1>2, <3>1, <3>2 DEF Callback
  <2> QED
    BY <1>1, <2>1, PostIsLogged
<1>3. CASE HandleVolume \/ HandleReport
  <2>1. /\ TakeEvent
        /\ IF NextEvent.event = "EventTrace" THEN eventTrace' = Trace ELSE eventTrace' = eventTrace
    <3>1. CASE HandleVolume
      BY <3>1 DEF HandleVolume, Take
    <3>2. CASE Take("EventTrace") /\ SendEventTrace
      BY <3>2 DEF Take, SendEventTrace
    <3>3. ASSUME NEW k \in {"Diagnostics", "DmaDiagnostics"}, Take(k), SendDiagnostics(k)
          PROVE  TakeEvent /\ NextEvent.event # "EventTrace" /\ eventTrace' = eventTrace
      BY <3>3 DEF Take, SendDiagnostics
    <3> QED
      BY <1>3, <3>1, <3>2, <3>3 DEF HandleReport
  <2> QED
    BY <1>1, <2>1, TakeIsLogged
<1>4. CASE \/ \E d \in 0..MaxElapsed : Poll(d)
           \/ HostReads \/ TaskDone \/ Drained \/ StageCalls \/ PassDone
           \/ UNCHANGED vars
  <2>1. UNCHANGED <<queueVars, historyVars, dropped, eventTrace>>
    BY <1>4 DEF Poll, HostReads, ReadReport, TaskDone, SendPending, Drained, StageCalls, PassDone,
       vars, usbVars
  <2> QED
    BY <2>1, SameRingsSameLog
<1> QED
  BY <1>2, <1>3, <1>4 DEF Next

(* Requests are handled in the order in which they came, none twice, the   *)
(* lost ones are counted, and the trace tells the last of them, however    *)
(* full the rings run (post_event, take_event and send_event_trace in      *)
(* usb_device.cpp).                                                        *)
THEOREM EventLogImplemented == Spec => ImplementsEventLog
<1>1. Init => Log!Init
  BY LogInit
<1>2. IInv /\ [Next]_vars => [Log!Next]_Log!vars
  BY StepIsLogged DEF logVars, Log!vars
<1> QED
  BY <1>1, <1>2, Invariance, PTL DEF Spec, ImplementsEventLog, Log!Spec
=============================================================================
