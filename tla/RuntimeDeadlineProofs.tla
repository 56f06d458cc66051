----------------------- MODULE RuntimeDeadlineProofs -----------------------
(***************************************************************************)
(* Proofs about the deadlines of Runtime: what the waits of the staged     *)
(* start amount to on stopwatches that no restart, pause or mute stops     *)
(* (RuntimeTiming), and that the words of the wrapping counter answer what *)
(* the ticks left do (RuntimeWindows). Each module runs beside Runtime; no *)
(* state has both.                                                         *)
(***************************************************************************)
EXTENDS RuntimeTiming, RuntimeWindows, RuntimeProofs

(* Every stage has waited for the sum of its own and the earlier waits,    *)
(* less the ticks still to go.                                             *)
WaitedInv ==
    /\ step = "RelayRelease" => openFor + timer >= RelayRelease
    /\ step = "ClockSettle" => selectedFor + timer >= OscillatorSettle
    /\ step \in {"DmaProgress", "Prefill"} => selectedFor >= OscillatorSettle
    /\ step = "Stable" => selectedFor + timer >= OscillatorSettle + StableAudio
    /\ step = "DacSettle" =>
          /\ selectedFor + timer >= OscillatorSettle + StableAudio + DacSettle
          /\ ~dac.muted => unmutedFor + timer >= DacSettle

AgeInv ==
    /\ openFor \in 0..MaxAge /\ selectedFor \in 0..MaxAge /\ unmutedFor \in 0..MaxAge
    /\ WaitedInv

----------------------------------------------------------------------------
(* How a step of Runtime that does not read the clock moves its stage and  *)
(* the deadline of the stage.                                              *)

Stays ==
    /\ UNCHANGED <<step, timer, clk>> /\ (relay' => relay) /\ (dac.muted => dac'.muted)
    /\ pc' = "checks" /\ step \notin Untimed /\ pc = "start" => timer # 0

Retreats ==
    /\ \/ step' = "None" /\ timer' = timer
       \/ step' = "RelayRelease" /\ timer' = RelayRelease
    /\ ~relay' /\ clk'.selected = clk.selected

Advances ==
    \/ /\ step = "RelayRelease" /\ timer = 0
       /\ step' = "ClockSettle" /\ timer' = OscillatorSettle /\ ~relay'
    \/ /\ clk'.selected = clk.selected
       /\ \/ /\ step = "ClockSettle" /\ timer = 0
             /\ step' = "DmaProgress" /\ timer' = DmaStartLimit /\ ~relay'
          \/ step = "DmaProgress" /\ step' = "Prefill" /\ timer' = timer /\ ~relay'
          \/ step = "Prefill" /\ step' = "Stable" /\ timer' = StableAudio /\ ~relay'
          \/ /\ step = "Stable" /\ timer = 0
             /\ step' = "DacSettle" /\ timer' = DacSettle /\ ~relay'
          \/ /\ step = "DacSettle" /\ timer = 0 /\ ~dac.muted
             /\ step' = "Playing" /\ timer' = timer

Moves ==
    /\ Stays \/ Retreats \/ Advances
    /\ pc' = "checks" => pc \in {"start", "checks"}
    /\ pc' = "poll" => pc \in {"checks", "poll"}

UntimedStep == HostStep \/ BodyStep \/ InterruptStep \/ Gone

LEMMA StageFacts ==
    ASSUME IInv
    PROVE  /\ dac \in DacStates /\ (dac.state # "Ready" => dac.muted)
           /\ clk \in [selected : Rates, stable : BOOLEAN]
           /\ timer \in Nat /\ step \in Steps
           /\ relay => step = "Playing"
BY IInvSplit DEF OutInv, OutType, PathInv, StageInv, RelaySafe

LEMMA StopRetreats ==
    ASSUME IInv, NEW d, NEW fault, NEW reason, SafeStop(d, fault, reason)
    PROVE  Retreats
BY StageFacts, InvalidatedFacts DEF SafeStop, Retreats

LEMMA StartRetreats ==
    ASSUME IInv, BeginStart
    PROVE  Retreats
BY StageFacts, InvalidatedFacts DEF BeginStart, Retreats

LEMMA DrainMoves ==
    ASSUME IInv, DrainStep
    PROVE  Stays \/ Retreats
<1>1. pc' # "checks"
  BY DEF DrainStep, HandleMounted, HandleStart, HandleRate, HandleVolume, HandleMute, HandleUnmute,
     HandleStop, HandleDetached, HandleSuspended, HandleResumed, HandleBootloaderArm,
     HandleUpdaterArm, HandleArm, Drained, Take
<1>2. CASE OutputUnchanged
  BY <1>1, <1>2 DEF OutputUnchanged, Stays
<1>3. ASSUME NEW d, NEW fault, NEW reason, SafeStop(d, fault, reason) PROVE Retreats
  BY <1>3, StopRetreats
<1>4. CASE BeginStart
  BY <1>4, StartRetreats
<1>5. CASE HandleMounted \/ HandleRate \/ HandleVolume \/ HandleUnmute \/ HandleResumed
           \/ HandleDetached \/ HandleSuspended \/ HandleBootloaderArm \/ HandleUpdaterArm
  BY <1>2, <1>3, <1>4, <1>5 DEF HandleMounted, HandleRate, HandleVolume, HandleUnmute, HandleResumed,
     HandleDetached, HandleSuspended, HandleBootloaderArm, HandleUpdaterArm, HandleArm
<1>6. CASE HandleStart
  <2>1. BeginStart \/ UNCHANGED <<relay, dac, clk, step, timer>>
    BY <1>6 DEF HandleStart
  <2> QED
    BY <1>1, <1>4, <2>1 DEF Stays
<1>7. CASE HandleMute
  <2>1. dac'.muted
    BY <1>7, StageFacts, SetMuteFacts DEF HandleMute
  <2> QED
    BY <1>1, <1>7, <2>1 DEF HandleMute, Stays
<1>8. CASE HandleStop
  <2>1. UNCHANGED <<relay, dac, clk, step, timer>> \/ SafeStop(dac, FALSE, "HostStop")
    BY <1>8 DEF HandleStop, EnterConnectedIdle
  <2> QED
    BY <1>1, <1>3, <2>1 DEF Stays
<1>9. CASE Drained
  BY <1>1, <1>9 DEF Drained, Stays, runtimeVars, hwVars
<1> QED
  BY <1>5, <1>6, <1>7, <1>8, <1>9 DEF DrainStep

LEMMA StartMoves ==
    ASSUME IInv, StartStep
    PROVE  Stays \/ Retreats \/ Advances
<1>1. /\ dac \in DacStates /\ clk \in [selected : Rates, stable : BOOLEAN]
      /\ relay => step = "Playing"
  BY StageFacts
<1>2. ASSUME NEW d, NEW fault, NEW reason, SafeStop(d, fault, reason) PROVE Retreats
  BY <1>2, StopRetreats
<1>3. CASE ConfigureFails \/ DmaNoProgress \/ UnstableStream \/ HeldMuted \/ UnmuteFails \/ RefuseRelay
  BY <1>2, <1>3 DEF ConfigureFails, DmaNoProgress, UnstableStream, HeldMuted, UnmuteFails, RefuseRelay
<1>4. CASE EngineStartFails
  BY <1>1, <1>4, InvalidatedFacts DEF EngineStartFails, Retreats
<1>5. CASE SelectOscillator
  BY <1>1, <1>5 DEF SelectOscillator, StartAt, Reached, StageKeeps, Advances
<1>6. CASE StartEngine
  <2>1. clk'.selected = clk.selected
    BY <1>1, <1>6 DEF StartEngine
  <2> QED
    BY <1>1, <1>6, <2>1 DEF StartEngine, StartAt, Reached, Advances
<1>7. CASE ConfirmDmaProgress
  BY <1>1, <1>7 DEF ConfirmDmaProgress, StartAt, StageKeeps, Advances
<1>8. CASE JoinStream
  <2>1. CASE desired # active
    BY <1>8, <2>1, StartRetreats DEF JoinStream
  <2>2. CASE desired = active
    BY <1>1, <1>8, <2>2 DEF JoinStream, StartAt, Advances
  <2> QED
    BY <2>1, <2>2
<1>9. CASE UnmuteDac
  BY <1>1, <1>9 DEF UnmuteDac, StableReached, StartAt, Reached, StageKeeps, Advances
<1>10. CASE CloseRelay
  BY <1>10 DEF CloseRelay, OutputReady, StartAt, Reached, Advances
<1>11. CASE StageWaits
  BY <1>11 DEF StageWaits, OutputUnchanged, Reached, Untimed, Stays
<1> QED
  BY <1>3, <1>4, <1>5, <1>6, <1>7, <1>8, <1>9, <1>10, <1>11 DEF StartStep

LEMMA StepMoves ==
    ASSUME IInv, UntimedStep
    PROVE  Moves
<1>1. CASE HostStep \/ InterruptStep \/ Gone \/ TaskDone
  <2>1. UNCHANGED <<step, timer, clk, relay, dac>>
    BY <1>1 DEF HostStep, Mount, Unmount, Suspend, Resume, SetInterface, CloseEndpoint, SetRate,
       SetMuteControl, SetVolume, RequestMaintenance, InTask, InterruptStep, DmaComplete, DmaFails,
       ReceiveAudio, Gone, TaskDone, vars, runtimeVars, hwVars
  <2>2. pc' = pc \/ pc' = "drain"
    BY <1>1 DEF HostStep, Mount, Unmount, Suspend, Resume, SetInterface, CloseEndpoint, SetRate,
       SetMuteControl, SetVolume, RequestMaintenance, InTask, InterruptStep, DmaComplete, DmaFails,
       ReceiveAudio, Gone, TaskDone, vars
  <2> QED
    BY <2>1, <2>2 DEF Moves, Stays
<1>2. CASE DrainStep
  <2>1. pc' \in {"drain", "resume", "rom", "updater"}
    BY <1>2 DEF DrainStep, HandleMounted, HandleStart, HandleRate, HandleVolume, HandleMute,
       HandleUnmute, HandleStop, HandleDetached, HandleSuspended, HandleResumed,
       HandleBootloaderArm, HandleUpdaterArm, HandleArm, Drained, Take
  <2> QED
    BY <1>2, <2>1, DrainMoves DEF Moves
<1>3. CASE AttachResumed
  BY <1>3 DEF AttachResumed, Moves, Stays
<1>4. CASE StartStep
  <2>1. pc = "start" /\ pc' = "checks"
    BY <1>4 DEF StartStep, SelectOscillator, StartEngine, ConfigureFails, EngineStartFails,
       ConfirmDmaProgress, DmaNoProgress, JoinStream, UnstableStream, StableReached, HeldMuted,
       UnmuteDac, UnmuteFails, CloseRelay, RefuseRelay, StageWaits, StartAt
  <2> QED
    BY <1>4, <2>1, StartMoves DEF Moves
<1>5. CASE CheckStep
  <2>1. OutputUnchanged \/ \E reason : SafeStop(dac, TRUE, reason)
    BY <1>5 DEF CheckStep, DmaErrorFault, UnderrunFault, NoFault
  <2>2. pc = "checks" /\ pc' = "poll"
    BY <1>5 DEF CheckStep, DmaErrorFault, UnderrunFault, NoFault, LeaveChecks
  <2>3. OutputUnchanged => Stays
    BY <2>2 DEF OutputUnchanged, Stays
  <2>4. Stays \/ Retreats
    BY <2>1, <2>3, StopRetreats
  <2> QED
    BY <2>2, <2>4 DEF Moves
<1> QED
  BY <1>1, <1>2, <1>3, <1>4, <1>5 DEF UntimedStep, BodyStep

(* Reading the clock moves no stage.                                       *)
LEMMA PollMoves ==
    ASSUME IInv, NEW d \in 0..MaxElapsed, PollStep(d)
    PROVE  /\ step' = step /\ (relay' => relay) /\ clk'.selected = clk.selected
           /\ (dac.muted => dac'.muted)
           /\ step = "None" \/ timer' = Remaining(timer, d)
           /\ pc = "poll" /\ pc' \in {"task", "resume"}
           /\ bootArm' = Remaining(bootArm, d) /\ updArm' = Remaining(updArm, d)
<1>1. /\ dac \in DacStates /\ (dac.state # "Ready" => dac.muted)
      /\ clk \in [selected : Rates, stable : BOOLEAN]
      /\ ~usbReady => step = "None"
  BY StageFacts, IInvSplit DEF StartupInv
<1>2. \A d2 \in DacPoll(dac) : d2 \in DacStates /\ (d2.state # "Ready" => d2.muted)
                               /\ (dac.muted => d2.muted)
  BY <1>1, DacPollFacts
<1>3. CASE Poll(d)
  BY <1>2, <1>3 DEF Poll, Elapse
<1>4. CASE InitUsb(d)
  <2>1. PICK d2 \in DacPoll(dac) :
          \/ dac' = d2 /\ UNCHANGED <<relay, step, clk>> /\ pc' = "task"
          \/ SafeStop(d2, TRUE, "StartFault") /\ pc' = "resume"
    BY <1>4 DEF InitUsb
  <2>2. step = "None" /\ pc = "poll" /\ Elapse(d)
    BY <1>1, <1>4 DEF InitUsb
  <2>3. CASE dac' = d2 /\ UNCHANGED <<relay, step, clk>> /\ pc' = "task"
    <3>1. dac.muted => dac'.muted
      BY <1>2, <2>3
    <3> QED
      BY <2>2, <2>3, <3>1 DEF Elapse
  <2>4. CASE SafeStop(d2, TRUE, "StartFault") /\ pc' = "resume"
    <3>1. dac'.muted
      BY <1>2, <2>4, SetMuteFacts DEF SafeStop
    <3>2. step' = "None" /\ relay' = FALSE /\ clk'.selected = clk.selected
      BY <1>1, <2>4, InvalidatedFacts DEF SafeStop
    <3> QED
      BY <2>2, <2>4, <3>1, <3>2 DEF Elapse
  <2> QED
    BY <2>1, <2>3, <2>4
<1> QED
  BY <1>3, <1>4 DEF PollStep

----------------------------------------------------------------------------
(* The stopwatches. *)

LEMMA OlderFacts ==
    ASSUME NEW age \in 0..MaxAge, NEW d \in Nat
    PROVE  /\ Older(age, d) \in 0..MaxAge /\ Older(age, 0) = age /\ Older(age, d) >= age
           /\ \A t, w \in Nat : w <= MaxAge /\ age + t >= w =>
                  Older(age, d) + Remaining(t, d) >= w
BY AgeAssumption DEF Older, Remaining

LEMMA WaitFacts ==
    /\ RelayRelease \in 0..MaxAge /\ OscillatorSettle \in 0..MaxAge
    /\ OscillatorSettle + StableAudio \in 0..MaxAge
    /\ OscillatorSettle + StableAudio + DacSettle \in 0..MaxAge /\ DacSettle \in 0..MaxAge
    /\ StableAudio \in Nat /\ DmaStartLimit \in Nat
BY AgeAssumption, TimingAssumption

LEMMA FullWait ==
    ASSUME NEW age \in Nat, NEW wait \in Nat, NEW left, left = wait
    PROVE  age + left >= wait
OBVIOUS

LEMMA TimedInitially == TimedInit => IInv /\ AgeInv
<1>1. TimedInit => IInv
  BY InitEstablishes DEF TimedInit
<1>2. TimedInit => AgeInv
  BY AgeAssumption DEF TimedInit, Init, AgeInv, WaitedInv
<1> QED
  BY <1>1, <1>2

LEMMA TimedIsNext == [TimedNext]_timedVars => [Next]_vars
BY DEF TimedNext, timedVars, Next, LoopStep, BodyStep

LEMMA WatchedPoll ==
    ASSUME IInv, IInv', AgeInv, NEW d \in 0..MaxElapsed, PollStep(d), Watch(d)
    PROVE  AgeInv'
<1>1. /\ step' = step /\ (relay' => relay) /\ clk'.selected = clk.selected
      /\ (dac.muted => dac'.muted) /\ (step = "None" \/ timer' = Remaining(timer, d))
  BY PollMoves
<1>2. d \in Nat /\ timer \in Nat /\ (relay' => step' = "Playing")
  BY <1>1, StageFacts, BoundAssumption
<1>3. openFor \in 0..MaxAge /\ selectedFor \in 0..MaxAge /\ unmutedFor \in 0..MaxAge /\ WaitedInv
  BY DEF AgeInv
<1>4. /\ openFor' = IF relay' THEN 0 ELSE Older(openFor, d)
      /\ selectedFor' = Older(selectedFor, d)
      /\ unmutedFor' = IF dac'.muted THEN 0 ELSE Older(unmutedFor, d)
  BY <1>1 DEF Watch
<1>5. openFor' \in 0..MaxAge /\ selectedFor' \in 0..MaxAge /\ unmutedFor' \in 0..MaxAge
  <2>1. 0 \in 0..MaxAge
    BY AgeAssumption
  <2>2. /\ Older(openFor, d) \in 0..MaxAge /\ Older(selectedFor, d) \in 0..MaxAge
        /\ Older(unmutedFor, d) \in 0..MaxAge
    BY <1>2, <1>3, OlderFacts
  <2> QED
    BY <1>4, <2>1, <2>2
<1>6. CASE step = "RelayRelease"
  <2>1. openFor + timer >= RelayRelease
    BY <1>3, <1>6 DEF WaitedInv
  <2>2. Older(openFor, d) + Remaining(timer, d) >= RelayRelease
    BY <1>2, <1>3, <2>1, OlderFacts, WaitFacts
  <2> QED
    BY <1>1, <1>2, <1>4, <1>5, <1>6, <2>2 DEF AgeInv, WaitedInv
<1>7. CASE step = "ClockSettle"
  <2>1. selectedFor + timer >= OscillatorSettle
    BY <1>3, <1>7 DEF WaitedInv
  <2>2. Older(selectedFor, d) + Remaining(timer, d) >= OscillatorSettle
    BY <1>2, <1>3, <2>1, OlderFacts, WaitFacts
  <2> QED
    BY <1>1, <1>4, <1>5, <1>7, <2>2 DEF AgeInv, WaitedInv
<1>8. CASE step \in {"DmaProgress", "Prefill"}
  <2>1. selectedFor >= OscillatorSettle
    BY <1>3, <1>8 DEF WaitedInv
  <2>2. Older(selectedFor, d) >= selectedFor /\ Older(selectedFor, d) \in Int
    BY <1>2, <1>3, OlderFacts
  <2>3. Older(selectedFor, d) >= OscillatorSettle
    BY <1>3, <2>1, <2>2, WaitFacts
  <2> QED
    BY <1>1, <1>4, <1>5, <1>8, <2>3 DEF AgeInv, WaitedInv
<1>9. CASE step = "Stable"
  <2>1. selectedFor + timer >= OscillatorSettle + StableAudio
    BY <1>3, <1>9 DEF WaitedInv
  <2>2. Older(selectedFor, d) + Remaining(timer, d) >= OscillatorSettle + StableAudio
    BY <1>2, <1>3, <2>1, OlderFacts, WaitFacts
  <2> QED
    BY <1>1, <1>4, <1>5, <1>9, <2>2 DEF AgeInv, WaitedInv
<1>10. CASE step = "DacSettle"
  <2>1. /\ selectedFor + timer >= OscillatorSettle + StableAudio + DacSettle
        /\ ~dac.muted => unmutedFor + timer >= DacSettle
    BY <1>3, <1>10 DEF WaitedInv
  <2>2. Older(selectedFor, d) + Remaining(timer, d) >= OscillatorSettle + StableAudio + DacSettle
    BY <1>2, <1>3, <2>1, OlderFacts, WaitFacts
  <2>3. ~dac'.muted => Older(unmutedFor, d) + Remaining(timer, d) >= DacSettle
    <3> SUFFICES ASSUME ~dac'.muted
                 PROVE  Older(unmutedFor, d) + Remaining(timer, d) >= DacSettle
      OBVIOUS
    <3>1. unmutedFor + timer >= DacSettle
      BY <1>1, <2>1
    <3>2. unmutedFor \in 0..MaxAge /\ DacSettle \in Nat /\ DacSettle <= MaxAge
      BY <1>3, WaitFacts, AgeAssumption
    <3> QED
      BY <1>2, <3>1, <3>2, OlderFacts
  <2> QED
    BY <1>1, <1>4, <1>5, <1>10, <2>2, <2>3 DEF AgeInv, WaitedInv
<1>11. CASE step \in {"None", "Playing"}
  BY <1>1, <1>5, <1>11 DEF AgeInv, WaitedInv
<1> QED
  BY <1>6, <1>7, <1>8, <1>9, <1>10, <1>11, StageFacts DEF Steps

LEMMA WatchedStep ==
    ASSUME IInv, IInv', AgeInv, UntimedStep, Watch(0)
    PROVE  AgeInv'
<1>1. /\ timer \in Nat /\ (relay' => step' = "Playing") /\ Moves
      /\ (step' \notin {"DacSettle", "Playing"} => dac'.muted)
  <2>1. timer \in Nat /\ Moves
    BY StageFacts, StepMoves
  <2>2. relay' => step' = "Playing"
    BY DEF IInv, RelaySafe
  <2>3. step' \notin {"DacSettle", "Playing"} => dac'.muted
    BY DEF IInv, StageInv
  <2> QED
    BY <2>1, <2>2, <2>3
<1>2. openFor \in 0..MaxAge /\ selectedFor \in 0..MaxAge /\ unmutedFor \in 0..MaxAge /\ WaitedInv
  BY DEF AgeInv
<1>3. /\ openFor' = IF relay' THEN 0 ELSE openFor
      /\ selectedFor' = IF clk'.selected # clk.selected THEN 0 ELSE selectedFor
      /\ unmutedFor' = IF dac'.muted THEN 0 ELSE unmutedFor
  BY <1>2, OlderFacts DEF Watch
<1>4. openFor' \in 0..MaxAge /\ selectedFor' \in 0..MaxAge /\ unmutedFor' \in 0..MaxAge
  BY <1>2, <1>3, AgeAssumption
<1>5. CASE Stays
  <2>1. /\ step' = step /\ timer' = timer /\ selectedFor' = selectedFor
        /\ ~dac'.muted => ~dac.muted /\ unmutedFor' = unmutedFor
        /\ step' # "Playing" => openFor' = openFor
    BY <1>1, <1>3, <1>5 DEF Stays
  <2> QED
    BY <1>2, <1>4, <2>1 DEF AgeInv, WaitedInv
<1>6. CASE Retreats
  BY <1>4, <1>6, WaitFacts, TimingAssumption DEF Retreats, AgeInv, WaitedInv
<1>7. CASE Advances
  <2>1. CASE step = "RelayRelease" /\ step' = "ClockSettle" /\ timer' = OscillatorSettle
    <3>1. selectedFor' \in Nat /\ OscillatorSettle \in Nat
      BY <1>4, AgeAssumption, TimingAssumption
    <3>2. selectedFor' + timer' >= OscillatorSettle
      BY <2>1, <3>1, FullWait
    <3> QED
      BY <1>4, <2>1, <3>2 DEF AgeInv, WaitedInv
  <2>2. CASE clk'.selected = clk.selected /\ step # "RelayRelease"
    <3>1. selectedFor' = selectedFor
      BY <1>3, <2>2
    <3>2. CASE step' \in {"DmaProgress", "Prefill", "Playing"}
      BY <1>2, <1>4, <1>7, <2>2, <3>1, <3>2, TimingAssumption, AgeAssumption DEF Advances, AgeInv, WaitedInv
    <3>3. CASE step' = "Stable"
      BY <1>2, <1>4, <1>7, <2>2, <3>1, <3>3, TimingAssumption, AgeAssumption DEF Advances, AgeInv, WaitedInv
    <3>4. CASE step' = "DacSettle"
      <4>1. step = "Stable" /\ timer = 0 /\ timer' = DacSettle
        BY <1>7, <3>4 DEF Advances
      <4>2. selectedFor >= OscillatorSettle + StableAudio
        BY <1>2, <4>1 DEF WaitedInv
      <4>3. /\ selectedFor' \in Nat /\ unmutedFor' \in Nat /\ OscillatorSettle \in Nat
            /\ DacSettle \in Nat /\ StableAudio \in Nat
        BY <1>4, AgeAssumption, TimingAssumption
      <4>4. selectedFor' + timer' >= OscillatorSettle + StableAudio + DacSettle
        BY <3>1, <4>1, <4>2, <4>3
      <4>5. unmutedFor' + timer' >= DacSettle
        BY <4>1, <4>3, FullWait
      <4> QED
        BY <1>4, <3>4, <4>4, <4>5 DEF AgeInv, WaitedInv
    <3> QED
      BY <1>7, <2>2, <3>2, <3>3, <3>4 DEF Advances
  <2> QED
    BY <1>7, <2>1, <2>2 DEF Advances
<1> QED
  BY <1>1, <1>5, <1>6, <1>7 DEF Moves

LEMMA TimedPreserves == IInv /\ AgeInv /\ [TimedNext]_timedVars => (IInv /\ AgeInv)'
<1> SUFFICES ASSUME IInv, AgeInv, [TimedNext]_timedVars PROVE IInv' /\ AgeInv'
  OBVIOUS
<1>1. IInv'
  BY TimedIsNext, StepPreserves
<1>2. ASSUME NEW d \in 0..MaxElapsed, PollStep(d) /\ Watch(d) PROVE AgeInv'
  BY <1>1, <1>2, WatchedPoll
<1>3. CASE UntimedStep /\ Watch(0)
  BY <1>1, <1>3, WatchedStep
<1>4. CASE UNCHANGED timedVars
  <2>1. UNCHANGED <<step, timer, dac, openFor, selectedFor, unmutedFor>>
    BY <1>4 DEF timedVars, vars, runtimeVars, hwVars
  <2> QED
    BY <1>1, <2>1 DEF AgeInv, WaitedInv
<1> QED
  BY <1>1, <1>2, <1>3, <1>4 DEF TimedNext, UntimedStep

(* On every way through the staged start the stopwatches and the timer     *)
(* together show the waits that begin_start and run_start ask for          *)
(* (main.cpp:100-173), however the host restarts, mutes or suspends it.     *)
THEOREM TimedInvariance == TimedSpec => [](IInv /\ AgeInv)
BY TimedInitially, TimedPreserves, PTL DEF TimedSpec

(* The oscillator is switched only behind a relay that has been open for   *)
(* its release time and with the DAC muted, however often starts were      *)
(* interrupted and repeated before (run_start, begin_start).               *)
THEOREM SwitchIsQuiet == TimedSpec => QuietSwitch
<1> DEFINE A == clk'.selected # clk.selected => openFor >= RelayRelease /\ dac.muted
<1>1. IInv /\ AgeInv /\ [TimedNext]_timedVars => [A]_timedVars
  <2> SUFFICES ASSUME IInv, AgeInv, TimedNext, clk'.selected # clk.selected
               PROVE  openFor >= RelayRelease /\ dac.muted
    OBVIOUS
  <2>1. ~ \E d \in 0..MaxElapsed : PollStep(d)
    BY PollMoves
  <2>2. Moves
    BY <2>1, StepMoves DEF TimedNext, UntimedStep
  <2>3. step = "RelayRelease" /\ timer = 0
    BY <2>2 DEF Moves, Stays, Retreats, Advances
  <2>4. dac.muted
    BY <2>3, IInvSplit DEF OutInv, PathInv, StageInv
  <2> QED
    BY <2>3, <2>4, WaitFacts DEF AgeInv, WaitedInv
<1> QED
  BY <1>1, TimedInvariance, PTL DEF TimedSpec, QuietSwitch

(* The relay closes only after the whole chain of waits: the oscillator    *)
(* has been selected, and the DAC unmuted, for at least what the stages    *)
(* after them are to wait (run_start).                                     *)
THEOREM RelayClosesAfterWaits == TimedSpec => RelayClosesSettled
<1> DEFINE A == ~relay /\ relay' =>
                    /\ selectedFor >= OscillatorSettle + StableAudio + DacSettle
                    /\ unmutedFor >= DacSettle
<1>1. IInv /\ AgeInv /\ [TimedNext]_timedVars => [A]_timedVars
  <2> SUFFICES ASSUME IInv, AgeInv, TimedNext, ~relay, relay'
               PROVE  /\ selectedFor >= OscillatorSettle + StableAudio + DacSettle
                      /\ unmutedFor >= DacSettle
    OBVIOUS
  <2>1. ~ \E d \in 0..MaxElapsed : PollStep(d)
    BY PollMoves
  <2>2. Moves
    BY <2>1, StepMoves DEF TimedNext, UntimedStep
  <2>3. step = "DacSettle" /\ timer = 0 /\ ~dac.muted
    BY <2>2 DEF Moves, Stays, Retreats, Advances
  <2> QED
    BY <2>3, WaitFacts DEF AgeInv, WaitedInv
<1> QED
  BY <1>1, TimedInvariance, PTL DEF TimedSpec, RelayClosesSettled

----------------------------------------------------------------------------
(* The words of the counter. *)

Words == 0..(Wrap - 1)
Half  == Wrap \div 2

(* A word says at now what t ticks left say: it is t ticks ahead, or it    *)
(* was passed no longer ago than one pass of the loop.                     *)
Answers(now, word, t) ==
    /\ word \in Words /\ t \in Nat /\ t + MaxElapsed < Half
    /\ t > 0 => word = now + t \/ word = now + t - Wrap
    /\ t = 0 => \E late \in 0..MaxElapsed : now = word + late \/ now = word + late - Wrap

LEMMA WordSizes ==
    /\ Wrap \in Nat \ {0} /\ Half \in Nat /\ Half + Half <= Wrap /\ MaxElapsed \in Nat
    /\ 0 \in Words /\ 0 < Half /\ MaxElapsed < Half
    /\ \A w \in {RelayRelease, OscillatorSettle, DmaStartLimit, StableAudio, DacSettle, ArmWindow} :
           w \in Nat \ {0} /\ w + MaxElapsed < Half
<1>1. Wrap \in Nat \ {0} /\ Half \in Nat /\ Half + Half <= Wrap /\ MaxElapsed \in Nat
  BY WrapAssumption, BoundAssumption DEF Half
<1>2. \A w \in {RelayRelease, OscillatorSettle, DmaStartLimit, StableAudio, DacSettle, ArmWindow} :
          w \in Nat \ {0} /\ w + MaxElapsed < Half
  BY WrapAssumption, TimingAssumption DEF Half
<1> QED
  BY <1>1, <1>2 DEF Words

LEMMA WrapsUp ==
    ASSUME NEW n \in Nat \ {0}, NEW x \in 0..(n + n - 1)
    PROVE  x % n = IF x < n THEN x ELSE x - n
<1>1. CASE x \in 0..(n - 1)
  BY <1>1, SMT
<1>2. CASE x \in n..(n + n - 1)
  <2>1. x = 1 * n + (x - n) /\ x - n \in 0..(n - 1)
    BY <1>2
  <2> QED
    BY <1>2, <2>1, SMT
<1> QED
  BY <1>1, <1>2

LEMMA WrapsDown ==
    ASSUME NEW n \in Nat \ {0}, NEW x \in (1 - n)..(n - 1)
    PROVE  x % n = IF x < 0 THEN x + n ELSE x
<1>1. CASE x \in 0..(n - 1)
  BY <1>1, SMT
<1>2. CASE x \in (1 - n)..(-1)
  <2>1. x = (-1) * n + (x + n) /\ x + n \in 0..(n - 1)
    BY <1>2
  <2> QED
    BY <1>2, <2>1, SMT
<1> QED
  BY <1>1, <1>2

LEMMA SumWraps ==
    ASSUME NEW n \in Nat \ {0}, NEW x \in 0..(n - 1), NEW d \in 0..(n - 1)
    PROVE  /\ (x + d) % n \in 0..(n - 1)
           /\ (x + d) % n = x + d \/ (x + d) % n = x + d - n
<1>1. PICK sum \in 0..(n + n - 1) : sum = x + d
  OBVIOUS
<1>2. sum % n = IF sum < n THEN sum ELSE sum - n
  BY <1>1, WrapsUp
<1> QED
  BY <1>1, <1>2

LEMMA AfterFacts ==
    ASSUME ticks \in Words, NEW d \in Nat, d < Half
    PROVE  /\ After(d) \in Words
           /\ After(d) = ticks + d \/ After(d) = ticks + d - Wrap
<1>1. ticks \in 0..(Wrap - 1) /\ d \in 0..(Wrap - 1) /\ Wrap \in Nat \ {0}
  BY WordSizes DEF Words
<1> QED
  BY <1>1, SumWraps DEF After, Words

LEMMA ReachedAnswers ==
    ASSUME ticks \in Words, NEW word, NEW t, Answers(ticks, word, t)
    PROVE  WordReached(word) <=> t = 0
<1>1. /\ word \in Words /\ t \in Nat /\ t + MaxElapsed < Half
      /\ t > 0 => word = ticks + t \/ word = ticks + t - Wrap
      /\ t = 0 => \E late \in 0..MaxElapsed : ticks = word + late \/ ticks = word + late - Wrap
  BY DEF Answers
<1>2. ticks - word \in (1 - Wrap)..(Wrap - 1)
  BY <1>1, WordSizes DEF Words
<1>3. (ticks - word) % Wrap = IF ticks - word < 0 THEN ticks - word + Wrap ELSE ticks - word
  BY <1>2, WrapsDown, WordSizes
<1> DEFINE difference == (ticks - word) % Wrap
<1>4. difference = IF ticks - word < 0 THEN ticks - word + Wrap ELSE ticks - word
  BY <1>3
<1>5. WordReached(word) <=> difference < Half
  BY DEF WordReached, Half
<1> HIDE DEF difference
<1>6. CASE t > 0
  <2>1. difference = Wrap - t
    BY <1>1, <1>4, <1>6, WordSizes DEF Words
  <2> QED
    BY <1>1, <1>5, <1>6, <2>1, WordSizes
<1>7. CASE t = 0
  <2>1. PICK late \in 0..MaxElapsed : ticks = word + late \/ ticks = word + late - Wrap
    BY <1>1, <1>7
  <2>2. difference = late
    BY <1>1, <1>4, <2>1, WordSizes DEF Words
  <2> QED
    BY <1>5, <1>7, <2>1, <2>2, WordSizes
<1> QED
  BY <1>1, <1>6, <1>7

(* A word that was set says it, and goes on saying it when the clock is    *)
(* read in time.                                                           *)
LEMMA SetAnswers ==
    ASSUME ticks \in Words, NEW t \in Nat, t + MaxElapsed < Half
    PROVE  Answers(ticks, After(t), t)
<1>1. /\ After(t) \in Words /\ (After(t) = ticks + t \/ After(t) = ticks + t - Wrap)
      /\ MaxElapsed \in Nat /\ Wrap \in Nat
  BY AfterFacts, WordSizes
<1>2. CASE t > 0
  BY <1>1, <1>2 DEF Answers
<1>3. CASE t = 0
  <2>1. 0 \in 0..MaxElapsed /\ (ticks = After(t) + 0 \/ ticks = After(t) + 0 - Wrap)
    BY <1>1, <1>3 DEF Words
  <2> QED
    BY <1>1, <1>3, <2>1 DEF Answers
<1> QED
  BY <1>2, <1>3

LEMMA PassAnswers ==
    ASSUME ticks \in Words, NEW word, NEW t, Answers(ticks, word, t), t > 0,
           NEW d \in 0..MaxElapsed
    PROVE  Answers(After(d), word, Remaining(t, d))
<1>1. /\ word \in Words /\ t \in Nat /\ t + MaxElapsed < Half
      /\ word = ticks + t \/ word = ticks + t - Wrap
  BY DEF Answers
<1>2. /\ After(d) \in Words /\ (After(d) = ticks + d \/ After(d) = ticks + d - Wrap)
  BY AfterFacts, WordSizes
<1> DEFINE now == After(d)
<1>3. /\ now \in Words /\ (now = ticks + d \/ now = ticks + d - Wrap)
  BY <1>2
<1> HIDE DEF now
<1>4. CASE t > d
  <2>1. Remaining(t, d) = t - d /\ t - d \in Nat /\ t - d > 0 /\ (t - d) + MaxElapsed < Half
    BY <1>1, <1>4, WordSizes DEF Remaining
  <2>2. word = now + (t - d) \/ word = now + (t - d) - Wrap
    BY <1>1, <1>3, <1>4, WordSizes DEF Words
  <2>3. Answers(now, word, t - d)
    BY <1>1, <2>1, <2>2 DEF Answers
  <2> QED
    BY <2>1, <2>3 DEF now
<1>5. CASE t <= d
  <2>1. Remaining(t, d) = 0 /\ d - t \in 0..MaxElapsed /\ 0 + MaxElapsed < Half
    BY <1>1, <1>5, WordSizes DEF Remaining
  <2>2. now = word + (d - t) \/ now = word + (d - t) - Wrap
    BY <1>1, <1>3, <1>5, WordSizes DEF Words
  <2>3. Answers(now, word, 0)
    BY <1>1, <2>1, <2>2 DEF Answers
  <2> QED
    BY <2>1, <2>3 DEF now
<1> QED
  BY <1>1, <1>4, <1>5, WordSizes
----------------------------------------------------------------------------
(* The words beside the ticks left. *)

(* The word of a timed stage answers what its ticks left do. A stage whose *)
(* time is up is not carried into another pass.                            *)
StageWordInv ==
    step \notin Untimed =>
        /\ Answers(ticks, deadline, timer)
        /\ pc \in {"checks", "poll"} => timer > 0

(* An armed request likewise; it is closed in the pass in which it expires,*)
(* before its word can be ahead of the counter again.                      *)
ArmInv ==
    \A a \in Arms :
        /\ armAge[a] \in Nat
        /\ Window(a) > 0 => armAge[a] + Window(a) <= ArmWindow
        /\ IF armed[a] THEN /\ Answers(ticks, armDeadline[a], Window(a))
                            /\ pc = "poll" => Window(a) > 0
           ELSE Window(a) = 0

WindowInv == ticks \in Words /\ StageWordInv /\ ArmInv

LEMMA WindowInitially == WindowInit => IInv /\ WindowInv
<1>1. WindowInit => IInv
  BY InitEstablishes DEF WindowInit
<1>2. WindowInit => WindowInv
  BY WordSizes, ArmAgeAssumption DEF WindowInit, Init, WindowInv, StageWordInv, ArmInv, Untimed,
     Window, Arms
<1> QED
  BY <1>1, <1>2

LEMMA WindowIsNext == [WindowNext]_windowVars => [Next]_vars
BY DEF WindowNext, windowVars, Next, LoopStep, BodyStep

LEMMA WindowTypes ==
    ASSUME IInv
    PROVE  /\ \A a \in Arms : Window(a) \in Nat
           /\ queue \in Seq(EventRecords) /\ timer \in Nat
BY IInvSplit DEF LoopType, OutInv, OutType, Window

(* Only the handlers of the two requests are their handling.               *)
LEMMA HandledFacts ==
    ASSUME IInv
    PROVE  \A a \in Arms : Handled(a) =>
               pc = "drain" /\ queue # <<>> /\ Head(queue).ev = a /\ queue' # queue
<1> SUFFICES ASSUME NEW a \in Arms, Handled(a) PROVE queue' # queue
  BY DEF Handled
<1>1. queue \in Seq(EventRecords) /\ queue # <<>> /\ queue' = Tail(queue)
  BY WindowTypes DEF Handled
<1>2. Len(queue') = Len(queue) - 1 /\ Len(queue) \in Nat
  BY <1>1
<1> QED
  BY <1>2

(* What leaving the application makes of the output.                       *)
SafeOutput == ~relay' /\ dac'.muted /\ ~engine'.running /\ ~clockValid'

LEMMA StopIsSafe ==
    ASSUME IInv, SafeStop(dac, FALSE, "None")
    PROVE  SafeOutput
<1>1. dac \in DacStates /\ (dac.state # "Ready" => dac.muted) /\ engine \in EngineStates
  BY IInvSplit DEF OutInv, OutType, PathInv, StageInv
<1>2. dac'.muted
  BY <1>1, SetMuteFacts DEF SafeStop
<1>3. ~engine'.running
  BY <1>1, EngineStopFacts DEF SafeStop
<1> QED
  BY <1>2, <1>3 DEF SafeStop, SafeOutput

(* How a step that does not read the clock changes the windows.            *)
ArmMoves ==
    /\ \A a \in Arms : Window(a)' = IF Handled(a) THEN ArmWindow ELSE Window(a)
    /\ InApplication /\ ~InApplication' =>
           SafeOutput /\ \E a \in Arms : Handled(a) /\ Window(a) > 0 /\ pc' = ExitOf(a)

LEMMA QuietArms ==
    ASSUME IInv, UNCHANGED <<bootArm, updArm>>, \A a \in Arms : ~Handled(a),
           InApplication => InApplication'
    PROVE  ArmMoves
BY DEF ArmMoves, Window

LEMMA DrainArms ==
    ASSUME IInv, DrainStep
    PROVE  ArmMoves
<1> USE DEF Arms
<1>1. \A e : Take(e) => \A a \in Arms : Handled(a) <=> e = a
  BY DEF Take, Handled
<1>2. CASE HandleBootloaderArm
  <2>1. \A a \in Arms : Handled(a) <=> a = "BootloaderArm"
    BY <1>1, <1>2 DEF HandleBootloaderArm, HandleArm
  <2>2. bootArm' = ArmWindow /\ updArm' = updArm
    BY <1>2 DEF HandleBootloaderArm
  <2>3. (bootArm > 0 /\ SafeStop(dac, FALSE, "None") /\ pc' = "rom") \/ pc' = pc
    BY <1>2 DEF HandleBootloaderArm, HandleArm
  <2> QED
    BY <2>1, <2>2, <2>3, StopIsSafe DEF ArmMoves, Window, ExitOf, InApplication
<1>3. CASE HandleUpdaterArm
  <2>1. \A a \in Arms : Handled(a) <=> a = "UpdaterArm"
    BY <1>1, <1>3 DEF HandleUpdaterArm, HandleArm
  <2>2. updArm' = ArmWindow /\ bootArm' = bootArm
    BY <1>3 DEF HandleUpdaterArm
  <2>3. (updArm > 0 /\ SafeStop(dac, FALSE, "None") /\ pc' = "updater") \/ pc' = pc
    BY <1>3 DEF HandleUpdaterArm, HandleArm
  <2> QED
    BY <2>1, <2>2, <2>3, StopIsSafe DEF ArmMoves, Window, ExitOf, InApplication
<1>4. CASE ~HandleBootloaderArm /\ ~HandleUpdaterArm
  <2>1. UNCHANGED <<bootArm, updArm>> /\ (InApplication => InApplication')
    BY <1>4 DEF DrainStep, HandleMounted, HandleStart, HandleRate, HandleVolume, HandleMute,
       HandleUnmute, HandleStop, HandleDetached, HandleSuspended, HandleResumed, Drained,
       runtimeVars, InApplication
  <2>2. \A a \in Arms : ~Handled(a)
    <3>1. Drained \/ \E e \in Events \ Arms : Take(e)
      BY <1>4 DEF DrainStep, HandleMounted, HandleStart, HandleRate, HandleVolume, HandleMute,
         HandleUnmute, HandleStop, HandleDetached, HandleSuspended, HandleResumed, Events
    <3>2. Drained => \A a \in Arms : ~Handled(a)
      BY DEF Drained, Handled
    <3> QED
      BY <1>1, <3>1, <3>2
  <2> QED
    BY <2>1, <2>2, QuietArms
<1> QED
  BY <1>2, <1>3, <1>4

LEMMA StepArms ==
    ASSUME IInv, UntimedStep
    PROVE  ArmMoves
<1>1. CASE HostStep \/ TaskDone \/ AttachResumed \/ InterruptStep \/ Gone
  <2>1. UNCHANGED <<bootArm, updArm>> /\ (InApplication => InApplication')
        /\ (pc # "drain" \/ queue' = queue)
    BY <1>1 DEF HostStep, Mount, Unmount, Suspend, Resume, SetInterface, CloseEndpoint, SetRate,
       SetMuteControl, SetVolume, RequestMaintenance, InTask, TaskDone, AttachResumed,
       InterruptStep, DmaComplete, DmaFails, ReceiveAudio, Gone, vars, runtimeVars, usbVars,
       InApplication
  <2> QED
    BY <2>1, HandledFacts, QuietArms
<1>2. CASE StartStep
  <2>1. \E s \in Steps : StartAt(s)
    BY <1>2 DEF StartStep, SelectOscillator, StartEngine, ConfigureFails, EngineStartFails,
       ConfirmDmaProgress, DmaNoProgress, JoinStream, UnstableStream, StableReached, HeldMuted,
       UnmuteDac, UnmuteFails, CloseRelay, RefuseRelay, StageWaits, Steps
  <2>2. UNCHANGED <<bootArm, updArm>> /\ (InApplication => InApplication') /\ pc # "drain"
    BY <2>1 DEF StartAt, InApplication
  <2> QED
    BY <2>2, HandledFacts, QuietArms
<1>3. CASE CheckStep
  <2>1. UNCHANGED <<bootArm, updArm>> /\ (InApplication => InApplication') /\ pc # "drain"
    BY <1>3 DEF CheckStep, DmaErrorFault, UnderrunFault, NoFault, LeaveChecks, InApplication
  <2> QED
    BY <2>1, HandledFacts, QuietArms
<1> QED
  BY <1>1, <1>2, <1>3, DrainArms DEF UntimedStep, BodyStep
----------------------------------------------------------------------------
(* A pass starts: the counter moves, and no word with it.                  *)
LEMMA ClockKeepsWords ==
    ASSUME IInv, WindowInv, NEW d \in 0..MaxElapsed, PollStep(d), ReadClock(d)
    PROVE  WindowInv'
<1>1. /\ ticks \in Words /\ StageWordInv /\ ArmInv /\ d \in Nat /\ d < Half
      /\ ticks' = After(d) /\ deadline' = deadline /\ armed' = armed /\ armDeadline' = armDeadline
  BY WordSizes DEF WindowInv, ReadClock
<1>2. /\ step' = step /\ (step = "None" \/ timer' = Remaining(timer, d))
      /\ pc = "poll" /\ pc' \in {"task", "resume"}
      /\ bootArm' = Remaining(bootArm, d) /\ updArm' = Remaining(updArm, d)
  BY PollMoves
<1>3. ticks' \in Words
  BY <1>1, AfterFacts
<1>4. StageWordInv'
  <2> SUFFICES ASSUME step \notin Untimed PROVE Answers(ticks', deadline, Remaining(timer, d))
    BY <1>1, <1>2 DEF StageWordInv, Untimed
  <2>1. Answers(ticks, deadline, timer) /\ timer > 0
    BY <1>1, <1>2 DEF StageWordInv
  <2> QED
    BY <1>1, <2>1, PassAnswers
<1>5. ArmInv'
  <2> SUFFICES ASSUME NEW a \in Arms
               PROVE  /\ armAge'[a] \in Nat
                      /\ Window(a)' > 0 => armAge'[a] + Window(a)' <= ArmWindow
                      /\ IF armed[a] THEN Answers(ticks', armDeadline[a], Window(a)')
                         ELSE Window(a)' = 0
    BY <1>1, <1>2 DEF ArmInv
  <2>1. Window(a) \in Nat /\ Window(a)' = Remaining(Window(a), d)
    BY <1>2, WindowTypes DEF Window
  <2>2. PICK left : left = Window(a)
    OBVIOUS
  <2>3. PICK age : age = armAge[a]
    OBVIOUS
  <2>4. /\ left \in Nat /\ Window(a)' = Remaining(left, d) /\ age \in Nat
        /\ left > 0 => age + left <= ArmWindow
        /\ IF armed[a] THEN Answers(ticks, armDeadline[a], left) /\ left > 0 ELSE left = 0
    BY <1>1, <1>2, <2>1, <2>2, <2>3 DEF ArmInv
  <2>5. armAge'[a] = IF age + d > MaxArmAge THEN MaxArmAge ELSE age + d
    BY <2>3 DEF ReadClock
  <2>6. armAge'[a] \in Nat /\ armAge'[a] <= age + d
    BY <1>1, <2>4, <2>5, ArmAgeAssumption
  <2>7. Window(a)' > 0 => armAge'[a] + Window(a)' <= ArmWindow
    BY <1>1, <2>4, <2>6, TimingAssumption DEF Remaining
  <2>8. armed[a] => Answers(ticks', armDeadline[a], Window(a)')
    BY <1>1, <2>4, PassAnswers
  <2>9. ~armed[a] => Window(a)' = 0
    BY <1>1, <2>4 DEF Remaining
  <2> QED
    BY <2>6, <2>7, <2>8, <2>9
<1> QED
  BY <1>3, <1>4, <1>5 DEF WindowInv

(* The waits of the stages, any of which a deadline may be set to.         *)
LEMMA MovedDeadline ==
    ASSUME IInv, Moves
    PROVE  /\ timer' = timer \/ timer' \in {RelayRelease, OscillatorSettle, DmaStartLimit,
                                            StableAudio, DacSettle}
           /\ step' \in Untimed \/ step' # step \/ timer' = timer \/ timer' = RelayRelease
           /\ step' # step /\ step' \notin Untimed =>
                  timer' \in {RelayRelease, OscillatorSettle, DmaStartLimit, StableAudio, DacSettle}
           /\ pc' \in {"checks", "poll"} /\ step' \notin Untimed /\ step' = step /\ timer' = timer =>
                  \/ pc \in {"checks", "poll"} \/ timer # 0
                  \/ timer \in {RelayRelease, OscillatorSettle, DmaStartLimit, StableAudio, DacSettle}
BY DEF Moves, Stays, Retreats, Advances, Untimed

LEMMA StepKeepsStageWord ==
    ASSUME IInv, WindowInv, UntimedStep, SetWords
    PROVE  StageWordInv'
<1> DEFINE Waits == {RelayRelease, OscillatorSettle, DmaStartLimit, StableAudio, DacSettle}
<1>1. /\ ticks \in Words /\ StageWordInv /\ ticks' = ticks /\ Moves /\ timer \in Nat
      /\ deadline' = IF step' \in Untimed THEN 0
                     ELSE IF step' # step \/ timer' # timer THEN After(timer') ELSE deadline
  BY StepMoves, WindowTypes DEF WindowInv, SetWords
<1>2. \A w \in Waits : w \in Nat \ {0} /\ w + MaxElapsed < Half
  BY WordSizes
<1> SUFFICES ASSUME step' \notin Untimed
             PROVE  /\ Answers(ticks, deadline', timer')
                    /\ pc' \in {"checks", "poll"} => timer' > 0
  BY <1>1 DEF StageWordInv
<1>3. CASE step' # step \/ timer' # timer
  <2>1. PICK left : left = timer'
    OBVIOUS
  <2>2. left \in Waits /\ deadline' = After(left)
    BY <1>1, <1>3, <2>1, MovedDeadline
  <2>3. left \in Nat /\ left > 0 /\ left + MaxElapsed < Half
    BY <1>2, <2>2
  <2>4. Answers(ticks, After(left), left)
    BY <1>1, <2>3, SetAnswers
  <2> QED
    BY <2>1, <2>2, <2>3, <2>4
<1>4. CASE step' = step /\ timer' = timer
  <2>1. deadline' = deadline /\ Answers(ticks, deadline, timer)
        /\ (pc \in {"checks", "poll"} => timer > 0)
    BY <1>1, <1>4 DEF StageWordInv
  <2>2. pc' \in {"checks", "poll"} => pc \in {"checks", "poll"} \/ timer # 0 \/ timer \in Waits
    BY <1>1, <1>4, MovedDeadline
  <2>3. pc' \in {"checks", "poll"} => timer > 0
    BY <1>1, <1>2, <2>1, <2>2
  <2> QED
    BY <1>4, <2>1, <2>3
<1> QED
  BY <1>3, <1>4

LEMMA StepKeepsArms ==
    ASSUME IInv, WindowInv, UntimedStep, SetWords
    PROVE  ArmInv'
<1>1. /\ ticks \in Words /\ ArmInv /\ ticks' = ticks /\ ArmMoves /\ Moves
  BY StepMoves, StepArms DEF WindowInv, SetWords
<1> SUFFICES ASSUME NEW a \in Arms
             PROVE  /\ armAge'[a] \in Nat
                    /\ Window(a)' > 0 => armAge'[a] + Window(a)' <= ArmWindow
                    /\ IF armed'[a] THEN /\ Answers(ticks, armDeadline'[a], Window(a)')
                                         /\ pc' = "poll" => Window(a)' > 0
                       ELSE Window(a)' = 0
  BY <1>1 DEF ArmInv
<1>2. /\ armAge'[a] = IF Handled(a) THEN 0 ELSE armAge[a]
      /\ armed'[a] <=> \/ Handled(a)
                       \/ armed[a] /\ ~(EndsPass /\ WordReached(armDeadline[a]))
      /\ armDeadline'[a] = IF Handled(a) THEN After(ArmWindow)
                           ELSE IF armed'[a] THEN armDeadline[a] ELSE 0
  BY DEF SetWords
<1>3. ArmWindow \in Nat \ {0} /\ ArmWindow + MaxElapsed < Half
  BY WordSizes
<1>4. /\ armAge[a] \in Nat /\ Window(a) \in Nat
      /\ Window(a) > 0 => armAge[a] + Window(a) <= ArmWindow
      /\ IF armed[a] THEN /\ Answers(ticks, armDeadline[a], Window(a))
                          /\ pc = "poll" => Window(a) > 0
         ELSE Window(a) = 0
  BY <1>1, WindowTypes DEF ArmInv
<1>5. CASE Handled(a)
  <2>1. Window(a)' = ArmWindow /\ armAge'[a] = 0 /\ armed'[a] /\ armDeadline'[a] = After(ArmWindow)
    <3>1. Window(a)' = ArmWindow
      BY <1>1, <1>5 DEF ArmMoves
    <3> QED
      BY <1>2, <1>5, <3>1
  <2>2. Answers(ticks, After(ArmWindow), ArmWindow)
    BY <1>1, <1>3, SetAnswers
  <2> QED
    BY <1>3, <2>1, <2>2
<1>6. CASE ~Handled(a)
  <2>1. Window(a)' = Window(a) /\ armAge'[a] = armAge[a]
    BY <1>1, <1>2, <1>6 DEF ArmMoves
  <2>2. CASE armed[a] /\ ~(EndsPass /\ WordReached(armDeadline[a]))
    <3>1. armed'[a] /\ armDeadline'[a] = armDeadline[a]
      BY <1>2, <1>6, <2>2
    <3>2. pc' = "poll" => Window(a) > 0
      <4>1. Window(a) = 0 => WordReached(armDeadline[a])
        BY <1>1, <1>4, <2>2, ReachedAnswers
      <4>2. pc' = "poll" => EndsPass \/ pc = "poll"
        BY <1>1 DEF Moves, EndsPass
      <4> QED
        BY <1>4, <2>2, <4>1, <4>2
    <3> QED
      BY <1>4, <2>1, <2>2, <3>1, <3>2
  <2>3. CASE ~armed[a]
    BY <1>2, <1>4, <1>6, <2>1, <2>3
  <2>4. CASE armed[a] /\ EndsPass /\ WordReached(armDeadline[a])
    <3>1. Window(a) = 0
      BY <1>1, <1>4, <2>4, ReachedAnswers
    <3> QED
      BY <1>2, <1>4, <1>6, <2>1, <2>4, <3>1
  <2> QED
    BY <2>2, <2>3, <2>4
<1> QED
  BY <1>5, <1>6

LEMMA WindowPreserves == IInv /\ WindowInv /\ [WindowNext]_windowVars => (IInv /\ WindowInv)'
<1> SUFFICES ASSUME IInv, WindowInv, [WindowNext]_windowVars PROVE IInv' /\ WindowInv'
  OBVIOUS
<1>1. IInv'
  BY WindowIsNext, StepPreserves
<1>2. ASSUME NEW d \in 0..MaxElapsed, PollStep(d) /\ ReadClock(d) PROVE WindowInv'
  BY <1>2, ClockKeepsWords
<1>3. CASE UntimedStep /\ SetWords
  <2>1. ticks' \in Words
    BY <1>3 DEF WindowInv, SetWords
  <2>2. StageWordInv'
    BY <1>3, StepKeepsStageWord
  <2>3. ArmInv'
    BY <1>3, StepKeepsArms
  <2> QED
    BY <1>1, <2>1, <2>2, <2>3 DEF WindowInv, Words
<1>4. CASE UNCHANGED windowVars
  <2>1. UNCHANGED <<step, timer, pc, bootArm, updArm, ticks, deadline, armed, armDeadline, armAge>>
    BY <1>4 DEF windowVars, vars, runtimeVars
  <2>2. StageWordInv'
    BY <2>1 DEF WindowInv, StageWordInv
  <2>3. \A a \in Arms : Window(a)' = Window(a)
    BY <2>1 DEF Window
  <2>4. ArmInv'
    BY <2>1, <2>3 DEF WindowInv, ArmInv
  <2> QED
    BY <1>1, <2>1, <2>2, <2>4 DEF WindowInv, Words
<1> QED
  BY <1>1, <1>2, <1>3, <1>4 DEF WindowNext, UntimedStep

(* The words kept in stage_deadline and the two arm deadlines stand for    *)
(* the ticks left, and an expired arming is withdrawn before its word can  *)
(* come round again (main.cpp:61-63, 374-393, 402-403).                    *)
THEOREM WindowInvariance == WindowSpec => [](IInv /\ WindowInv)
BY WindowInitially, WindowPreserves, PTL DEF WindowSpec

(* However often the counter has wrapped, the words the loop compares      *)
(* answer what the ticks left do, for every width of the counter of which  *)
(* a wait and a pass take less than half (reached, main.cpp:61-63).        *)
THEOREM WordsAnswer == WindowSpec => []DeadlinesSurviveWrap
<1>1. IInv /\ WindowInv => DeadlinesSurviveWrap
  <2> SUFFICES ASSUME IInv, WindowInv PROVE DeadlinesSurviveWrap
    OBVIOUS
  <2>1. ticks \in Words /\ StageWordInv /\ ArmInv
    BY DEF WindowInv
  <2>2. step \notin Untimed => (WordReached(deadline) <=> timer = 0)
    BY <2>1, ReachedAnswers DEF StageWordInv
  <2>3. ASSUME NEW a \in Arms
        PROVE  armed[a] /\ ~WordReached(armDeadline[a]) <=> Window(a) > 0
    <3>1. Window(a) \in Nat
      BY WindowTypes
    <3>2. armed[a] => (WordReached(armDeadline[a]) <=> Window(a) = 0)
      BY <2>1, ReachedAnswers DEF ArmInv
    <3>3. ~armed[a] => Window(a) = 0
      BY <2>1 DEF ArmInv
    <3> QED
      BY <3>1, <3>2, <3>3
  <2> QED
    BY <2>2, <2>3 DEF DeadlinesSurviveWrap
<1> QED
  BY <1>1, WindowInvariance, PTL

(* The application is left only for a second request of the same kind      *)
(* handled inside the window of the first, and with the output safe        *)
(* (the event loop of main, main.cpp:373-392).                             *)
THEOREM LeavesOnRequest == WindowSpec => LeavesOnlyOnSecondRequest
<1> DEFINE A == InApplication /\ ~InApplication' =>
                    /\ \E a \in Arms : pc' = ExitOf(a) /\ Handled(a) /\ armAge[a] < ArmWindow
                    /\ ~relay' /\ dac'.muted /\ ~engine'.running /\ ~clockValid'
<1>1. IInv /\ WindowInv /\ [WindowNext]_windowVars => [A]_windowVars
  <2> SUFFICES ASSUME IInv, WindowInv, WindowNext, InApplication, ~InApplication'
               PROVE  /\ \E a \in Arms : pc' = ExitOf(a) /\ Handled(a) /\ armAge[a] < ArmWindow
                      /\ ~relay' /\ dac'.muted /\ ~engine'.running /\ ~clockValid'
    OBVIOUS
  <2>1. ~ \E d \in 0..MaxElapsed : PollStep(d)
    BY PollMoves DEF InApplication
  <2>2. ArmMoves
    BY <2>1, StepArms DEF WindowNext, UntimedStep
  <2>3. PICK a \in Arms : Handled(a) /\ Window(a) > 0 /\ pc' = ExitOf(a)
    BY <2>2 DEF ArmMoves
  <2>4. PICK left : left = Window(a)
    OBVIOUS
  <2>5. PICK age : age = armAge[a]
    OBVIOUS
  <2>6. left \in Nat /\ age \in Nat /\ left > 0 /\ age + left <= ArmWindow
    BY <2>3, <2>4, <2>5, WindowTypes DEF WindowInv, ArmInv
  <2>7. age < ArmWindow
    BY <2>6, TimingAssumption
  <2>8. SafeOutput
    BY <2>2 DEF ArmMoves
  <2> QED
    BY <2>3, <2>5, <2>7, <2>8 DEF SafeOutput
<1> QED
  BY <1>1, WindowInvariance, PTL DEF WindowSpec, LeavesOnlyOnSecondRequest
=============================================================================
