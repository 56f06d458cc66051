--------------------------- MODULE RuntimeProofs ---------------------------
(***************************************************************************)
(* Proofs about Runtime for every value of its constants. The invariant    *)
(* IInv is split into the part about the output path (OutInv), which only  *)
(* safe_stop, begin_start, the staged start and the DMA interrupt touch,   *)
(* and the part about the loop, the queue and the host (LoopType).         *)
(***************************************************************************)
EXTENDS Runtime, TLAPS

outVars == <<relay, dac, clk, step, timer, app, engine, fill, clockValid,
             underrunBaseline, resumePending, stopReason>>

DacStates == [state : {"Starting", "Ready", "Fault"}, muted : BOOLEAN]
EngineStates == [running : BOOLEAN, attached : BOOLEAN, progress : BOOLEAN,
                 errors : Nat, underruns : Nat]

OutType ==
    /\ app \in AppStates /\ step \in Steps /\ timer \in Nat /\ underrunBaseline \in Nat
    /\ resumePending \in BOOLEAN /\ stopReason \in StopReasons
    /\ relay \in BOOLEAN /\ clk \in [selected : Rates, stable : BOOLEAN]
    /\ dac \in DacStates /\ engine \in EngineStates
    /\ fill \in 0..RingUnits /\ clockValid \in BOOLEAN

LoopType ==
    /\ pc \in {"poll", "task", "drain", "resume", "start", "checks", "rom", "updater"}
    /\ active \in Rates /\ desired \in Rates /\ feedback \in Rates
    /\ mounted \in BOOLEAN /\ streamRequested \in BOOLEAN
    /\ bootArm \in Nat /\ updArm \in Nat
    /\ usbReady \in BOOLEAN /\ lost \subseteq Kinds
    /\ queue \in Seq(EventRecords) /\ Len(queue) <= QueueCap
    /\ requestedRate \in Rates /\ hostMuted \in BOOLEAN
    /\ link \in {"detached", "configured", "suspended"} /\ alt \in {0, 1}

PathInv ==
    /\ AppMatchesStep /\ RelaySafe /\ ClockValidIsTrue
    /\ RingReadOnlyWhenJoined /\ FaultIsQuiet /\ StageInv

OutInv == OutType /\ PathInv

LEMMA IInvSplit ==
    /\ IInv <=> OutInv /\ LoopType /\ StartupInv
    /\ IInv' <=> OutInv' /\ LoopType' /\ StartupInv'
BY DEF IInv, OutInv, OutType, LoopType, PathInv, TypeOK, DacStates, EngineStates

(* The transitions of the application state machine the loop relies on. *)
LEMMA DispatchFacts ==
    /\ Dispatch("BootSafe", "Initialize") = "Initializing"
    /\ Dispatch("Initializing", "Initialized") = "IdleMuted"
    /\ Dispatch("FaultMuted", "Initialized") = "FaultMuted"
    /\ Dispatch("IdleMuted", "StreamRequested") = "PreparingStream"
    /\ Dispatch("SwitchingRate", "StreamRequested") = "PreparingStream"
    /\ Dispatch("PreparingStream", "AudioStable") = "Playing"
    /\ Dispatch("Playing", "RateRequested") = "SwitchingRate"
    /\ Dispatch("FaultMuted", "ClearFault") = "IdleMuted"
    /\ \A s \in AppStates : Dispatch(s, "Fault") = "FaultMuted"
BY DEF Dispatch, Edges, AppStates, FaultEvents, QuietEvents

(* A stop leaves playback and preparation for idle and nothing else. *)
LEMMA StopFacts ==
    ASSUME NEW s \in AppStates
    PROVE  Dispatch(Dispatch(s, "StopRequested"), "Stopped") =
               IF s \in {"Playing", "PreparingStream", "Stopping"} THEN "IdleMuted" ELSE s
<1>1. \A e \in {"StopRequested", "Stopped"} : e \notin FaultEvents /\ e \notin QuietEvents
  BY DEF FaultEvents, QuietEvents
<1>2. Dispatch(s, "StopRequested") = IF s \in {"Playing", "PreparingStream"} THEN "Stopping" ELSE s
  BY <1>1 DEF Dispatch, Edges, AppStates
<1>3. \A t \in AppStates : Dispatch(t, "Stopped") = IF t = "Stopping" THEN "IdleMuted" ELSE t
  BY <1>1 DEF Dispatch, Edges, AppStates
<1> QED
  BY <1>2, <1>3 DEF AppStates

----------------------------------------------------------------------------
(* The three routines of the loop that rearrange the output path. *)

LEMMA SetMuteFacts ==
    ASSUME NEW d \in DacStates, NEW m \in BOOLEAN, NEW d2 \in SetMute(d, m)
    PROVE  /\ d2 \in DacStates
           /\ d2.state # "Ready" => d2 = d \/ d2.muted
           /\ m /\ (d.state # "Ready" => d.muted) => d2.muted
           /\ d.state # "Starting" => d2.state # "Starting"
<1>1. CASE d.state = "Ready"
  <2>1. CASE d2 = [d EXCEPT !.muted = m]
    <3>1. d2 \in DacStates /\ d2.state = "Ready" /\ d2.muted = m
      BY <1>1, <2>1 DEF DacStates
    <3> QED
      BY <3>1
  <2>2. CASE d2 = DacFaulted
    BY <2>2 DEF DacFaulted, DacStates
  <2> QED
    BY <1>1, <2>1, <2>2 DEF SetMute
<1>2. CASE d.state # "Ready"
  BY <1>2 DEF SetMute
<1> QED
  BY <1>1, <1>2

LEMMA EngineStopFacts ==
    ASSUME NEW e \in EngineStates
    PROVE  EngineStop(e) \in EngineStates /\ ~EngineStop(e).running
BY DEF EngineStop, EngineStates

LEMMA InvalidatedFacts ==
    ASSUME NEW c \in [selected : Rates, stable : BOOLEAN]
    PROVE  /\ Invalidated(c) \in [selected : Rates, stable : BOOLEAN]
           /\ ~Invalidated(c).stable /\ Invalidated(c).selected = c.selected
BY DEF Invalidated

LEMMA RingFacts == 0 \in 0..RingUnits
BY DEF RingUnits

LEMMA SafeStopKeeps ==
    ASSUME OutInv, NEW d \in DacStates, d.state # "Ready" => d.muted,
           NEW fault \in BOOLEAN, NEW reason \in StopReasons, SafeStop(d, fault, reason)
    PROVE  /\ OutInv' /\ step' = "None" /\ ~relay' /\ ~resumePending'
           /\ app = "FaultMuted" => app' = "FaultMuted"
           /\ app' \in {"FaultMuted", "IdleMuted", app}
           /\ fault => app' = "FaultMuted"
           /\ app # "Initializing" => app' # "Initializing"
           /\ d.state # "Starting" => dac'.state # "Starting"
<1>1. /\ app' \in {"FaultMuted", "IdleMuted", "SwitchingRate", "Initializing"}
      /\ fault => app' = "FaultMuted"
      /\ app' \in {"FaultMuted", "IdleMuted", app}
      /\ app = "FaultMuted" => app' = "FaultMuted"
      /\ app # "Initializing" => app' # "Initializing"
  BY DispatchFacts, StopFacts DEF SafeStop, OutInv, OutType, PathInv, StageInv, AppStates
<1>2. dac' \in DacStates /\ dac'.muted /\ (d.state # "Starting" => dac'.state # "Starting")
  BY SetMuteFacts DEF SafeStop
<1>3. engine' \in EngineStates /\ ~engine'.running
  BY EngineStopFacts DEF SafeStop, OutInv, OutType
<1>4. clk' \in [selected : Rates, stable : BOOLEAN]
  BY InvalidatedFacts DEF SafeStop, OutInv, OutType
<1>5. /\ step' \in Steps /\ fill' \in 0..RingUnits /\ timer' \in Nat /\ underrunBaseline' \in Nat
      /\ stopReason' \in StopReasons /\ app' \in AppStates
      /\ relay' = FALSE /\ clockValid' = FALSE /\ resumePending' = FALSE /\ step' = "None"
  BY <1>1, RingFacts DEF SafeStop, OutInv, OutType, Steps, AppStates
<1>6. OutType'
  BY <1>2, <1>3, <1>4, <1>5 DEF OutType
<1>7. PathInv'
  BY <1>1, <1>2, <1>3, <1>5 DEF PathInv, AppMatchesStep, RelaySafe, ClockValidIsTrue,
      RingReadOnlyWhenJoined, FaultIsQuiet, StageInv, EarlySteps, LateSteps
<1> QED
  BY <1>1, <1>2, <1>5, <1>6, <1>7 DEF OutInv

LEMMA BeginStartKeeps ==
    ASSUME OutInv, app # "Initializing", BeginStart
    PROVE  /\ OutInv' /\ app' \in {"PreparingStream", "SwitchingRate"}
           /\ ~resumePending' /\ ~relay'
           /\ dac.state # "Starting" => dac'.state # "Starting"
<1>1. app' \in {"PreparingStream", "SwitchingRate"}
  BY DispatchFacts DEF BeginStart, OutInv, OutType, PathInv, StageInv, AppStates
<1>2. dac' \in DacStates /\ dac'.muted /\ (dac.state # "Starting" => dac'.state # "Starting")
  BY SetMuteFacts DEF BeginStart, OutInv, OutType, PathInv, StageInv
<1>3. engine' \in EngineStates /\ ~engine'.running
  BY EngineStopFacts DEF BeginStart, OutInv, OutType
<1>4. clk' \in [selected : Rates, stable : BOOLEAN]
  BY InvalidatedFacts DEF BeginStart, OutInv, OutType
<1>5. /\ step' \in Steps /\ fill' \in 0..RingUnits /\ timer' \in Nat /\ underrunBaseline' \in Nat
      /\ stopReason' \in StopReasons /\ app' \in AppStates
      /\ relay' = FALSE /\ clockValid' = FALSE /\ resumePending' = FALSE
      /\ step' = "RelayRelease"
  BY <1>1, RingFacts, TimingAssumption DEF BeginStart, OutInv, OutType, Steps, AppStates
<1>6. OutType'
  BY <1>2, <1>3, <1>4, <1>5 DEF OutType
<1>7. PathInv'
  BY <1>1, <1>2, <1>3, <1>5 DEF PathInv, AppMatchesStep, RelaySafe, ClockValidIsTrue,
      RingReadOnlyWhenJoined, FaultIsQuiet, StageInv, EarlySteps, LateSteps
<1> QED
  BY <1>1, <1>2, <1>5, <1>6, <1>7 DEF OutInv

LEMMA ConnectedIdleKeeps ==
    ASSUME OutInv, app = "Playing", EnterConnectedIdle
    PROVE  OutInv' /\ ~resumePending' /\ UNCHANGED <<app, dac, step>>
<1>1. /\ engine' \in EngineStates /\ engine'.running = engine.running
      /\ engine'.errors = engine.errors /\ ~engine'.attached
  BY DEF EnterConnectedIdle, OutInv, OutType, EngineStates
<1>2. /\ fill' \in 0..RingUnits /\ underrunBaseline' \in Nat /\ stopReason' \in StopReasons
      /\ clockValid' = TRUE /\ resumePending' = FALSE
      /\ UNCHANGED <<relay, dac, clk, step, timer, app>>
  BY RingFacts DEF EnterConnectedIdle, OutInv, OutType, EngineStates, StopReasons
<1>3. OutType'
  BY <1>1, <1>2 DEF OutInv, OutType
<1>4. PathInv'
  BY <1>1, <1>2 DEF OutInv, OutType, PathInv, AppMatchesStep, RelaySafe, ClockValidIsTrue,
      RingReadOnlyWhenJoined, FaultIsQuiet, StageInv, EarlySteps, LateSteps
<1> QED
  BY <1>2, <1>3, <1>4 DEF OutInv

LEMMA OutUnchangedKeeps ==
    ASSUME OutInv, OutputUnchanged
    PROVE  OutInv'
BY DEF OutInv, OutType, PathInv, OutputUnchanged, AppMatchesStep, RelaySafe, ClockValidIsTrue,
       RingReadOnlyWhenJoined, FaultIsQuiet, StageInv

----------------------------------------------------------------------------
(* The initial state, and one lemma per part of the loop. *)

LEMMA InitEstablishes == Init => IInv
<1> SUFFICES ASSUME Init PROVE IInv
  OBVIOUS
<1>0. /\ app = "Initializing" /\ ~relay /\ step = "None"
      /\ dac = [state |-> "Starting", muted |-> TRUE]
      /\ engine = [running |-> FALSE, attached |-> FALSE, progress |-> FALSE,
                   errors |-> 0, underruns |-> 0]
      /\ clk = [selected |-> DefaultRate, stable |-> FALSE]
      /\ clockValid = FALSE /\ resumePending = FALSE
  BY DispatchFacts DEF Init
<1>1. OutInv
  <2>1. dac \in DacStates /\ dac.muted
    BY <1>0 DEF DacStates
  <2>2. engine \in EngineStates /\ ~engine.running
    BY <1>0 DEF EngineStates
  <2>3. clk \in [selected : Rates, stable : BOOLEAN]
    BY <1>0 DEF Rates, DefaultRate
  <2>4. OutType
    BY <1>0, <2>1, <2>2, <2>3, RingFacts DEF Init, OutType, AppStates, Steps, StopReasons
  <2>5. PathInv
    BY <1>0, <2>1, <2>2 DEF PathInv, AppMatchesStep, RelaySafe, ClockValidIsTrue,
       RingReadOnlyWhenJoined, FaultIsQuiet, StageInv, EarlySteps, LateSteps
  <2> QED
    BY <2>4, <2>5 DEF OutInv
<1>2. LoopType
  <2>1. queue \in Seq(EventRecords) /\ Len(queue) <= QueueCap
    BY BoundAssumption DEF Init
  <2> QED
    BY <2>1 DEF Init, LoopType, Rates, DefaultRate
<1>3. StartupInv
  BY DispatchFacts DEF Init, StartupInv
<1> QED
  BY <1>1, <1>2, <1>3, IInvSplit

(* Time passes by whole ticks and never below zero. *)
LEMMA RemainingFacts ==
    ASSUME NEW t \in Nat, NEW d \in 0..MaxElapsed
    PROVE  Remaining(t, d) \in Nat
BY BoundAssumption DEF Remaining

LEMMA DacPollFacts ==
    ASSUME NEW d \in DacStates, d.state # "Ready" => d.muted, NEW d2 \in DacPoll(d)
    PROVE  /\ d2 \in DacStates /\ (d2.state # "Ready" => d2.muted)
           /\ d.state # "Starting" => d2 = d
           /\ d.muted => d2.muted
<1>1. CASE d2 = d
  BY <1>1
<1>2. CASE d2 # d
  <2>1. d.state = "Starting" /\ d2 \in {[state |-> "Ready", muted |-> TRUE], DacFaulted}
    BY <1>2 DEF DacPoll
  <2>2. CASE d2 = [state |-> "Ready", muted |-> TRUE]
    BY <2>1, <2>2 DEF DacStates
  <2>3. CASE d2 = DacFaulted
    BY <2>1, <2>3 DEF DacFaulted, DacStates
  <2> QED
    BY <2>1, <2>2, <2>3
<1> QED
  BY <1>1, <1>2

LEMMA PollPreserves ==
    ASSUME IInv, feedback' \in Rates, NEW d \in 0..MaxElapsed, Poll(d)
    PROVE  IInv'
<1> USE IInvSplit
<1>1. PICK dac2 \in DacPoll(dac) : (usbReady \/ dac2.state # "Ready") /\ dac' = dac2
  BY DEF Poll
<1>2. /\ dac' \in DacStates /\ (dac'.state # "Ready" => dac'.muted)
      /\ dac.state # "Starting" => dac' = dac
      /\ dac.muted => dac'.muted
  BY <1>1, DacPollFacts DEF OutInv, OutType, PathInv, StageInv
<1>3. timer' \in Nat /\ bootArm' \in Nat /\ updArm' \in Nat
  BY RemainingFacts DEF Poll, Elapse, OutInv, OutType, LoopType
<1>4. OutType'
  BY <1>2, <1>3 DEF Poll, OutInv, OutType, usbVars
<1>5. PathInv'
  BY <1>2 DEF Poll, OutInv, PathInv, usbVars, AppMatchesStep, RelaySafe, ClockValidIsTrue,
      RingReadOnlyWhenJoined, FaultIsQuiet, StageInv, EarlySteps, LateSteps
<1>6. LoopType'
  BY <1>3 DEF Poll, LoopType, usbVars, hostVars
<1>7. StartupInv'
  BY <1>1, <1>2 DEF Poll, StartupInv, usbVars
<1> QED
  BY <1>4, <1>5, <1>6, <1>7 DEF OutInv

LEMMA InitUsbPreserves ==
    ASSUME IInv, feedback' \in Rates, NEW d \in 0..MaxElapsed, InitUsb(d)
    PROVE  IInv'
<1> USE IInvSplit
<1>1. PICK dac2 \in DacPoll(dac) :
        /\ dac2.state = "Ready"
        /\ \/ /\ usbReady' = TRUE
              /\ app' = Dispatch(app, "Initialized")
              /\ dac' = dac2
              /\ pc' = "task"
              /\ UNCHANGED <<relay, clk, step, timer, engine, fill, clockValid,
                             underrunBaseline, resumePending, stopReason>>
           \/ /\ SafeStop(dac2, TRUE, "StartFault")
              /\ pc' = "resume"
              /\ UNCHANGED usbReady
  BY DEF InitUsb
<1>2. /\ dac2 \in DacStates /\ (dac2.state # "Ready" => dac2.muted)
      /\ dac.muted => dac2.muted
  BY <1>1, DacPollFacts DEF OutInv, OutType, PathInv, StageInv
<1>3. bootArm' \in Nat /\ updArm' \in Nat
  BY RemainingFacts DEF InitUsb, Elapse, LoopType
<1>4. pc' \in {"task", "resume"} /\ usbReady' \in BOOLEAN
  BY <1>1 DEF LoopType
<1>5. LoopType'
  BY <1>3, <1>4 DEF InitUsb, LoopType, Rates, DefaultRate, hostVars
<1>6. CASE usbReady'
  <2>1. /\ app' \in {"IdleMuted", "FaultMuted"} /\ (app' = "FaultMuted" => app = "FaultMuted")
        /\ dac' = dac2 /\ step = "None"
        /\ UNCHANGED <<relay, clk, step, timer, engine, fill, clockValid,
                       underrunBaseline, resumePending, stopReason>>
    BY <1>1, <1>6, DispatchFacts DEF InitUsb, StartupInv
  <2>2. OutType'
    BY <1>2, <2>1 DEF OutInv, OutType, AppStates
  <2>3. PathInv'
    BY <1>2, <2>1 DEF OutInv, PathInv, AppMatchesStep, RelaySafe, ClockValidIsTrue,
        RingReadOnlyWhenJoined, FaultIsQuiet, StageInv, EarlySteps, LateSteps
  <2>4. StartupInv'
    BY <1>1, <1>6, <2>1 DEF StartupInv
  <2> QED
    BY <1>5, <2>2, <2>3, <2>4 DEF OutInv
<1>7. CASE ~usbReady'
  <2>1. SafeStop(dac2, TRUE, "StartFault") /\ pc' = "resume" /\ ~streamRequested'
    BY <1>1, <1>7 DEF InitUsb, StartupInv
  <2>2. OutInv' /\ step' = "None" /\ app' = "FaultMuted" /\ ~resumePending'
    BY <1>2, <2>1, SafeStopKeeps DEF StopReasons
  <2>3. StartupInv'
    BY <1>7, <2>1, <2>2 DEF StartupInv
  <2> QED
    BY <1>5, <2>2, <2>3
<1> QED
  BY <1>6, <1>7

(* The queue never outgrows its array. *)
LEMMA PostEventFacts ==
    ASSUME LoopType, NEW e \in EventRecords, PostEvent(e)
    PROVE  queue' \in Seq(EventRecords) /\ Len(queue') <= QueueCap /\ lost' \subseteq Kinds
<1>1. /\ QueueCap \in Nat /\ queue \in Seq(EventRecords) /\ Len(queue) <= QueueCap
      /\ lost \subseteq Kinds
  BY BoundAssumption DEF LoopType
<1>2. CASE Len(queue) = QueueCap
  BY <1>1, <1>2 DEF PostEvent
<1>3. CASE Len(queue) # QueueCap
  <2>1. queue' = Append(queue, e)
    BY <1>3 DEF PostEvent
  <2> QED
    BY <1>1, <1>3, <2>1 DEF PostEvent
<1> QED
  BY <1>2, <1>3

LEMMA HostPreserves ==
    ASSUME IInv, feedback' \in Rates, HostStep
    PROVE  IInv'
<1> USE IInvSplit
<1>1. UNCHANGED <<pc, runtimeVars, hwVars, usbReady, clockValid>>
  BY DEF HostStep, Mount, Unmount, Suspend, Resume, SetInterface, CloseEndpoint, SetRate,
         SetMuteControl, SetVolume, RequestMaintenance, InTask
<1>2. \E e \in EventRecords : PostEvent(e)
  BY DEF HostStep, Mount, Unmount, Suspend, Resume, SetInterface, CloseEndpoint, SetRate,
         SetMuteControl, SetVolume, RequestMaintenance, Event, EventRecords, Events
<1>3. /\ requestedRate' \in Rates /\ hostMuted' \in BOOLEAN
      /\ link' \in {"detached", "configured", "suspended"} /\ alt' \in {0, 1}
  BY DEF HostStep, Mount, Unmount, Suspend, Resume, SetInterface, CloseEndpoint, SetRate,
         SetMuteControl, SetVolume, RequestMaintenance, LoopType, hostVars
<1>4. LoopType'
  BY <1>1, <1>2, <1>3, PostEventFacts DEF LoopType, runtimeVars
<1>5. OutInv'
  BY <1>1, OutUnchangedKeeps DEF OutputUnchanged, runtimeVars, hwVars
<1>6. StartupInv'
  BY <1>1 DEF StartupInv, runtimeVars, hwVars
<1> QED
  BY <1>4, <1>5, <1>6

(* What every handler of a queued event starts from. *)
LEMMA TakeFacts ==
    ASSUME IInv, NEW ev, Take(ev)
    PROVE  /\ pc = "drain" /\ usbReady /\ usbReady' = usbReady
           /\ dac \in DacStates /\ dac.state # "Starting" /\ (dac.state # "Ready" => dac.muted)
           /\ app # "Initializing"
           /\ Head(queue) \in EventRecords
           /\ queue' \in Seq(EventRecords) /\ Len(queue') <= QueueCap
<1>1. queue \in Seq(EventRecords) /\ queue # <<>> /\ queue' = Tail(queue)
  BY IInvSplit DEF Take, LoopType
<1>2. Head(queue) \in EventRecords /\ queue' \in Seq(EventRecords) /\ Len(queue') = Len(queue) - 1
  BY <1>1
<1> QED
  BY <1>1, <1>2, IInvSplit, BoundAssumption
     DEF Take, LoopType, StartupInv, OutInv, OutType, PathInv, StageInv

(* A handler that keeps the output path right keeps everything right. *)
LEMMA HandlerKeeps ==
    ASSUME IInv, feedback' \in Rates, NEW ev, Take(ev), OutInv', dac'.state # "Starting", app' # "Initializing",
           pc' \in {pc, "rom", "updater"}, active' = active, desired' \in Rates,
           mounted' \in BOOLEAN, streamRequested' \in BOOLEAN, bootArm' \in Nat, updArm' \in Nat
    PROVE  IInv'
<1>1. LoopType'
  BY TakeFacts, IInvSplit DEF LoopType, Take, hostVars
<1>2. StartupInv'
  BY TakeFacts DEF StartupInv
<1> QED
  BY <1>1, <1>2, IInvSplit

LEMMA DrainPreserves ==
    ASSUME IInv, feedback' \in Rates, DrainStep
    PROVE  IInv'
<1> USE IInvSplit
<1>1. ASSUME HandleMounted PROVE IInv'
  <2>1. OutInv' /\ UNCHANGED <<dac, app>>
    BY <1>1, OutUnchangedKeeps DEF HandleMounted, OutputUnchanged
  <2> QED
    BY <1>1, <2>1, HandlerKeeps, TakeFacts DEF HandleMounted, LoopType
<1>2. ASSUME HandleStart PROVE IInv'
  <2> DEFINE stays == UNCHANGED <<pc, active, mounted, bootArm, updArm>>
  <2>1. Take("Start") /\ streamRequested' = TRUE /\ desired' \in Rates /\ stays
    BY <1>2 DEF HandleStart, LoopType
  <2>2. OutInv' /\ dac'.state # "Starting" /\ app' # "Initializing"
    <3>1. CASE CanResume(desired')
      <4>1. /\ clockValid' = TRUE /\ resumePending' = TRUE
            /\ UNCHANGED <<relay, dac, clk, step, timer, app, engine, fill,
                           underrunBaseline, stopReason>>
        BY <1>2, <3>1 DEF HandleStart
      <4>2. app = "Playing" /\ step = "Playing" /\ clk.stable
        BY <3>1 DEF CanResume, OutInv, PathInv, AppMatchesStep
      <4> QED
        BY <2>1, <4>1, <4>2, TakeFacts DEF OutInv, OutType, PathInv, AppMatchesStep, RelaySafe,
           ClockValidIsTrue, RingReadOnlyWhenJoined, FaultIsQuiet, StageInv
    <3>2. CASE ~CanResume(desired')
      BY <1>2, <2>1, <3>2, BeginStartKeeps, TakeFacts DEF HandleStart
    <3> QED
      BY <3>1, <3>2
  <2> QED
    BY <2>1, <2>2, HandlerKeeps DEF LoopType
<1>3. ASSUME HandleRate PROVE IInv'
  <2>1. Take("Rate") /\ desired' \in Rates
    BY <1>3, TakeFacts DEF HandleRate, Take, EventRecords
  <2>2. OutInv' /\ dac'.state # "Starting" /\ app' # "Initializing"
    BY <1>3, <2>1, BeginStartKeeps, OutUnchangedKeeps, TakeFacts DEF HandleRate, OutputUnchanged
  <2> QED
    BY <1>3, <2>1, <2>2, HandlerKeeps DEF HandleRate, LoopType
<1>4. ASSUME HandleVolume PROVE IInv'
  <2>1. Take("Volume")
    BY <1>4 DEF HandleVolume
  <2>2. DacFaulted \in DacStates /\ DacFaulted.muted /\ DacFaulted.state = "Fault"
    BY DEF DacFaulted, DacStates
  <2>3. OutInv' /\ dac'.state # "Starting" /\ app' # "Initializing"
    BY <1>4, <2>1, <2>2, SafeStopKeeps, OutUnchangedKeeps, TakeFacts
       DEF HandleVolume, OutputUnchanged, StopReasons
  <2> QED
    BY <1>4, <2>1, <2>3, HandlerKeeps DEF HandleVolume, LoopType
<1>5. ASSUME HandleMute PROVE IInv'
  <2>1. Take("Mute") /\ relay' = FALSE /\ dac' \in SetMute(dac, TRUE)
        /\ UNCHANGED <<clk, step, timer, app, engine, fill, clockValid, underrunBaseline,
                       resumePending, stopReason>>
    BY <1>5 DEF HandleMute
  <2>2. dac' \in DacStates /\ dac'.muted /\ dac'.state # "Starting"
    BY <2>1, TakeFacts, SetMuteFacts
  <2>3. OutInv' /\ app' # "Initializing"
    BY <2>1, <2>2, TakeFacts DEF OutInv, OutType, PathInv, AppMatchesStep, RelaySafe,
       ClockValidIsTrue, RingReadOnlyWhenJoined, FaultIsQuiet, StageInv
  <2> QED
    BY <1>5, <2>1, <2>2, <2>3, HandlerKeeps DEF HandleMute, LoopType
<1>6. ASSUME HandleUnmute PROVE IInv'
  <2>1. Take("Unmute")
    BY <1>6 DEF HandleUnmute
  <2>2. OutInv' /\ dac'.state # "Starting" /\ app' # "Initializing"
    BY <1>6, <2>1, BeginStartKeeps, OutUnchangedKeeps, TakeFacts DEF HandleUnmute, OutputUnchanged
  <2> QED
    BY <1>6, <2>1, <2>2, HandlerKeeps DEF HandleUnmute, LoopType
<1>7. ASSUME HandleStop PROVE IInv'
  <2>1. Take("Stop")
    BY <1>7 DEF HandleStop
  <2>2. OutInv' /\ dac'.state # "Starting" /\ app' # "Initializing"
    BY <1>7, <2>1, SafeStopKeeps, ConnectedIdleKeeps, TakeFacts DEF HandleStop, StopReasons
  <2> QED
    BY <1>7, <2>1, <2>2, HandlerKeeps DEF HandleStop, LoopType
<1>8. ASSUME HandleDetached \/ HandleSuspended PROVE IInv'
  <2>1. \E ev \in {"Detached", "Suspended"} : Take(ev)
    BY <1>8 DEF HandleDetached, HandleSuspended
  <2>2. OutInv' /\ dac'.state # "Starting" /\ app' # "Initializing"
    BY <1>8, <2>1, SafeStopKeeps, TakeFacts DEF HandleDetached, HandleSuspended, StopReasons
  <2> QED
    BY <1>8, <2>1, <2>2, HandlerKeeps DEF HandleDetached, HandleSuspended, LoopType
<1>9. ASSUME HandleResumed PROVE IInv'
  <2>1. OutInv' /\ UNCHANGED <<dac, app>>
    BY <1>9, OutUnchangedKeeps DEF HandleResumed, OutputUnchanged
  <2> QED
    BY <1>9, <2>1, HandlerKeeps, TakeFacts DEF HandleResumed, LoopType
<1>10. ASSUME HandleBootloaderArm \/ HandleUpdaterArm PROVE IInv'
  <2>1. \E ev \in {"BootloaderArm", "UpdaterArm"} : Take(ev)
    BY <1>10 DEF HandleBootloaderArm, HandleUpdaterArm, HandleArm
  <2>2. SafeStop(dac, FALSE, "None") \/ OutputUnchanged
    BY <1>10 DEF HandleBootloaderArm, HandleUpdaterArm, HandleArm
  <2>3. OutInv' /\ dac'.state # "Starting" /\ app' # "Initializing"
    BY <2>1, <2>2, SafeStopKeeps, OutUnchangedKeeps, TakeFacts DEF OutputUnchanged, StopReasons
  <2>4. /\ pc' \in {pc, "rom", "updater"} /\ bootArm' \in Nat /\ updArm' \in Nat
        /\ UNCHANGED <<active, desired, mounted, streamRequested>>
    BY <1>10, TimingAssumption DEF HandleBootloaderArm, HandleUpdaterArm, HandleArm, LoopType
  <2> QED
    BY <2>1, <2>3, <2>4, HandlerKeeps DEF LoopType
<1>11. ASSUME Drained PROVE IInv'
  <2>1. OutInv'
    BY <1>11, OutUnchangedKeeps DEF Drained, OutputUnchanged, runtimeVars, hwVars, usbVars
  <2> QED
    BY <1>11, <2>1 DEF Drained, LoopType, StartupInv, runtimeVars, hwVars, usbVars, hostVars
<1> QED
  BY <1>1, <1>2, <1>3, <1>4, <1>5, <1>6, <1>7, <1>8, <1>9, <1>10, <1>11 DEF DrainStep

LEMMA AttachPreserves ==
    ASSUME IInv, feedback' \in Rates, AttachResumed
    PROVE  IInv'
<1> USE IInvSplit
<1>1. /\ UNCHANGED <<relay, dac, clk, step, timer, app, fill, clockValid, stopReason>>
      /\ \/ UNCHANGED <<engine, underrunBaseline, resumePending>>
         \/ /\ step = "Playing" /\ resumePending' = FALSE
            /\ engine' = [engine EXCEPT !.attached = TRUE]
            /\ underrunBaseline' = engine.underruns
  BY DEF AttachResumed, usbVars, OutInv, PathInv, StageInv, OutType
<1>2. /\ engine' \in EngineStates /\ underrunBaseline' \in Nat /\ resumePending' \in BOOLEAN
      /\ engine'.running = engine.running /\ engine'.errors = engine.errors
      /\ engine'.attached => engine.attached \/ step = "Playing"
      /\ resumePending' => resumePending
  BY <1>1 DEF OutInv, OutType, EngineStates
<1>3. OutInv'
  <2>1. OutType'
    BY <1>1, <1>2 DEF OutInv, OutType
  <2>2. PathInv'
    BY <1>1, <1>2 DEF OutInv, PathInv, AppMatchesStep, RelaySafe, ClockValidIsTrue,
       RingReadOnlyWhenJoined, FaultIsQuiet, StageInv
  <2> QED
    BY <2>1, <2>2 DEF OutInv
<1>4. LoopType' /\ StartupInv'
  BY <1>1, <1>2 DEF AttachResumed, LoopType, StartupInv, usbVars, hostVars
<1> QED
  BY <1>3, <1>4

(* The staged start: the frame of every stage, then one step per stage. *)
LEMMA StageKeepsLoop ==
    ASSUME IInv, feedback' \in Rates, NEW s, StartAt(s), OutInv', active' \in Rates,
           usbReady => dac'.state # "Starting" /\ app' # "Initializing",
           ~usbReady => step' = "None" /\ app' \in {"Initializing", "FaultMuted"} /\ ~resumePending'
    PROVE  IInv'
<1>1. LoopType'
  BY IInvSplit DEF StartAt, LoopType, hostVars
<1>2. StartupInv'
  BY IInvSplit DEF StartAt, StartupInv
<1> QED
  BY <1>1, <1>2, IInvSplit

LEMMA SafeStopStage ==
    ASSUME IInv, feedback' \in Rates, NEW s \in Steps \ {"None"}, StartAt(s), UNCHANGED active,
           NEW d \in {dac, DacFaulted}, NEW fault \in BOOLEAN, NEW reason \in StopReasons,
           SafeStop(d, fault, reason)
    PROVE  IInv'
<1>1. usbReady /\ dac.state # "Starting" /\ app # "Initializing"
  BY IInvSplit DEF StartupInv, StartAt
<1>2. d \in DacStates /\ (d.state # "Ready" => d.muted) /\ d.state # "Starting"
  <2>1. CASE d = dac
    BY <1>1, <2>1, IInvSplit DEF OutInv, OutType, PathInv, StageInv
  <2>2. CASE d = DacFaulted
    BY <2>2 DEF DacFaulted, DacStates
  <2> QED
    BY <2>1, <2>2
<1>3. OutInv' /\ dac'.state # "Starting" /\ app' # "Initializing"
  BY <1>1, <1>2, SafeStopKeeps, IInvSplit
<1> QED
  BY <1>1, <1>3, StageKeepsLoop, IInvSplit DEF LoopType

LEMMA StartSilenceFacts ==
    ASSUME NEW e \in StartSilence
    PROVE  e \in EngineStates /\ ~e.attached /\ ~e.progress
<1>1. PICK submitted \in BOOLEAN :
        e = [running |-> submitted, attached |-> FALSE, progress |-> FALSE,
             errors |-> 0, underruns |-> 0]
  BY DEF StartSilence
<1>2. CASE submitted = TRUE
  BY <1>1, <1>2 DEF EngineStates
<1>3. CASE submitted = FALSE
  BY <1>1, <1>3 DEF EngineStates
<1> QED
  BY <1>2, <1>3

LEMMA StartPreserves ==
    ASSUME IInv, feedback' \in Rates, StartStep
    PROVE  IInv'
<1> USE IInvSplit
<1>0. step # "None" => usbReady /\ dac.state # "Starting" /\ app # "Initializing"
  BY DEF StartupInv
<1>1. ASSUME SelectOscillator PROVE IInv'
  <2>1. clk' \in [selected : Rates, stable : BOOLEAN] /\ ~clk'.stable
    BY <1>1 DEF SelectOscillator, LoopType
  <2>2. OutType'
    BY <1>1, <2>1, TimingAssumption DEF SelectOscillator, StageKeeps, OutInv, OutType, Steps
  <2>3. PathInv'
    BY <1>1, <2>1 DEF SelectOscillator, StartAt, StageKeeps, OutInv, PathInv, AppMatchesStep,
       RelaySafe, ClockValidIsTrue, RingReadOnlyWhenJoined, FaultIsQuiet, StageInv,
       EarlySteps, LateSteps
  <2> QED
    BY <1>0, <1>1, <2>2, <2>3, StageKeepsLoop
       DEF SelectOscillator, StartAt, StageKeeps, OutInv, LoopType
<1>2. ASSUME StartEngine PROVE IInv'
  <2>1. app \in {"PreparingStream", "SwitchingRate"} /\ app' = "PreparingStream" /\ step' = "DmaProgress"
    BY <1>2, DispatchFacts DEF StartEngine, StartAt, OutInv, PathInv, AppMatchesStep, EarlySteps
  <2>2. clk' \in [selected : Rates, stable : BOOLEAN] /\ clk'.stable
    BY <1>2 DEF StartEngine, OutInv, OutType
  <2>3. engine' \in EngineStates /\ engine'.running /\ ~engine'.attached
    BY <1>2, StartSilenceFacts DEF StartEngine
  <2>4. OutType'
    BY <1>2, <2>1, <2>2, <2>3, TimingAssumption DEF StartEngine, OutInv, OutType, Steps, AppStates
  <2>5. PathInv'
    BY <1>2, <2>1, <2>2, <2>3 DEF StartEngine, StartAt, OutInv, PathInv, AppMatchesStep,
       RelaySafe, ClockValidIsTrue, RingReadOnlyWhenJoined, FaultIsQuiet, StageInv,
       EarlySteps, LateSteps
  <2> QED
    BY <1>0, <1>2, <2>1, <2>4, <2>5, StageKeepsLoop DEF StartEngine, StartAt, OutInv, LoopType
<1>3. ASSUME ConfigureFails PROVE IInv'
  BY <1>3, SafeStopStage DEF ConfigureFails, Steps, StopReasons
<1>4. ASSUME EngineStartFails PROVE IInv'
  <2>1. dac \in DacStates /\ dac.state = "Ready" /\ dac' \in SetMute(dac, TRUE)
    BY <1>4 DEF EngineStartFails, OutInv, OutType
  <2>2. dac' \in DacStates /\ dac'.muted /\ dac'.state # "Starting"
    BY <2>1, SetMuteFacts
  <2>3. engine' \in EngineStates /\ ~engine'.running
    BY <1>4, StartSilenceFacts DEF EngineStartFails
  <2>4. clk' \in [selected : Rates, stable : BOOLEAN]
    BY <1>4, InvalidatedFacts DEF EngineStartFails, OutInv, OutType
  <2>5. /\ app' = "FaultMuted" /\ step' = "None" /\ relay' = FALSE /\ fill' = 0
        /\ clockValid' = FALSE /\ resumePending' = FALSE /\ stopReason' = "StartFault"
        /\ UNCHANGED <<timer, underrunBaseline, active>>
    BY <1>4, DispatchFacts DEF EngineStartFails, OutInv, OutType
  <2>6. OutType'
    BY <2>2, <2>3, <2>4, <2>5, RingFacts DEF OutInv, OutType, Steps, StopReasons, AppStates
  <2>7. PathInv'
    BY <2>2, <2>3, <2>5 DEF PathInv, AppMatchesStep, RelaySafe, ClockValidIsTrue,
       RingReadOnlyWhenJoined, FaultIsQuiet, StageInv, EarlySteps, LateSteps
  <2> QED
    BY <1>4, <2>2, <2>5, <2>6, <2>7, StageKeepsLoop DEF EngineStartFails, OutInv, LoopType
<1>5. ASSUME ConfirmDmaProgress PROVE IInv'
  <2>1. OutType'
    BY <1>5 DEF ConfirmDmaProgress, StageKeeps, OutInv, OutType, Steps
  <2>2. PathInv'
    BY <1>5 DEF ConfirmDmaProgress, StartAt, StageKeeps, OutInv, PathInv, AppMatchesStep,
       RelaySafe, ClockValidIsTrue, RingReadOnlyWhenJoined, FaultIsQuiet, StageInv,
       EarlySteps, LateSteps
  <2> QED
    BY <1>0, <1>5, <2>1, <2>2, StageKeepsLoop
       DEF ConfirmDmaProgress, StartAt, StageKeeps, OutInv, LoopType
<1>6. ASSUME DmaNoProgress PROVE IInv'
  BY <1>6, SafeStopStage DEF DmaNoProgress, Steps, StopReasons
<1>7. ASSUME JoinStream, desired # active PROVE IInv'
  <2>1. step = "Prefill" /\ usbReady /\ dac.state # "Starting" /\ app # "Initializing"
    BY <1>0, <1>7 DEF JoinStream, StartAt
  <2>2. OutInv' /\ app' # "Initializing" /\ dac'.state # "Starting"
    BY <1>7, <2>1, BeginStartKeeps DEF JoinStream
  <2> QED
    BY <1>7, <2>1, <2>2, StageKeepsLoop DEF JoinStream, LoopType
<1>8. ASSUME JoinStream, desired = active PROVE IInv'
  <2>1. /\ engine' \in EngineStates /\ engine'.running = engine.running
        /\ engine'.errors = engine.errors /\ underrunBaseline' \in Nat
    BY <1>8 DEF JoinStream, OutInv, OutType, EngineStates
  <2>2. OutType'
    BY <1>8, <2>1, TimingAssumption DEF JoinStream, OutInv, OutType, Steps
  <2>3. PathInv'
    BY <1>8, <2>1 DEF JoinStream, StartAt, OutInv, PathInv, AppMatchesStep,
       RelaySafe, ClockValidIsTrue, RingReadOnlyWhenJoined, FaultIsQuiet, StageInv,
       EarlySteps, LateSteps
  <2> QED
    BY <1>0, <1>8, <2>2, <2>3, StageKeepsLoop
       DEF JoinStream, StartAt, OutInv, LoopType
<1>9. ASSUME UnstableStream \/ HeldMuted \/ UnmuteFails \/ RefuseRelay PROVE IInv'
  BY <1>9, SafeStopStage
     DEF UnstableStream, HeldMuted, UnmuteFails, RefuseRelay, StableReached, Steps, StopReasons
<1>10. ASSUME UnmuteDac PROVE IInv'
  <2>1. dac' \in DacStates /\ dac'.state = "Ready"
    BY <1>10, SetMuteFacts DEF UnmuteDac, OutInv, OutType
  <2>2. step = "Stable" /\ ~relay
    BY <1>10 DEF UnmuteDac, StableReached, StartAt, OutInv, PathInv, RelaySafe
  <2>3. OutType'
    BY <1>10, <2>1, TimingAssumption DEF UnmuteDac, StageKeeps, OutInv, OutType, Steps
  <2>4. PathInv'
    BY <1>10, <2>1, <2>2 DEF UnmuteDac, StageKeeps, OutInv, PathInv, AppMatchesStep,
       RelaySafe, ClockValidIsTrue, RingReadOnlyWhenJoined, FaultIsQuiet, StageInv,
       EarlySteps, LateSteps
  <2> QED
    BY <1>0, <1>10, <2>1, <2>2, <2>3, <2>4, StageKeepsLoop
       DEF UnmuteDac, StableReached, StageKeeps, OutInv, LoopType
<1>11. ASSUME CloseRelay PROVE IInv'
  <2>1. step = "DacSettle" /\ app = "PreparingStream" /\ app' = "Playing" /\ step' = "Playing"
    BY <1>11, DispatchFacts DEF CloseRelay, StartAt, OutInv, PathInv, AppMatchesStep, LateSteps
  <2>2. OutType'
    BY <1>11, <2>1 DEF CloseRelay, OutInv, OutType, Steps, AppStates
  <2>3. PathInv'
    BY <1>11, <2>1 DEF CloseRelay, OutputReady, OutInv, PathInv, AppMatchesStep,
       RelaySafe, ClockValidIsTrue, RingReadOnlyWhenJoined, FaultIsQuiet, StageInv,
       EarlySteps, LateSteps
  <2> QED
    BY <1>0, <1>11, <2>1, <2>2, <2>3, StageKeepsLoop DEF CloseRelay, OutInv, LoopType
<1>12. ASSUME StageWaits PROVE IInv'
  <2>1. OutInv' /\ (\E s \in Steps : StartAt(s)) /\ UNCHANGED <<active, step, dac, app, resumePending>>
    BY <1>12, OutUnchangedKeeps DEF StageWaits, OutputUnchanged
  <2> QED
    BY <2>1, StageKeepsLoop DEF LoopType, StartupInv
<1> QED
  BY <1>1, <1>2, <1>3, <1>4, <1>5, <1>6, <1>7, <1>8, <1>9, <1>10, <1>11, <1>12 DEF StartStep

LEMMA CheckPreserves ==
    ASSUME IInv, feedback' \in Rates, CheckStep
    PROVE  IInv'
<1> USE IInvSplit
<1>1. LeaveChecks /\ ((\E reason \in StopReasons : SafeStop(dac, TRUE, reason)) \/ OutputUnchanged)
  BY DEF CheckStep, DmaErrorFault, UnderrunFault, NoFault, StopReasons
<1>2. dac \in DacStates /\ (dac.state # "Ready" => dac.muted)
  BY DEF OutInv, OutType, PathInv, StageInv
<1>3. CASE OutputUnchanged
  BY <1>1, <1>3, OutUnchangedKeeps
     DEF LeaveChecks, OutputUnchanged, LoopType, StartupInv, hostVars
<1>4. CASE \E reason \in StopReasons : SafeStop(dac, TRUE, reason)
  <2>1. /\ OutInv' /\ step' = "None" /\ app' = "FaultMuted" /\ ~resumePending'
        /\ dac.state # "Starting" => dac'.state # "Starting"
    BY <1>2, <1>4, SafeStopKeeps
  <2> QED
    BY <1>1, <2>1 DEF LeaveChecks, LoopType, StartupInv, hostVars
<1> QED
  BY <1>1, <1>3, <1>4

(* An interrupt changes the engine and the ring only. *)
LEMMA InterruptPreserves ==
    ASSUME IInv, feedback' \in Rates, InterruptStep
    PROVE  IInv'
<1> USE IInvSplit
<1>1. UNCHANGED <<pc, runtimeVars, relay, clk, dac, usbVars, hostVars>>
  BY DEF InterruptStep, DmaComplete, DmaFails, ReceiveAudio
<1>2. engine \in EngineStates /\ fill \in 0..RingUnits
  BY DEF OutInv, OutType
<1>3. /\ fill' \in 0..RingUnits /\ engine' \in EngineStates
      /\ engine'.running => engine.running
      /\ engine.running \/ engine.errors > 0 => engine'.running \/ engine'.errors > 0
      /\ engine'.attached = engine.attached
  <2>1. CASE ReceiveAudio
    BY <1>2, <2>1 DEF ReceiveAudio, RingUnits
  <2>2. /\ engine.errors \in Nat /\ engine.errors + 1 \in Nat /\ engine.errors + 1 > 0
        /\ engine.underruns \in Nat /\ engine.underruns + 1 \in Nat
    BY <1>2 DEF EngineStates
  <2>3. ASSUME NEW p \in BOOLEAN, NEW u \in Nat, engine.running,
               \/ engine' = [engine EXCEPT !.running = FALSE, !.progress = p, !.underruns = u,
                                           !.errors = engine.errors + 1]
               \/ engine' = [engine EXCEPT !.running = TRUE, !.progress = p, !.underruns = u]
        PROVE  /\ engine' \in EngineStates /\ engine'.attached = engine.attached
               /\ engine'.running \/ engine'.errors > 0
    BY <1>2, <2>2, <2>3 DEF EngineStates
  <2>4. CASE DmaFails
    <3>1. engine' = [engine EXCEPT !.running = FALSE, !.progress = engine.progress,
                                   !.underruns = engine.underruns, !.errors = engine.errors + 1]
      BY <1>2, <2>4 DEF DmaFails, EngineStates
    <3> QED
      BY <1>2, <2>2, <2>3, <2>4, <3>1 DEF DmaFails, EngineStates
  <2>5. CASE DmaComplete
    <3>1. fill' \in 0..RingUnits
      BY <1>2, <2>5 DEF DmaComplete, RingUnits
    <3>2. PICK submitted \in BOOLEAN : engine' = [engine EXCEPT
            !.progress = TRUE,
            !.underruns = IF engine.attached /\ fill = 0 THEN @ + 1 ELSE @,
            !.running = submitted,
            !.errors = IF submitted THEN @ ELSE @ + 1]
      BY <2>5 DEF DmaComplete
    <3> DEFINE more == IF engine.attached /\ fill = 0 THEN engine.underruns + 1 ELSE engine.underruns
    <3>3. more \in Nat
      BY <2>2
    <3>4. CASE submitted = TRUE
      <4>1. engine' = [engine EXCEPT !.running = TRUE, !.progress = TRUE, !.underruns = more]
        BY <1>2, <3>2, <3>4 DEF EngineStates
      <4> QED
        BY <2>3, <2>5, <3>1, <3>3, <4>1 DEF DmaComplete
    <3>5. CASE submitted = FALSE
      <4>1. engine' = [engine EXCEPT !.running = FALSE, !.progress = TRUE, !.underruns = more,
                                     !.errors = engine.errors + 1]
        BY <1>2, <3>2, <3>5 DEF EngineStates
      <4> QED
        BY <2>3, <2>5, <3>1, <3>3, <4>1 DEF DmaComplete
    <3> QED
      BY <3>4, <3>5
  <2> QED
    BY <2>1, <2>4, <2>5 DEF InterruptStep
<1>4. OutType'
  BY <1>1, <1>3 DEF OutInv, OutType, runtimeVars, usbVars
<1>5. PathInv'
  BY <1>1, <1>3 DEF runtimeVars, usbVars, OutInv, PathInv, AppMatchesStep, RelaySafe,
     ClockValidIsTrue, RingReadOnlyWhenJoined, FaultIsQuiet, StageInv
<1>6. LoopType' /\ StartupInv'
  BY <1>1 DEF LoopType, StartupInv, runtimeVars, usbVars, hostVars
<1> QED
  BY <1>4, <1>5, <1>6 DEF OutInv

----------------------------------------------------------------------------
(* The inductive invariant, and the safety properties it carries. *)

(* The controller is only ever reset for one of the two rates. *)
LEMMA FeedbackStays ==
    ASSUME IInv, Next
    PROVE  feedback' \in Rates
<1>1. /\ feedback \in Rates /\ active \in Rates /\ requestedRate \in Rates
      /\ desired \in Rates /\ DefaultRate \in Rates
  BY DEF IInv, TypeOK, DefaultRate, Rates
<1>2. ASSUME HandleRate PROVE feedback' \in Rates
  <2>1. Take("Rate") /\ feedback' = Head(queue).rate
    BY <1>2 DEF HandleRate
  <2> QED
    BY <2>1, TakeFacts DEF Take, EventRecords
<1>3. ASSUME NEW d, NEW fault, NEW reason, SafeStop(d, fault, reason) PROVE feedback' \in Rates
  BY <1>1, <1>3 DEF SafeStop
<1>4. ASSUME DrainStep, ~HandleRate PROVE feedback' \in Rates
  BY <1>1, <1>3, <1>4 DEF DrainStep, HandleMounted, HandleStart, HandleVolume, HandleMute,
     HandleUnmute, HandleStop, EnterConnectedIdle, HandleDetached, HandleSuspended, HandleResumed,
     HandleBootloaderArm, HandleUpdaterArm, HandleArm, Drained, hwVars
<1>5. ASSUME StartStep PROVE feedback' \in Rates
  BY <1>1, <1>3, <1>5 DEF StartStep, SelectOscillator, StartEngine, ConfigureFails,
     EngineStartFails, ConfirmDmaProgress, DmaNoProgress, JoinStream, UnstableStream, HeldMuted,
     UnmuteDac, UnmuteFails, CloseRelay, RefuseRelay, StageWaits, StageKeeps, StartAt
<1>6. ASSUME CheckStep \/ AttachResumed \/ TaskDone PROVE feedback' \in Rates
  BY <1>1, <1>3, <1>6 DEF CheckStep, DmaErrorFault, UnderrunFault, NoFault, AttachResumed,
     TaskDone, hwVars
<1>7. ASSUME HostStep PROVE feedback' \in Rates
  BY <1>1, <1>7 DEF HostStep, Mount, Unmount, Suspend, Resume, SetInterface, CloseEndpoint,
     SetRate, SetMuteControl, SetVolume, RequestMaintenance, InTask, hwVars
<1>8. ASSUME InterruptStep \/ Gone PROVE feedback' \in Rates
  BY <1>1, <1>8 DEF InterruptStep, DmaComplete, DmaFails, ReceiveAudio, Gone, vars, hwVars
<1>9. ASSUME NEW d \in 0..MaxElapsed, PollStep(d) PROVE feedback' \in Rates
  BY <1>1, <1>3, <1>9 DEF PollStep, Poll, InitUsb
<1> QED
  BY <1>2, <1>4, <1>5, <1>6, <1>7, <1>8, <1>9 DEF Next, LoopStep, BodyStep

LEMMA StepPreserves == IInv /\ [Next]_vars => IInv'
<1> SUFFICES ASSUME IInv, [Next]_vars PROVE IInv'
  OBVIOUS
<1>1. CASE TaskDone
  BY <1>1 DEF TaskDone, IInv, TypeOK, AppMatchesStep, RelaySafe, ClockValidIsTrue,
     RingReadOnlyWhenJoined, FaultIsQuiet, StageInv, StartupInv, runtimeVars, hwVars,
     usbVars, hostVars
<1>2. CASE UNCHANGED vars
  BY <1>2 DEF vars, IInv, TypeOK, AppMatchesStep, RelaySafe, ClockValidIsTrue,
     RingReadOnlyWhenJoined, FaultIsQuiet, StageInv, StartupInv, runtimeVars, hwVars,
     usbVars, hostVars
<1>3. CASE HostStep \/ DrainStep \/ AttachResumed \/ StartStep \/ CheckStep \/ InterruptStep
  <2>1. feedback' \in Rates
    BY <1>3, FeedbackStays DEF Next, LoopStep, BodyStep
  <2> QED
    BY <1>3, <2>1, HostPreserves, DrainPreserves, AttachPreserves, StartPreserves, CheckPreserves,
       InterruptPreserves
<1>4. CASE \E d \in 0..MaxElapsed : PollStep(d)
  <2>1. feedback' \in Rates
    BY <1>4, FeedbackStays DEF Next, LoopStep
  <2> QED
    BY <1>4, <2>1, PollPreserves, InitUsbPreserves DEF PollStep
<1> QED
  BY <1>1, <1>2, <1>3, <1>4 DEF Next, LoopStep, BodyStep, Gone

(* IInv holds in every reachable state, for every delay, queue capacity and  *)
(* set of host requests.                                                     *)
THEOREM Invariance == Spec => []IInv
BY InitEstablishes, StepPreserves, PTL DEF Spec

(* Every variable keeps its type and the event queue stays in its array.     *)
THEOREM TypeCorrect == Spec => []TypeOK
BY Invariance, PTL DEF IInv

(* The relay is closed only on the settled, unmuted path of a playing        *)
(* application.                                                              *)
THEOREM RelayIsSafe == Spec => []RelaySafe
BY Invariance, PTL DEF IInv

(* A fault leaves the whole output path safe until a new start clears it.    *)
THEOREM FaultStaysQuiet == Spec => []FaultIsQuiet
BY Invariance, PTL DEF IInv

(* The host is told "clock valid" only about a settled, progressing clock.   *)
THEOREM HostIsToldTheTruth == Spec => []ClockValidIsTrue
BY Invariance, PTL DEF IInv

(* The application state and the staged start agree in every state.          *)
THEOREM AppFollowsStart == Spec => []AppMatchesStep
BY Invariance, PTL DEF IInv

(* Host audio reaches the DMA only once half the ring was prefilled for it:  *)
(* no stage before the join of run_start leaves a running engine attached.   *)
THEOREM RingIsReadWhenJoined == Spec => []RingReadOnlyWhenJoined
BY Invariance, PTL DEF IInv

----------------------------------------------------------------------------
(* The loop implements OutputPath: every step maps to a step of the        *)
(* contract on the relay, the oscillator and the DAC mute, or to none.     *)

PathStep == Path!Next \/ UNCHANGED Path!vars

(* Opening the relay with everything else at least as safe is a Retreat. *)
LEMMA RetreatFacts ==
    ASSUME OutInv, OutInv', relay' = FALSE, clk'.selected = clk.selected,
           clk'.stable => clk.stable, dac.muted => dac'.muted
    PROVE  PathStep
<1>1. /\ clk.stable \in BOOLEAN /\ clk'.stable \in BOOLEAN
      /\ dac.muted \in BOOLEAN /\ dac'.muted \in BOOLEAN
  BY DEF OutInv, OutType, DacStates
<1>2. clk'.stable \in {clk.stable, FALSE}
  BY <1>1
<1>3. (~dac'.muted) \in {~dac.muted, FALSE}
  BY <1>1
<1>4. Path!Retreat
  BY <1>2, <1>3 DEF Path!Retreat
<1> QED
  BY <1>4 DEF PathStep, Path!Next

(* safe_stop and begin_start retreat: both leave the DAC muted. *)
LEMMA QuietFacts ==
    ASSUME OutInv, OutInv', step' \in {"None", "RelayRelease"}, relay' = FALSE,
           clk' = Invalidated(clk)
    PROVE  PathStep
<1>1. dac'.muted
  BY DEF OutInv, PathInv, StageInv
<1>2. clk'.selected = clk.selected /\ ~clk'.stable
  BY InvalidatedFacts DEF OutInv, OutType
<1> QED
  BY <1>1, <1>2, RetreatFacts

LEMMA SafeStopFacts ==
    ASSUME OutInv, OutInv', \E d, fault, reason : SafeStop(d, fault, reason)
    PROVE  PathStep
BY QuietFacts DEF SafeStop

LEMMA BeginStartFacts ==
    ASSUME OutInv, OutInv', BeginStart
    PROVE  PathStep
BY QuietFacts DEF BeginStart

(* The relay, the oscillator and the DAC untouched: the contract stutters. *)
LEMMA StutterFacts ==
    ASSUME UNCHANGED <<relay, clk, dac>>
    PROVE  PathStep
BY DEF PathStep, Path!vars

----------------------------------------------------------------------------
LEMMA PollMaps ==
    ASSUME IInv, IInv', NEW d \in 0..MaxElapsed, PollStep(d)
    PROVE  PathStep
<1> USE IInvSplit
<1>1. dac \in DacStates /\ (dac.state # "Ready" => dac.muted)
  BY DEF OutInv, OutType, PathInv, StageInv
<1>2. ASSUME Poll(d) PROVE PathStep
  <2>1. UNCHANGED <<relay, clk>> /\ dac' \in DacPoll(dac)
    BY <1>2 DEF Poll
  <2>2. CASE dac' = dac
    BY <2>1, <2>2, StutterFacts
  <2>3. CASE dac' # dac
    <3>1. dac.state = "Starting" /\ dac.muted /\ dac'.muted
      BY <1>1, <2>1, <2>3, DacPollFacts
    <3>2. ~relay
      BY <3>1 DEF OutInv, PathInv, RelaySafe
    <3> QED
      BY <2>1, <3>1, <3>2, RetreatFacts DEF OutInv, OutType
  <2> QED
    BY <2>2, <2>3
<1>3. ASSUME InitUsb(d) PROVE PathStep
  <2>1. PICK dac2 \in DacPoll(dac) :
          \/ dac' = dac2 /\ UNCHANGED <<relay, clk>>
          \/ SafeStop(dac2, TRUE, "StartFault")
    BY <1>3 DEF InitUsb
  <2>2. CASE SafeStop(dac2, TRUE, "StartFault")
    BY <2>2, SafeStopFacts
  <2>3. CASE dac' = dac2 /\ UNCHANGED <<relay, clk>>
    <3>1. step = "None" /\ dac.muted /\ ~relay
      BY <1>3 DEF InitUsb, StartupInv, OutInv, PathInv, RelaySafe, StageInv
    <3>2. dac'.muted
      BY <1>1, <2>3, <3>1, DacPollFacts
    <3> QED
      BY <2>3, <3>1, <3>2, RetreatFacts DEF OutInv, OutType
  <2> QED
    BY <2>1, <2>2, <2>3
<1> QED
  BY <1>2, <1>3 DEF PollStep

LEMMA DrainMaps ==
    ASSUME IInv, IInv', DrainStep
    PROVE  PathStep
<1> USE IInvSplit
<1>1. ASSUME HandleMounted \/ HandleResumed \/ Drained PROVE PathStep
  BY <1>1, StutterFacts DEF HandleMounted, HandleResumed, Drained, OutputUnchanged, hwVars
<1>2. ASSUME HandleStart PROVE PathStep
  BY <1>2, StutterFacts, BeginStartFacts DEF HandleStart
<1>3. ASSUME HandleRate \/ HandleUnmute PROVE PathStep
  BY <1>3, StutterFacts, BeginStartFacts DEF HandleRate, HandleUnmute, OutputUnchanged
<1>4. ASSUME HandleVolume PROVE PathStep
  BY <1>4, StutterFacts, SafeStopFacts DEF HandleVolume, OutputUnchanged
<1>5. ASSUME HandleMute PROVE PathStep
  <2>1. relay' = FALSE /\ dac' \in SetMute(dac, TRUE) /\ clk' = clk
    BY <1>5 DEF HandleMute
  <2>2. dac'.muted
    BY <2>1, SetMuteFacts DEF OutInv, OutType, PathInv, StageInv
  <2> QED
    BY <2>1, <2>2, RetreatFacts
<1>6. ASSUME HandleStop PROVE PathStep
  BY <1>6, StutterFacts, SafeStopFacts DEF HandleStop, EnterConnectedIdle
<1>7. ASSUME HandleDetached \/ HandleSuspended PROVE PathStep
  BY <1>7, SafeStopFacts DEF HandleDetached, HandleSuspended
<1>8. ASSUME HandleBootloaderArm \/ HandleUpdaterArm PROVE PathStep
  BY <1>8, StutterFacts, SafeStopFacts
     DEF HandleBootloaderArm, HandleUpdaterArm, HandleArm, OutputUnchanged
<1> QED
  BY <1>1, <1>2, <1>3, <1>4, <1>5, <1>6, <1>7, <1>8 DEF DrainStep

LEMMA StartMaps ==
    ASSUME IInv, IInv', StartStep
    PROVE  PathStep
<1> USE IInvSplit
<1>1. ASSUME SelectOscillator PROVE PathStep
  <2>1. step = "RelayRelease" /\ ~relay /\ dac.muted
    BY <1>1 DEF SelectOscillator, StartAt, OutInv, PathInv, RelaySafe, StageInv
  <2>2. desired \in Rates /\ clk'.selected = desired /\ clk'.stable = FALSE
        /\ UNCHANGED <<relay, dac>>
    BY <1>1 DEF SelectOscillator, StageKeeps, LoopType
  <2>3. Path!Select(desired)
    BY <2>1, <2>2 DEF Path!Select
  <2> QED
    BY <2>2, <2>3 DEF PathStep, Path!Next
<1>2. ASSUME StartEngine PROVE PathStep
  <2>1. step = "ClockSettle" /\ ~relay /\ dac.muted
    BY <1>2 DEF StartEngine, StartAt, OutInv, PathInv, RelaySafe, StageInv
  <2>2. clk'.selected = clk.selected /\ clk'.stable = TRUE /\ UNCHANGED <<relay, dac>>
    BY <1>2 DEF StartEngine, OutInv, OutType
  <2>3. CASE clk.stable = TRUE
    BY <2>2, <2>3 DEF PathStep, Path!vars
  <2>4. CASE clk.stable = FALSE
    <3>1. Path!Settle
      BY <2>1, <2>2, <2>4 DEF Path!Settle
    <3> QED
      BY <3>1 DEF PathStep, Path!Next
  <2> QED
    BY <2>3, <2>4 DEF OutInv, OutType
<1>3. ASSUME UnmuteDac PROVE PathStep
  <2>1. step = "Stable" /\ ~relay /\ dac.muted /\ clk.stable
    BY <1>3 DEF UnmuteDac, StableReached, StartAt, OutInv, PathInv, RelaySafe, StageInv, LateSteps
  <2>2. UNCHANGED <<relay, clk>> /\ dac' \in SetMute(dac, FALSE) /\ dac'.state = "Ready"
    BY <1>3 DEF UnmuteDac, StageKeeps
  <2>3. dac.state = "Ready" /\ (dac' = [dac EXCEPT !.muted = FALSE] \/ dac' = DacFaulted \/ dac' = dac)
    BY <2>2 DEF SetMute
  <2>4. dac' = [dac EXCEPT !.muted = FALSE]
    BY <2>2, <2>3 DEF DacFaulted, SetMute
  <2>5. dac'.muted = FALSE
    BY <2>4 DEF OutInv, OutType, DacStates
  <2>6. Path!Unmute
    BY <2>1, <2>2, <2>5 DEF Path!Unmute
  <2> QED
    BY <2>6 DEF PathStep, Path!Next
<1>4. ASSUME CloseRelay PROVE PathStep
  <2>1. ~relay /\ clk.stable /\ ~dac.muted
    BY <1>4 DEF CloseRelay, OutputReady, StartAt, OutInv, PathInv, RelaySafe
  <2>2. relay' = TRUE /\ UNCHANGED <<clk, dac>>
    BY <1>4 DEF CloseRelay
  <2>3. Path!Connect
    BY <2>1, <2>2 DEF Path!Connect
  <2> QED
    BY <2>3 DEF PathStep, Path!Next
<1>5. ASSUME ConfirmDmaProgress \/ (JoinStream /\ desired = active) \/ StageWaits PROVE PathStep
  BY <1>5, StutterFacts DEF ConfirmDmaProgress, JoinStream, StageWaits, StageKeeps, OutputUnchanged
<1>6. ASSUME EngineStartFails PROVE PathStep
  BY <1>6, QuietFacts DEF EngineStartFails
<1>7. ASSUME JoinStream, desired # active PROVE PathStep
  BY <1>7, BeginStartFacts DEF JoinStream
<1>8. ASSUME ConfigureFails \/ DmaNoProgress \/ UnstableStream \/ HeldMuted \/ UnmuteFails
             \/ RefuseRelay
      PROVE PathStep
  BY <1>8, SafeStopFacts
     DEF ConfigureFails, DmaNoProgress, UnstableStream, HeldMuted, UnmuteFails, RefuseRelay
<1> QED
  BY <1>1, <1>2, <1>3, <1>4, <1>5, <1>6, <1>7, <1>8 DEF StartStep

LEMMA StepMaps ==
    IInv /\ IInv' /\ [Next]_vars => [Path!Next]_Path!vars
<1> SUFFICES ASSUME IInv, IInv', [Next]_vars PROVE PathStep
  BY DEF PathStep
<1>1. CASE HostStep \/ TaskDone \/ AttachResumed \/ InterruptStep \/ Gone \/ UNCHANGED vars
  <2>1. UNCHANGED <<relay, clk, dac>>
    BY <1>1 DEF HostStep, Mount, Unmount, Suspend, Resume, SetInterface, CloseEndpoint, SetRate,
       SetMuteControl, SetVolume, RequestMaintenance, InTask, TaskDone, AttachResumed,
       InterruptStep, DmaComplete, DmaFails, ReceiveAudio, Gone, vars, hwVars
  <2> QED
    BY <2>1, StutterFacts
<1>2. CASE CheckStep
  <2>1. SafeStop(dac, TRUE, "DmaError") \/ SafeStop(dac, TRUE, "Underrun") \/ OutputUnchanged
    BY <1>2 DEF CheckStep, DmaErrorFault, UnderrunFault, NoFault
  <2> QED
    BY <2>1, SafeStopFacts, StutterFacts, IInvSplit DEF OutputUnchanged
<1> QED
  BY <1>1, <1>2, PollMaps, DrainMaps, StartMaps DEF Next, LoopStep, BodyStep

(* The loop keeps the order of the output path: in every run, whatever the   *)
(* host asks, the interrupts do and the devices refuse, the oscillator is    *)
(* switched only on a muted, disconnected output and the relay closes only   *)
(* on a settled oscillator and an unmuted DAC.                               *)
THEOREM OutputPathImplemented == Spec => ImplementsOutputPath
<1>1. Init => Path!Init
  BY DEF Init, Path!Init
<1>2. Path!Init /\ [][Path!Next]_Path!vars => ImplementsOutputPath
  BY DEF ImplementsOutputPath, Path!Spec
<1> QED
  BY <1>1, <1>2, Invariance, StepMaps, PTL DEF Spec
=============================================================================
