------------------------------ MODULE Runtime ------------------------------
(***************************************************************************)
(* The cooperative main loop of platform/nxp/main.cpp with everything it   *)
(* drives: the application state machine, the staged start, the output     *)
(* relay, the oscillator, the DAC, the audio engine and its DMA interrupt, *)
(* the USB event queue, and the host on the other end of the cable.        *)
(*                                                                         *)
(* One pass of the loop visits the program points of pc in order:          *)
(*   "poll"    read now, poll the DAC, bring USB up       (lines 278-286)  *)
(*   "task"    tud_task runs the USB callbacks            (line 287)       *)
(*   "drain"   one queued event per step                  (lines 288-394)  *)
(*   "resume"  rejoin a paused stream                     (lines 395-400)  *)
(*   "start"   one step of the staged start               (line 401)       *)
(*   "checks"  fault checks at the end of the pass        (lines 402-408)  *)
(* The DMA interrupt and the arrival of audio packets interleave with      *)
(* every one of them.                                                      *)
(*                                                                         *)
(* Time: a deadline is kept as the milliseconds left until it (0 is        *)
(* "reached"); time is read, and so advances, once per pass, as `now` is.  *)
(* The ring is counted in quarters of its capacity, one DMA transfer or    *)
(* batch of packets being one quarter.                                     *)
(***************************************************************************)
EXTENDS Integers, Sequences, AppController

CONSTANTS
    RelayRelease,      \* config::board::relay_release_us, in ticks
    OscillatorSettle,  \* config::board::oscillator_settle_us
    DmaStartLimit,     \* the 20 ms a started engine has to show progress
    StableAudio,       \* config::board::stable_audio_us
    DacSettle,         \* config::board::dac_settle_us
    ArmWindow,         \* the 2000 ms between two maintenance requests
    MaxElapsed,        \* bound: most ticks one pass of the loop takes
    QueueCap,          \* UsbDevice::event_capacity
    MaxUnderruns,      \* bound: where the model stops counting underruns
    HostOps            \* which requests the host of an instance makes; with
                       \* "Overflow" more of them in one pass than the queue holds

ASSUME TimingAssumption ==
    /\ RelayRelease \in Nat \ {0} /\ OscillatorSettle \in Nat \ {0}
    /\ DmaStartLimit \in Nat \ {0} /\ StableAudio \in Nat \ {0}
    /\ DacSettle \in Nat \ {0} /\ ArmWindow \in Nat \ {0}
ASSUME BoundAssumption ==
    MaxElapsed \in Nat \ {0} /\ QueueCap \in Nat \ {0} /\ MaxUnderruns \in Nat

(* The two entries of audio/sample_rate.cpp; each has its own oscillator, *)
(* so a format also names its clock family. Index 0 is the default.       *)
Rates == {"r44k1", "r48k"}
DefaultRate == "r44k1"

RingUnits   == 4
(* Mutant of HalfRing: a threshold the ring cannot reach. *)
HalfRingTooHigh == RingUnits * 2

HalfRing    == RingUnits \div 2
QuarterRing == RingUnits \div 4

Steps == {"None", "RelayRelease", "ClockSettle", "DmaProgress", "Prefill",
          "Stable", "DacSettle", "Playing"}
(* StopReason, as far as anything here tells its values apart: why a host   *)
(* stopped, or which fault. "StartFault" stands for the ones that end a     *)
(* start (and UsbInit, VolumeControl), "None" for a stop that records none. *)
StopReasons == {"None", "HostStop", "StartFault", "Underrun", "DmaError"}
Events == {"Mounted", "Detached", "Suspended", "Resumed", "Start", "Stop",
           "Rate", "Mute", "Unmute", "Volume", "BootloaderArm", "UpdaterArm"}
NoRate == "NoRate"                 \* the rate of an event that carries none

VARIABLES
    pc,               \* where the loop is, or "rom" / "updater" once it left
    \* Runtime
    app, active, desired, step, timer, underrunBaseline,
    mounted, streamRequested, resumePending, bootArm, updArm, stopReason,
    \* relay, ClockManager, Cs4398, AudioEngine, StreamBuffer, and the rate
    \* FeedbackController was last reset for
    relay, clk, dac, engine, fill, feedback,
    \* UsbDevice
    usbReady, queue, lost, requestedRate, hostMuted, clockValid,
    \* the host: its connection and the alternate setting it selected
    link, alt

runtimeVars == <<app, active, desired, step, timer, underrunBaseline, mounted,
                 streamRequested, resumePending, bootArm, updArm, stopReason>>
hwVars   == <<relay, clk, dac, engine, fill, feedback>>
usbVars  == <<usbReady, queue, lost, requestedRate, hostMuted, clockValid>>
hostVars == <<link, alt>>
vars == <<pc, runtimeVars, hwVars, usbVars, hostVars>>

----------------------------------------------------------------------------
(* The devices the loop drives. *)

DacFaulted == [state |-> "Fault", muted |-> TRUE]      \* safe_fault()

(* Cs4398::set_mute: refused unless ready; a failed transfer faults the DAC. *)
SetMute(d, m) == IF d.state = "Ready" THEN {[d EXCEPT !.muted = m], DacFaulted} ELSE {d}

(* Cs4398::poll during the bootstrap, whose timing module Cs4398 details. *)
DacPoll(d) ==
    IF d.state = "Starting"
    THEN {d, [state |-> "Ready", muted |-> TRUE], DacFaulted} ELSE {d}

(* AudioEngine::stop: nothing happens to an engine that already stopped. *)
EngineStop(e) == [e EXCEPT !.running = FALSE]

(* AudioEngine::start_silence: the counters restart, the ring is detached;  *)
(* the first transfer may be refused. progress is dma_completions differing *)
(* from dma_baseline, which is read right after.                            *)
StartSilence ==
    {[running |-> submitted, attached |-> FALSE, progress |-> FALSE,
      errors |-> 0, underruns |-> 0] : submitted \in BOOLEAN}

Invalidated(c) == [c EXCEPT !.stable = FALSE]           \* ClockManager::invalidate
Remaining(t, d) == IF t > d THEN t - d ELSE 0

----------------------------------------------------------------------------
Init ==
    /\ pc = "poll"
    /\ app = Dispatch("BootSafe", "Initialize")
    /\ active = DefaultRate /\ desired = DefaultRate
    /\ step = "None" /\ timer = 0 /\ underrunBaseline = 0
    /\ mounted = FALSE /\ streamRequested = FALSE /\ resumePending = FALSE
    /\ bootArm = 0 /\ updArm = 0 /\ stopReason = "None"
    /\ relay = FALSE
    /\ clk = [selected |-> DefaultRate, stable |-> FALSE]
    /\ dac = [state |-> "Starting", muted |-> TRUE]
    /\ engine = [running |-> FALSE, attached |-> FALSE, progress |-> FALSE,
                 errors |-> 0, underruns |-> 0]
    /\ fill = 0 /\ feedback = DefaultRate
    /\ usbReady = FALSE /\ queue = <<>> /\ lost = {}
    /\ requestedRate = DefaultRate /\ hostMuted = TRUE /\ clockValid = FALSE
    /\ link = "detached" /\ alt = 0

----------------------------------------------------------------------------
(* safe_stop, begin_start and enter_connected_idle. Each sets every        *)
(* variable of its frame; d is the DAC as the caller left it.              *)

(* Mutant of SafeStop: the staged start goes on. *)
SafeStopKeepsStep(d, fault, reason) ==
    /\ stopReason' = reason
    /\ relay' = FALSE
    /\ dac' \in SetMute(d, TRUE)
    /\ engine' = EngineStop(engine)
    /\ fill' = 0
    /\ feedback' = active
    /\ clk' = Invalidated(clk)
    /\ resumePending' = FALSE
    /\ clockValid' = FALSE
    /\ app' = IF fault THEN Dispatch(app, "Fault")
              ELSE Dispatch(Dispatch(app, "StopRequested"), "Stopped")
    /\ UNCHANGED <<step, timer, underrunBaseline>>

SafeStop(d, fault, reason) ==
    /\ stopReason' = IF reason # "None" /\ (fault \/ app # "FaultMuted")
                     THEN reason ELSE stopReason
    /\ relay' = FALSE
    /\ dac' \in SetMute(d, TRUE)
    /\ engine' = EngineStop(engine)
    /\ fill' = 0
    /\ feedback' = active
    /\ clk' = Invalidated(clk)
    /\ step' = "None"
    /\ resumePending' = FALSE
    /\ clockValid' = FALSE
    /\ app' = IF fault THEN Dispatch(app, "Fault")
              ELSE Dispatch(Dispatch(app, "StopRequested"), "Stopped")
    /\ UNCHANGED <<timer, underrunBaseline>>

(* What the mutants of BeginStart below have in common with it. *)
StartAgain ==
    /\ dac' \in SetMute(dac, TRUE)
    /\ engine' = EngineStop(engine)
    /\ fill' = 0
    /\ clk' = Invalidated(clk)
    /\ app' = IF app = "Playing" THEN "SwitchingRate"
              ELSE IF app \in {"FaultMuted", "IdleMuted"} THEN "PreparingStream" ELSE app
    /\ step' = "RelayRelease"
    /\ UNCHANGED <<underrunBaseline, stopReason>>

(* Mutant: the host still reads a valid clock. *)
BeginStartClockValid ==
    /\ StartAgain /\ relay' = FALSE /\ resumePending' = FALSE /\ timer' = RelayRelease
    /\ UNCHANGED clockValid

(* Mutant: a pending resume survives the restart. *)
BeginStartKeepsResume ==
    /\ StartAgain /\ relay' = FALSE /\ clockValid' = FALSE /\ timer' = RelayRelease
    /\ UNCHANGED resumePending

(* Mutant: the deadline of the stage before is kept. *)
BeginStartKeepsDeadline ==
    /\ StartAgain /\ relay' = FALSE /\ clockValid' = FALSE /\ resumePending' = FALSE
    /\ UNCHANGED timer

BeginStart ==
    /\ relay' = FALSE
    /\ dac' \in SetMute(dac, TRUE)
    /\ engine' = EngineStop(engine)
    /\ fill' = 0
    /\ clockValid' = FALSE
    /\ clk' = Invalidated(clk)
    /\ resumePending' = FALSE
    /\ app' = CASE app = "FaultMuted" -> Dispatch(Dispatch(app, "ClearFault"), "StreamRequested")
                [] app = "Playing"    -> Dispatch(app, "RateRequested")
                [] app = "IdleMuted"  -> Dispatch(app, "StreamRequested")
                [] OTHER              -> app
    /\ step' = "RelayRelease"
    /\ timer' = RelayRelease
    /\ UNCHANGED <<underrunBaseline, stopReason>>

(* Mutant of EnterConnectedIdle: the ring stays attached to the engine. *)
ConnectedIdleAttached ==
    /\ fill' = 0
    /\ clockValid' = TRUE
    /\ underrunBaseline' = engine.underruns
    /\ resumePending' = FALSE
    /\ stopReason' = "HostStop"
    /\ UNCHANGED <<relay, dac, clk, engine, feedback, step, timer, app>>

EnterConnectedIdle ==
    /\ engine' = [engine EXCEPT !.attached = FALSE]
    /\ fill' = 0
    /\ clockValid' = TRUE
    /\ underrunBaseline' = engine.underruns
    /\ resumePending' = FALSE
    /\ stopReason' = "HostStop"
    /\ UNCHANGED <<relay, dac, clk, feedback, step, timer, app>>

(* What those three set, for the handlers that call none of them. *)
OutputUnchanged ==
    UNCHANGED <<relay, dac, clk, step, timer, app, engine, fill, clockValid,
                underrunBaseline, resumePending, stopReason>>

----------------------------------------------------------------------------
(* "poll": one reading of the clock, then the DAC bootstrap and USB. *)

(* Mutant of Elapse: an armed request never expires. *)
ElapseKeepsArmed(d) == UNCHANGED <<bootArm, updArm>>

Elapse(d) ==
    /\ bootArm' = Remaining(bootArm, d)
    /\ updArm' = Remaining(updArm, d)

Poll(d) ==
    /\ pc = "poll"
    /\ Elapse(d)
    /\ \E dac2 \in DacPoll(dac) :
        /\ usbReady \/ dac2.state # "Ready"
        /\ dac' = dac2
    /\ timer' = Remaining(timer, d)
    /\ pc' = IF usbReady THEN "task" ELSE "resume"
    /\ UNCHANGED <<app, active, desired, step, underrunBaseline, mounted, streamRequested,
                   resumePending, stopReason, relay, clk, engine, fill, feedback, usbVars, hostVars>>

(* The first pass that finds the DAC ready initializes USB (lines 280-286); *)
(* a failure is a fault and is tried again on the next pass.                *)
InitUsb(d) ==
    /\ pc = "poll" /\ ~usbReady
    /\ Elapse(d)
    /\ active' = DefaultRate /\ desired' = DefaultRate
    /\ requestedRate' = DefaultRate
    /\ \E dac2 \in DacPoll(dac) :
        /\ dac2.state = "Ready"
        /\ \/ /\ usbReady' = TRUE
              /\ app' = Dispatch(app, "Initialized")
              /\ dac' = dac2
              /\ pc' = "task"
              /\ feedback' = DefaultRate
              /\ UNCHANGED <<relay, clk, step, timer, engine, fill, clockValid,
                             underrunBaseline, resumePending, stopReason>>
           \/ /\ SafeStop(dac2, TRUE, "StartFault")
              /\ pc' = "resume"
              /\ UNCHANGED usbReady
    /\ UNCHANGED <<mounted, streamRequested, queue, lost, hostMuted, hostVars>>

----------------------------------------------------------------------------
(* "task": the host's requests reach the TinyUSB callbacks. A callback     *)
(* records the request and queues an event; the queue drops what exceeds   *)
(* its capacity. No code reads `lost`, the kinds of request whose last one *)
(* was dropped; the next of the kind that finds room supersedes it.        *)

Event(ev, rate) == [ev |-> ev, rate |-> rate]

MuteEvents == {"Mute", "Unmute"}
RateEvents == {"Rate"}
AltEvents  == {"Start", "Stop", "Detached"}
LinkEvents == {"Mounted", "Detached", "Suspended", "Resumed"}
Kinds      == {MuteEvents, RateEvents, AltEvents, LinkEvents}

(* Mutant of PostEvent: a full queue loses its oldest event instead. *)
PostEventOverwrites(e) ==
    /\ lost' = {K \in lost : e.ev \notin K}
    /\ queue' = Append(IF Len(queue) = QueueCap THEN Tail(queue) ELSE queue, e)

PostEvent(e) ==
    IF Len(queue) = QueueCap
    THEN lost' = lost \cup {K \in Kinds : e.ev \in K} /\ UNCHANGED queue
    ELSE lost' = {K \in lost : e.ev \notin K} /\ queue' = Append(queue, e)

InTask(op) ==
    /\ pc = "task" /\ op \in HostOps
    /\ Len(queue) < QueueCap \/ "Overflow" \in HostOps
    /\ UNCHANGED <<pc, runtimeVars, hwVars, usbReady, clockValid>>

Mount ==                                             \* tud_mount_cb
    /\ InTask("Mount") /\ link = "detached"
    /\ link' = "configured" /\ alt' = 0
    /\ PostEvent(Event("Mounted", NoRate))
    /\ UNCHANGED <<requestedRate, hostMuted>>

Unmount ==                                           \* tud_umount_cb
    /\ InTask("Unmount") /\ link # "detached"
    /\ link' = "detached" /\ alt' = 0
    /\ PostEvent(Event("Detached", NoRate))
    /\ UNCHANGED <<requestedRate, hostMuted>>

Suspend ==                                           \* tud_suspend_cb
    /\ InTask("Suspend") /\ link = "configured"
    /\ link' = "suspended"
    /\ PostEvent(Event("Suspended", NoRate))
    /\ UNCHANGED <<alt, requestedRate, hostMuted>>

Resume ==                                            \* tud_resume_cb
    /\ InTask("Suspend") /\ link = "suspended"
    /\ link' = "configured"
    /\ PostEvent(Event("Resumed", NoRate))
    /\ UNCHANGED <<alt, requestedRate, hostMuted>>

SetInterface(a) ==                                   \* tud_audio_set_itf_cb
    /\ InTask("Stream") /\ link = "configured"
    /\ alt' = a
    /\ PostEvent(Event(IF a = 0 THEN "Stop" ELSE "Start", NoRate))
    /\ UNCHANGED <<link, requestedRate, hostMuted>>

CloseEndpoint ==                                     \* tud_audio_set_itf_close_ep_cb
    /\ InTask("Stream") /\ link = "configured" /\ alt = 1
    /\ alt' = 0
    /\ PostEvent(Event("Stop", NoRate))
    /\ UNCHANGED <<link, requestedRate, hostMuted>>

SetRate(r) ==                                        \* SET_CUR, clock entity
    /\ InTask("Rate") /\ link = "configured"
    /\ requestedRate' = r
    /\ PostEvent(Event("Rate", r))
    /\ UNCHANGED <<hostVars, hostMuted>>

SetMuteControl(m) ==                                 \* SET_CUR, mute
    /\ InTask("Mute") /\ link = "configured"
    /\ hostMuted' = m
    /\ PostEvent(Event(IF m THEN "Mute" ELSE "Unmute", NoRate))
    /\ UNCHANGED <<hostVars, requestedRate>>

SetVolume ==                                         \* SET_CUR, volume
    /\ InTask("Volume") /\ link = "configured"
    /\ PostEvent(Event("Volume", NoRate))
    /\ UNCHANGED <<hostVars, requestedRate, hostMuted>>

RequestMaintenance(arm) ==                           \* tud_hid_set_report_cb
    /\ InTask(arm) /\ link = "configured"
    /\ PostEvent(Event(arm, NoRate))
    /\ UNCHANGED <<hostVars, requestedRate, hostMuted>>

TaskDone ==
    /\ pc = "task" /\ pc' = "drain"
    /\ UNCHANGED <<runtimeVars, hwVars, usbVars, hostVars>>

HostStep ==
    \/ Mount \/ Unmount \/ Suspend \/ Resume
    \/ \E a \in {0, 1} : SetInterface(a)
    \/ CloseEndpoint
    \/ \E r \in Rates : SetRate(r)
    \/ \E m \in BOOLEAN : SetMuteControl(m)
    \/ SetVolume
    \/ \E arm \in {"BootloaderArm", "UpdaterArm"} : RequestMaintenance(arm)

----------------------------------------------------------------------------
(* "drain": one case of the event switch per action. *)

Take(ev) ==
    /\ pc = "drain" /\ queue # <<>>
    /\ Head(queue).ev = ev
    /\ queue' = Tail(queue)
    /\ UNCHANGED <<usbReady, lost, requestedRate, hostMuted, hostVars>>

HandleMounted ==
    /\ Take("Mounted")
    /\ mounted' = TRUE
    /\ OutputUnchanged
    /\ UNCHANGED <<pc, active, desired, feedback, streamRequested, bootArm, updArm>>

(* The stream resumes on the settled path if nothing about it changed since *)
(* the pause, and is started from the relay up otherwise.                   *)
CanResume(rate) ==
    /\ app = "Playing" /\ engine.running /\ relay /\ ~dac.muted
    /\ clk.stable /\ active = rate

HandleStart ==
    /\ Take("Start")
    /\ streamRequested' = TRUE
    /\ desired' = requestedRate
    /\ IF CanResume(desired')
       THEN /\ clockValid' = TRUE /\ resumePending' = TRUE
            /\ UNCHANGED <<relay, dac, clk, step, timer, app, engine, fill,
                           underrunBaseline, stopReason>>
       ELSE BeginStart
    /\ UNCHANGED <<pc, active, feedback, mounted, bootArm, updArm>>

(* Mutant of HandleRate: only a playing stream is restarted. *)
HandleRateWhilePlaying ==
    /\ Take("Rate")
    /\ desired' = Head(queue).rate /\ feedback' = desired'
    /\ IF app = "Playing" /\ streamRequested /\ desired' # active THEN BeginStart ELSE OutputUnchanged
    /\ UNCHANGED <<pc, active, mounted, streamRequested, bootArm, updArm>>

HandleRate ==
    /\ Take("Rate")
    /\ desired' = Head(queue).rate /\ feedback' = desired'
    /\ IF streamRequested /\ desired' # active THEN BeginStart ELSE OutputUnchanged
    /\ UNCHANGED <<pc, active, mounted, streamRequested, bootArm, updArm>>

HandleVolume ==
    /\ Take("Volume")
    /\ \/ dac.state = "Ready" /\ OutputUnchanged /\ UNCHANGED feedback
       \/ SafeStop(DacFaulted, TRUE, "StartFault")
    /\ UNCHANGED <<pc, active, desired, mounted, streamRequested, bootArm, updArm>>

(* Mutant of HandleMute: the DAC is muted and the relay left alone. *)
HandleMuteDacOnly ==
    /\ Take("Mute")
    /\ dac' \in SetMute(dac, TRUE)
    /\ UNCHANGED <<relay, clk, step, timer, app, engine, fill, feedback, clockValid,
                   underrunBaseline, resumePending, stopReason>>
    /\ UNCHANGED <<pc, active, desired, mounted, streamRequested, bootArm, updArm>>

HandleMute ==
    /\ Take("Mute")
    /\ relay' = FALSE
    /\ dac' \in SetMute(dac, TRUE)
    /\ UNCHANGED <<clk, step, timer, app, engine, fill, feedback, clockValid,
                   underrunBaseline, resumePending, stopReason>>
    /\ UNCHANGED <<pc, active, desired, mounted, streamRequested, bootArm, updArm>>

HandleUnmute ==
    /\ Take("Unmute")
    /\ IF streamRequested THEN BeginStart ELSE OutputUnchanged
    /\ UNCHANGED <<pc, active, desired, feedback, mounted, streamRequested, bootArm, updArm>>

HandleStop ==
    /\ Take("Stop")
    /\ streamRequested' = FALSE
    /\ IF mounted /\ app = "Playing" /\ engine.running /\ relay /\ ~dac.muted
       THEN EnterConnectedIdle
       ELSE SafeStop(dac, FALSE, "HostStop")
    /\ UNCHANGED <<pc, active, desired, mounted, bootArm, updArm>>

HandleDetached ==
    /\ Take("Detached")
    /\ mounted' = FALSE /\ streamRequested' = FALSE
    /\ SafeStop(dac, FALSE, "HostStop")
    /\ UNCHANGED <<pc, active, desired, bootArm, updArm>>

HandleSuspended ==
    /\ Take("Suspended")
    /\ streamRequested' = FALSE
    /\ SafeStop(dac, FALSE, "HostStop")
    /\ UNCHANGED <<pc, active, desired, mounted, bootArm, updArm>>

HandleResumed ==                       \* only the suspended diagnostic flag
    /\ Take("Resumed")
    /\ OutputUnchanged
    /\ UNCHANGED <<pc, active, desired, feedback, mounted, streamRequested, bootArm, updArm>>

(* A first request opens the window, a second inside it makes the output    *)
(* safe and leaves the application for the ROM or for the update manager.   *)
HandleArm(ev, arm, exit) ==
    /\ Take(ev)
    /\ IF arm > 0
       THEN SafeStop(dac, FALSE, "None") /\ pc' = exit
       ELSE OutputUnchanged /\ UNCHANGED <<pc, feedback>>
    /\ UNCHANGED <<active, desired, mounted, streamRequested>>

HandleBootloaderArm ==
    /\ HandleArm("BootloaderArm", bootArm, "rom")
    /\ bootArm' = ArmWindow /\ UNCHANGED updArm

HandleUpdaterArm ==
    /\ HandleArm("UpdaterArm", updArm, "updater")
    /\ updArm' = ArmWindow /\ UNCHANGED bootArm

Drained ==
    /\ pc = "drain" /\ queue = <<>> /\ pc' = "resume"
    /\ UNCHANGED <<runtimeVars, hwVars, usbVars, hostVars>>

(* "resume": a paused stream rejoins once half the ring is full again. *)
AttachResumed ==
    /\ pc = "resume" /\ pc' = "start"
    /\ IF resumePending /\ streamRequested /\ fill >= HalfRing
       THEN /\ engine' = [engine EXCEPT !.attached = TRUE]
            /\ underrunBaseline' = engine.underruns
            /\ resumePending' = FALSE
       ELSE UNCHANGED <<engine, underrunBaseline, resumePending>>
    /\ UNCHANGED <<app, active, desired, step, timer, mounted, streamRequested, bootArm,
                   updArm, stopReason, relay, clk, dac, fill, feedback, usbVars, hostVars>>

----------------------------------------------------------------------------
(* "start": run_start, one action per stage and outcome. *)

StartAt(s) ==
    /\ pc = "start" /\ pc' = "checks" /\ step = s
    /\ UNCHANGED <<desired, mounted, streamRequested, bootArm, updArm,
                   usbReady, queue, lost, requestedRate, hostMuted, hostVars>>

Reached == timer = 0

(* What every stage that only moves on leaves alone. *)
StageKeeps == UNCHANGED <<active, relay, fill, feedback, resumePending, stopReason>>

SelectOscillator ==
    /\ StartAt("RelayRelease") /\ Reached
    /\ clk' = [selected |-> desired, stable |-> FALSE]
    /\ timer' = OscillatorSettle
    /\ step' = "ClockSettle"
    /\ StageKeeps
    /\ UNCHANGED <<app, dac, engine, clockValid, underrunBaseline>>

(* Mutant of StartEngine: the feedback is not set for the stream. *)
StartEngineOldFeedback ==
    /\ StartAt("ClockSettle") /\ Reached
    /\ dac.state = "Ready"
    /\ engine' \in {e \in StartSilence : e.running}
    /\ clk' = [clk EXCEPT !.stable = TRUE]
    /\ active' = desired
    /\ app' = IF app = "SwitchingRate" THEN Dispatch(app, "StreamRequested") ELSE app
    /\ timer' = DmaStartLimit
    /\ step' = "DmaProgress"
    /\ UNCHANGED <<relay, fill, feedback, resumePending, stopReason, dac, clockValid, underrunBaseline>>

(* Mutant of StartEngine: the application is left in SwitchingRate. *)
StartEngineStillSwitching ==
    /\ StartAt("ClockSettle") /\ Reached
    /\ dac.state = "Ready"
    /\ engine' \in {e \in StartSilence : e.running}
    /\ clk' = [clk EXCEPT !.stable = TRUE]
    /\ active' = desired /\ feedback' = desired
    /\ timer' = DmaStartLimit
    /\ step' = "DmaProgress"
    /\ UNCHANGED <<app, relay, fill, resumePending, stopReason, dac, clockValid, underrunBaseline>>

StartEngine ==
    /\ StartAt("ClockSettle") /\ Reached
    /\ dac.state = "Ready"
    /\ engine' \in {e \in StartSilence : e.running}
    /\ clk' = [clk EXCEPT !.stable = TRUE]
    /\ active' = desired /\ feedback' = desired
    /\ app' = IF app = "SwitchingRate" THEN Dispatch(app, "StreamRequested") ELSE app
    /\ timer' = DmaStartLimit
    /\ step' = "DmaProgress"
    /\ UNCHANGED <<relay, fill, resumePending, stopReason, dac, clockValid, underrunBaseline>>

(* configure_format refused or failed on the bus. *)
ConfigureFails ==
    /\ StartAt("ClockSettle") /\ Reached
    /\ SafeStop(IF dac.state = "Ready" THEN DacFaulted ELSE dac, TRUE, "StartFault")
    /\ UNCHANGED active

EngineStartFails ==
    /\ StartAt("ClockSettle") /\ Reached
    /\ dac.state = "Ready"
    /\ engine' \in {e \in StartSilence : ~e.running}
    /\ stopReason' = "StartFault"
    /\ dac' \in SetMute(dac, TRUE)
    /\ relay' = FALSE /\ fill' = 0 /\ feedback' = active
    /\ clk' = Invalidated(clk) /\ step' = "None"
    /\ resumePending' = FALSE /\ clockValid' = FALSE
    /\ app' = Dispatch(app, "Fault")
    /\ UNCHANGED <<active, timer, underrunBaseline>>

ConfirmDmaProgress ==
    /\ StartAt("DmaProgress") /\ engine.progress
    /\ clockValid' = TRUE
    /\ step' = "Prefill"
    /\ StageKeeps
    /\ UNCHANGED <<app, timer, underrunBaseline, clk, dac, engine>>

DmaNoProgress ==
    /\ StartAt("DmaProgress") /\ ~engine.progress /\ Reached
    /\ SafeStop(dac, TRUE, "StartFault")
    /\ UNCHANGED active

(* A start for a rate that is no longer wanted begins again; HandleRate and *)
(* HandleStart have always done so before, and the branch is never taken.   *)
JoinStream ==
    /\ StartAt("Prefill")
    /\ desired = active => fill >= HalfRing
    /\ IF desired # active THEN BeginStart
       ELSE /\ engine' = [engine EXCEPT !.attached = TRUE]
            /\ underrunBaseline' = engine.underruns
            /\ timer' = StableAudio
            /\ step' = "Stable"
            /\ UNCHANGED <<app, clk, dac, clockValid, relay, fill, resumePending, stopReason>>
    /\ UNCHANGED <<active, feedback>>

UnstableStream ==
    /\ StartAt("Stable") /\ engine.underruns # underrunBaseline
    /\ SafeStop(dac, TRUE, "Underrun")
    /\ UNCHANGED active

StableReached == StartAt("Stable") /\ engine.underruns = underrunBaseline /\ Reached

HeldMuted ==
    /\ StableReached /\ hostMuted
    /\ SafeStop(dac, FALSE, "HostStop")
    /\ UNCHANGED active

(* Mutant of UnmuteDac: the mute of the host is not looked at. *)
UnmuteDacAnyway ==
    /\ StableReached
    /\ dac' \in {d \in SetMute(dac, FALSE) : d.state = "Ready"}
    /\ timer' = DacSettle
    /\ step' = "DacSettle"
    /\ StageKeeps
    /\ UNCHANGED <<app, clk, engine, clockValid, underrunBaseline>>

(* Mutant of UnmuteDac: the deadline is not moved. *)
UnmuteDacWithoutWait ==
    /\ StableReached /\ ~hostMuted
    /\ dac' \in {d \in SetMute(dac, FALSE) : d.state = "Ready"}
    /\ step' = "DacSettle"
    /\ StageKeeps
    /\ UNCHANGED <<app, timer, clk, engine, clockValid, underrunBaseline>>

UnmuteDac ==
    /\ StableReached /\ ~hostMuted
    /\ dac' \in {d \in SetMute(dac, FALSE) : d.state = "Ready"}
    /\ timer' = DacSettle
    /\ step' = "DacSettle"
    /\ StageKeeps
    /\ UNCHANGED <<app, clk, engine, clockValid, underrunBaseline>>

UnmuteFails ==
    /\ StableReached /\ ~hostMuted
    /\ SafeStop(IF dac.state = "Ready" THEN DacFaulted ELSE dac, TRUE, "StartFault")
    /\ UNCHANGED active

(* Mutant of OutputReady: the mute is not looked at. *)
OutputReadyIfMuted == clk.stable /\ engine.running /\ fill >= QuarterRing

(* The last look at everything before the relay closes (lines 167-168). *)
OutputReady == clk.stable /\ engine.running /\ ~dac.muted /\ fill >= QuarterRing

CloseRelay ==
    /\ StartAt("DacSettle") /\ Reached /\ OutputReady
    /\ app' = Dispatch(app, "AudioStable")
    /\ relay' = TRUE
    /\ step' = "Playing"
    /\ UNCHANGED <<active, fill, feedback, resumePending, stopReason, timer, underrunBaseline,
                   clk, dac, engine, clockValid>>

RefuseRelay ==
    /\ StartAt("DacSettle") /\ Reached /\ ~OutputReady
    /\ SafeStop(dac, TRUE, "StartFault")
    /\ UNCHANGED active

(* No stage is due. *)
StageWaits ==
    /\ \E s \in Steps : StartAt(s)
    /\ \/ step \in {"None", "Playing"}
       \/ step \in {"RelayRelease", "ClockSettle", "DacSettle"} /\ ~Reached
       \/ step = "DmaProgress" /\ ~engine.progress /\ ~Reached
       \/ step = "Prefill" /\ desired = active /\ fill < HalfRing
       \/ step = "Stable" /\ engine.underruns = underrunBaseline /\ ~Reached
    /\ OutputUnchanged /\ UNCHANGED <<active, feedback>>

(* "checks": the faults that end any state but the fault itself. *)
LeaveChecks ==
    /\ pc = "checks" /\ pc' = "poll"
    /\ UNCHANGED <<active, desired, mounted, streamRequested, bootArm, updArm,
                   usbReady, queue, lost, requestedRate, hostMuted, hostVars>>

Underrunning == engine.underruns > underrunBaseline + 2

DmaErrorFault ==
    /\ LeaveChecks
    /\ app # "FaultMuted" /\ engine.errors # 0
    /\ SafeStop(dac, TRUE, "DmaError")

UnderrunFault ==
    /\ LeaveChecks
    /\ app # "FaultMuted" /\ engine.errors = 0 /\ Underrunning
    /\ SafeStop(dac, TRUE, "Underrun")

NoFault ==
    /\ LeaveChecks
    /\ app = "FaultMuted" \/ (engine.errors = 0 /\ ~Underrunning)
    /\ OutputUnchanged /\ UNCHANGED feedback

----------------------------------------------------------------------------
(* The two interrupts. *)

InApplication == pc \notin {"rom", "updater"}

(* AudioEngine::on_dma_complete(true): the next transfer is taken from the *)
(* ring (an empty ring counts an underrun and plays zeroes) or is silence, *)
(* and submitting it may fail. A callback of a stopped engine is ignored.  *)
DmaComplete ==
    /\ InApplication /\ engine.running
    /\ engine.attached /\ fill = 0 => engine.underruns < MaxUnderruns
    /\ fill' = IF engine.attached /\ fill > 0 THEN fill - 1 ELSE fill
    /\ \E submitted \in BOOLEAN :
        engine' = [engine EXCEPT
            !.progress = TRUE,
            !.underruns = IF engine.attached /\ fill = 0 THEN @ + 1 ELSE @,
            !.running = submitted,
            !.errors = IF submitted THEN @ ELSE @ + 1]
    /\ UNCHANGED <<pc, runtimeVars, relay, clk, dac, feedback, usbVars, hostVars>>

(* Mutant of DmaFails: the error is not counted. *)
DmaFailsUncounted ==
    /\ InApplication /\ engine.running
    /\ engine' = [engine EXCEPT !.running = FALSE]
    /\ UNCHANGED <<pc, runtimeVars, relay, clk, dac, fill, feedback, usbVars, hostVars>>

(* on_dma_complete(false). *)
DmaFails ==
    /\ InApplication /\ engine.running
    /\ engine' = [engine EXCEPT !.running = FALSE, !.errors = @ + 1]
    /\ UNCHANGED <<pc, runtimeVars, relay, clk, dac, fill, feedback, usbVars, hostVars>>

(* Mutant of ReceiveAudio: the free space is not checked. *)
ReceiveAudioUnchecked ==
    /\ InApplication /\ link = "configured" /\ alt = 1
    /\ fill' = fill + 1
    /\ UNCHANGED <<pc, runtimeVars, relay, clk, dac, engine, feedback, usbVars, hostVars>>

(* tud_audio_rx_done_isr pushes what the streaming host sends; packets that *)
(* do not fit are dropped whole and change nothing here.                    *)
ReceiveAudio ==
    /\ InApplication /\ link = "configured" /\ alt = 1
    /\ fill < RingUnits
    /\ fill' = fill + 1
    /\ UNCHANGED <<pc, runtimeVars, relay, clk, dac, engine, feedback, usbVars, hostVars>>

----------------------------------------------------------------------------
PollStep(d) == Poll(d) \/ InitUsb(d)

DrainStep ==
    \/ HandleMounted \/ HandleStart \/ HandleRate \/ HandleVolume \/ HandleMute
    \/ HandleUnmute \/ HandleStop \/ HandleDetached \/ HandleSuspended \/ HandleResumed
    \/ HandleBootloaderArm \/ HandleUpdaterArm \/ Drained

StartStep ==
    \/ SelectOscillator \/ StartEngine \/ ConfigureFails \/ EngineStartFails
    \/ ConfirmDmaProgress \/ DmaNoProgress \/ JoinStream
    \/ UnstableStream \/ HeldMuted \/ UnmuteDac \/ UnmuteFails \/ CloseRelay
    \/ RefuseRelay \/ StageWaits

CheckStep == DmaErrorFault \/ UnderrunFault \/ NoFault

BodyStep == TaskDone \/ DrainStep \/ AttachResumed \/ StartStep \/ CheckStep

LoopStep == (\E d \in 0..MaxElapsed : PollStep(d)) \/ BodyStep

InterruptStep == DmaComplete \/ DmaFails \/ ReceiveAudio

(* The ROM downloader and the update manager are the end of this program. *)
Gone == ~InApplication /\ UNCHANGED vars

Next == HostStep \/ LoopStep \/ InterruptStep \/ Gone

Spec == Init /\ [][Next]_vars

(* The loop never blocks (wfi returns at the next SysTick at the latest),  *)
(* time passes, and a host that has selected the stream keeps sending.     *)
Fairness ==
    /\ WF_vars(LoopStep)
    /\ SF_vars(\E d \in 1..MaxElapsed : PollStep(d))
    /\ WF_vars(ReceiveAudio)

LiveSpec == Spec /\ Fairness

----------------------------------------------------------------------------
(* What must hold. *)

EventRecords ==
    [ev : Events \ {"Rate"}, rate : {NoRate}] \cup [ev : {"Rate"}, rate : Rates]

(* Every variable keeps its type; the queue stays within its array. *)
TypeOK ==
    /\ pc \in {"poll", "task", "drain", "resume", "start", "checks", "rom", "updater"}
    /\ app \in AppStates
    /\ active \in Rates /\ desired \in Rates
    /\ step \in Steps /\ timer \in Nat /\ underrunBaseline \in Nat
    /\ mounted \in BOOLEAN /\ streamRequested \in BOOLEAN /\ resumePending \in BOOLEAN
    /\ bootArm \in Nat /\ updArm \in Nat
    /\ stopReason \in StopReasons
    /\ relay \in BOOLEAN
    /\ clk \in [selected : Rates, stable : BOOLEAN]
    /\ dac \in [state : {"Starting", "Ready", "Fault"}, muted : BOOLEAN]
    /\ engine \in [running : BOOLEAN, attached : BOOLEAN, progress : BOOLEAN,
                   errors : Nat, underruns : Nat]
    /\ fill \in 0..RingUnits /\ feedback \in Rates
    /\ usbReady \in BOOLEAN /\ lost \subseteq Kinds
    /\ queue \in Seq(EventRecords) /\ Len(queue) <= QueueCap
    /\ requestedRate \in Rates /\ hostMuted \in BOOLEAN /\ clockValid \in BOOLEAN
    /\ link \in {"detached", "configured", "suspended"} /\ alt \in {0, 1}

EarlySteps == {"RelayRelease", "ClockSettle"}
LateSteps  == {"DmaProgress", "Prefill", "Stable", "DacSettle"}

(* The relay is closed only on the settled, unmuted path of a playing        *)
(* application whose oscillator is stable, whatever the host and the DMA     *)
(* interrupt do in between (usb-interface.md "Runtime safety behavior").     *)
RelaySafe ==
    relay => /\ app = "Playing" /\ step = "Playing"
             /\ dac.state = "Ready" /\ ~dac.muted
             /\ clk.stable
             /\ engine.running \/ engine.errors > 0

(* The host reads "clock valid" only while the selected oscillator is        *)
(* settled and the engine has shown progress on it (usb clock_valid_).       *)
ClockValidIsTrue ==
    clockValid => clk.stable /\ step \in {"Prefill", "Stable", "DacSettle", "Playing"}

(* Host audio reaches the DMA only after half the ring was prefilled, and    *)
(* never while a start is still before that point.                           *)
RingReadOnlyWhenJoined ==
    engine.running /\ engine.attached => step \in {"Stable", "DacSettle", "Playing"}

(* A fault leaves the relay open, the DAC muted, the engine and the staged   *)
(* start stopped and the clock invalid until a new start clears it.          *)
FaultIsQuiet ==
    app = "FaultMuted" =>
        ~relay /\ dac.muted /\ ~engine.running /\ step = "None" /\ ~clockValid

(* The application state and the staged start never drift apart, except that *)
(* SwitchingRate outlives a stop that interrupts a rate change.              *)
AppMatchesStep ==
    /\ step = "Playing" <=> app = "Playing"
    /\ step \in LateSteps => app = "PreparingStream"
    /\ step \in EarlySteps => app \in {"PreparingStream", "SwitchingRate"}
    /\ app = "PreparingStream" => step # "None"

(* Past the drain every queued request has been acted on. *)
AfterDrain == pc \in {"resume", "start", "checks", "poll"}

(* A host that stopped streaming is not heard any more, and a cable pulled   *)
(* or a suspended bus leaves the relay open and the engine stopped, by the   *)
(* end of the same pass of the loop, unless just that request found the      *)
(* queue full: losses before it do no harm that it does not mend.            *)
HostStopHonoured ==
    AfterDrain =>
        /\ alt = 0 /\ AltEvents \notin lost => ~(engine.running /\ engine.attached)
        /\ link # "configured" /\ LinkEvents \notin lost => ~relay /\ ~engine.running

(* Repeated rate requests collapse to the latest one that was not lost, in   *)
(* whatever order they are queued with the stream being opened, and no stage *)
(* past the prefill goes on with another rate than the loop then wants       *)
(* (usb-interface.md:37-38).                                                 *)
LatestRateWins ==
    AfterDrain =>
        /\ RateEvents \notin lost => desired = requestedRate
        /\ streamRequested /\ step \in {"Stable", "DacSettle", "Playing"} => active = desired

(* A host that streams is paced for the rate the engine runs at, whatever    *)
(* rates it asked for before, during and between the streams: the controller *)
(* is reset by every rate request, start and stop, not always for that rate. *)
FeedbackMatchesStream ==
    AfterDrain /\ RateEvents \notin lost /\ streamRequested
        /\ step \in LateSteps \cup {"Playing"} => feedback = active

(* A host that muted is not heard from the end of the pass that took the     *)
(* request on, in whatever stage the start was and however often the host    *)
(* changes its mind (usb-interface.md:26-28, main.cpp:326).                  *)
HostMuteHonoured ==
    AfterDrain /\ MuteEvents \notin lost /\ hostMuted => ~relay /\ dac.muted

(* The path to the output keeps the order OutputPath promises. *)
Path == INSTANCE OutputPath WITH
    Families <- Rates, DefaultFamily <- DefaultRate,
    connected <- relay, oscillator <- clk.selected, settled <- clk.stable,
    unmuted <- ~dac.muted
ImplementsOutputPath == Path!Spec

(* A connected output does not stay on broken audio: a stopped engine opens  *)
(* the relay, and repeated underruns do unless the host stops or rejoins the *)
(* stream in the same pass, which counts them afresh.                        *)
BrokenAudioEnds ==
    relay /\ (~engine.running \/ Underrunning) ~> ~relay \/ (engine.running /\ ~Underrunning)

(* A start ends in playback or in no start at all, unless the host never     *)
(* stops asking: with the host silent and streaming no stage waits forever.  *)
StartSettles ==
    []<><<HostStep>>_vars \/ <>[](step \in {"None", "Playing"})

(* The strengthening that makes the properties above inductive: what holds   *)
(* of the devices at each stage, and what an uninitialized USB rules out.    *)
StageInv ==
    /\ step \notin {"DacSettle", "Playing"} => dac.muted
    /\ dac.state # "Ready" => dac.muted
    /\ step \in LateSteps \cup {"Playing"} => clk.stable /\ (engine.running \/ engine.errors > 0)
    /\ step \in EarlySteps \cup {"None"} => ~engine.running
    /\ app \notin {"BootSafe", "Stopping"}
    /\ resumePending => step = "Playing"

StartupInv ==
    /\ usbReady => dac.state # "Starting" /\ app # "Initializing"
    /\ ~usbReady => /\ step = "None" /\ app \in {"Initializing", "FaultMuted"}
                   /\ pc \in {"poll", "resume", "start", "checks"}
                   /\ ~streamRequested /\ ~resumePending

IInv ==
    /\ TypeOK
    /\ AppMatchesStep /\ RelaySafe /\ ClockValidIsTrue
    /\ RingReadOnlyWhenJoined /\ FaultIsQuiet
    /\ StageInv /\ StartupInv

----------------------------------------------------------------------------
(* What the documentation says and the code does not do. *)

(* usb-interface.md:37-38: a rate change runs the complete stop/start        *)
(* sequence, so the path that is connected runs on the oscillator of its     *)
(* rate.                                                                     *)
OscillatorMatchesRate == relay => clk.selected = active

(* usb-interface.md:41-42: after a fault a fresh complete start reconnects   *)
(* the output. An error already reported must not fault the start that       *)
(* follows it before that start has run the engine.                          *)
FreshStartNotRefused ==
    [][pc = "checks" /\ step \in EarlySteps /\ dac.state = "Ready" /\ stopReason = "DmaError"
       => app' # "FaultMuted"]_vars
=============================================================================
