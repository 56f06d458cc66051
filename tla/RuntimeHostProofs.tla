------------------------- MODULE RuntimeHostProofs --------------------------
(***************************************************************************)
(* What the host asked for, and when the loop has done it. A callback      *)
(* changes what the host last said at once and queues an event for the     *)
(* loop; until the event is handled the loop and the host disagree. The    *)
(* invariant HostInv says what the last queued event of each kind will     *)
(* make true, and what holds when none is queued; at the end of a pass     *)
(* the queue is empty. It says so for the kinds of request whose last one  *)
(* the full queue did not drop, whatever was dropped before.               *)
(***************************************************************************)
EXTENDS RuntimeProofs, SequenceTheorems

(* No event of kind K is queued behind the first i; x is the last of them. *)
NoneAfter(K, i) == \A j \in 1..Len(queue) : j > i => queue[j].ev \notin K
NoneOf(K)       == \A j \in 1..Len(queue) : queue[j].ev \notin K
LastOf(K, x)    == \E i \in 1..Len(queue) : queue[i] = x /\ x.ev \in K /\ NoneAfter(K, i)

JoinedSteps == LateSteps \cup {"Playing"}

(* Only the host's requests wait in the queue, and only until the drain.   *)
QueueInv == AfterDrain => queue = <<>>

(* A stream that is wanted never gets past its start with another rate     *)
(* than the wanted one, and a start is only under way for a wanted stream. *)
StreamInv ==
    /\ streamRequested /\ step \in JoinedSteps => active = desired
    /\ ~streamRequested => step \in {"None", "Playing"}

RateInv ==
    RateEvents \notin lost =>
        /\ \A x : LastOf(RateEvents, x) => x.rate = requestedRate
        /\ NoneOf(RateEvents) => /\ desired = requestedRate
                                 /\ step \in JoinedSteps => feedback = desired

MuteInv ==
    MuteEvents \notin lost =>
        /\ \A x : LastOf(MuteEvents, x) => (x.ev = "Mute" <=> hostMuted)
        /\ NoneOf(MuteEvents) /\ hostMuted => ~relay /\ dac.muted

AltInv ==
    /\ link = "detached" => alt = 0
    /\ AltEvents \notin lost =>
        /\ \A x : LastOf(AltEvents, x) => (x.ev = "Start" <=> alt = 1)
        /\ NoneOf(AltEvents) /\ alt = 0 =>
              ~streamRequested /\ ~(engine.running /\ engine.attached)

Quiet == ~streamRequested /\ step = "None" /\ ~relay /\ ~engine.running

(* A host that left or suspended the bus says nothing until it is back.    *)
LinkInv ==
    LinkEvents \notin lost /\ link # "configured" =>
        IF queue = <<>> THEN Quiet
        ELSE queue[Len(queue)].ev \in {"Detached", "Suspended"}

HostInv == QueueInv /\ StreamInv /\ RateInv /\ MuteInv /\ AltInv /\ LinkInv

----------------------------------------------------------------------------
(* The queue, as these definitions see it. *)

LEMMA AppendedEvents ==
    ASSUME LoopType, NEW e \in EventRecords, queue' = Append(queue, e), NEW K
    PROVE  /\ e.ev \in K => ~NoneOf(K)' /\ \A x : LastOf(K, x)' => x = e
           /\ e.ev \notin K => /\ NoneOf(K)' => NoneOf(K)
                               /\ \A x : LastOf(K, x)' => LastOf(K, x)
           /\ queue' # <<>> /\ queue'[Len(queue')] = e
<1>1. /\ queue \in Seq(EventRecords) /\ Len(queue) \in Nat /\ Len(queue') = Len(queue) + 1
      /\ queue'[Len(queue) + 1] = e
      /\ \A i \in 1..Len(queue) : queue'[i] = queue[i]
  BY DEF LoopType
<1>2. queue' # <<>> /\ queue'[Len(queue')] = e
  BY <1>1
<1>3. 1..Len(queue) \subseteq 1..Len(queue') /\ Len(queue') \in 1..Len(queue')
      /\ \A i \in 1..Len(queue') : i = Len(queue') \/ (i \in 1..Len(queue) /\ Len(queue') > i)
  BY <1>1
<1>4. ASSUME e.ev \in K PROVE ~NoneOf(K)' /\ \A x : LastOf(K, x)' => x = e
  BY <1>2, <1>3, <1>4 DEF NoneOf, LastOf, NoneAfter
<1>5. ASSUME e.ev \notin K
      PROVE  (NoneOf(K)' => NoneOf(K)) /\ \A x : LastOf(K, x)' => LastOf(K, x)
  BY <1>1, <1>2, <1>3, <1>5 DEF NoneOf, LastOf, NoneAfter
<1> QED
  BY <1>2, <1>4, <1>5

LEMMA TakenEvents ==
    ASSUME LoopType, queue # <<>>, queue' = Tail(queue), NEW K
    PROVE  /\ \A x : LastOf(K, x)' => LastOf(K, x)
           /\ NoneOf(K)' /\ Head(queue).ev \in K => LastOf(K, Head(queue))
           /\ NoneOf(K)' /\ Head(queue).ev \notin K => NoneOf(K)
           /\ queue' = <<>> => Head(queue) = queue[Len(queue)]
           /\ queue' # <<>> => queue'[Len(queue')] = queue[Len(queue)]
<1>1. /\ queue \in Seq(EventRecords) /\ Len(queue) \in Nat \ {0} /\ Len(queue') = Len(queue) - 1
      /\ Head(queue) = queue[1]
      /\ \A i \in 1..(Len(queue) - 1) : queue'[i] = queue[i + 1]
  BY DEF LoopType
<1>2. ASSUME NEW x, LastOf(K, x)' PROVE LastOf(K, x)
  <2>1. PICK i \in 1..Len(queue') : queue'[i] = x /\ x.ev \in K /\ NoneAfter(K, i)'
    BY <1>2 DEF LastOf
  <2>2. i + 1 \in 1..Len(queue) /\ queue[i + 1] = x
    BY <1>1, <2>1
  <2>3. NoneAfter(K, i + 1)
    <3> SUFFICES ASSUME NEW j \in 1..Len(queue), j > i + 1 PROVE queue[j].ev \notin K
      BY DEF NoneAfter
    <3>1. j - 1 \in 1..(Len(queue) - 1) /\ j - 1 \in 1..Len(queue') /\ j - 1 > i /\ (j - 1) + 1 = j
      BY <1>1, <2>1
    <3> QED
      BY <1>1, <2>1, <3>1 DEF NoneAfter
  <2> QED
    BY <2>1, <2>2, <2>3 DEF LastOf
<1>3. ASSUME NoneOf(K)', NEW j \in 2..Len(queue) PROVE queue[j].ev \notin K
  <2>1. j - 1 \in 1..(Len(queue) - 1) /\ j - 1 \in 1..Len(queue') /\ (j - 1) + 1 = j
    BY <1>1
  <2> QED
    BY <1>1, <1>3, <2>1 DEF NoneOf
<1>4. ASSUME NoneOf(K)', Head(queue).ev \in K PROVE LastOf(K, Head(queue))
  <2>1. 1 \in 1..Len(queue) /\ \A j \in 1..Len(queue) : j > 1 => j \in 2..Len(queue)
    BY <1>1
  <2>2. NoneAfter(K, 1)
    BY <1>3, <1>4, <2>1 DEF NoneAfter
  <2> QED
    BY <1>1, <1>4, <2>1, <2>2 DEF LastOf
<1>5. ASSUME NoneOf(K)', Head(queue).ev \notin K PROVE NoneOf(K)
  <2>1. \A j \in 1..Len(queue) : j = 1 \/ j \in 2..Len(queue)
    BY <1>1
  <2> QED
    BY <1>1, <1>3, <1>5, <2>1 DEF NoneOf
<1>6. queue' = <<>> => Head(queue) = queue[Len(queue)]
  <2>1. queue' = <<>> => Len(queue') = 0
    OBVIOUS
  <2> QED
    BY <1>1, <2>1
<1>7. ASSUME queue' # <<>> PROVE queue'[Len(queue')] = queue[Len(queue)]
  <2>1. queue' \in Seq(EventRecords)
    BY <1>1
  <2>2. Len(queue') # 0
    BY <1>7, <2>1, EmptySeq
  <2>3. Len(queue') \in 1..(Len(queue) - 1) /\ Len(queue') + 1 = Len(queue)
    BY <1>1, <2>2
  <2> QED
    BY <1>1, <2>3
<1> QED
  BY <1>2, <1>4, <1>5, <1>6, <1>7

LEMMA SameEvents ==
    ASSUME queue' = queue, NEW K
    PROVE  (NoneOf(K)' <=> NoneOf(K)) /\ \A x : LastOf(K, x)' <=> LastOf(K, x)
BY DEF NoneOf, LastOf, NoneAfter

LEMMA EmptyQueue ==
    ASSUME queue = <<>>, NEW K
    PROVE  NoneOf(K) /\ \A x : ~LastOf(K, x)
BY DEF NoneOf, LastOf

----------------------------------------------------------------------------
(* The callbacks. *)

LEMMA CallbackFacts ==
    ASSUME HostStep
    PROVE  \E e \in EventRecords :
             /\ PostEvent(e) /\ pc = "task" /\ UNCHANGED <<pc, runtimeVars, hwVars>>
             /\ IF e.ev = "Rate" THEN e.rate = requestedRate' ELSE requestedRate' = requestedRate
             /\ IF e.ev \in MuteEvents THEN e.ev = "Mute" <=> hostMuted' ELSE hostMuted' = hostMuted
             /\ IF e.ev \in AltEvents THEN e.ev = "Start" <=> alt' = 1
                ELSE alt' = alt \/ (link = "detached" /\ alt' = 0)
             /\ link' # "configured" => e.ev \in {"Detached", "Suspended"}
             /\ link' = "detached" => alt' = 0
<1> DEFINE P(e) == 
             /\ PostEvent(e) /\ pc = "task" /\ UNCHANGED <<pc, runtimeVars, hwVars>>
             /\ IF e.ev = "Rate" THEN e.rate = requestedRate' ELSE requestedRate' = requestedRate
             /\ IF e.ev \in MuteEvents THEN e.ev = "Mute" <=> hostMuted' ELSE hostMuted' = hostMuted
             /\ IF e.ev \in AltEvents THEN e.ev = "Start" <=> alt' = 1
                ELSE alt' = alt \/ (link = "detached" /\ alt' = 0)
             /\ link' # "configured" => e.ev \in {"Detached", "Suspended"}
             /\ link' = "detached" => alt' = 0
<1> USE DEF InTask, Event, EventRecords, Events, MuteEvents, AltEvents, hostVars
<1>1. ASSUME Mount \/ Unmount \/ Suspend \/ Resume \/ CloseEndpoint \/ SetVolume
      PROVE  \E e \in EventRecords : P(e)
  BY <1>1 DEF Mount, Unmount, Suspend, Resume, CloseEndpoint, SetVolume
<1>2. ASSUME NEW a \in {0, 1}, SetInterface(a) PROVE \E e \in EventRecords : P(e)
  BY <1>2 DEF SetInterface
<1>3. ASSUME NEW r \in Rates, SetRate(r) PROVE \E e \in EventRecords : P(e)
  BY <1>3 DEF SetRate
<1>4. ASSUME NEW m \in BOOLEAN, SetMuteControl(m) PROVE \E e \in EventRecords : P(e)
  BY <1>4 DEF SetMuteControl
<1>5. ASSUME NEW arm \in {"BootloaderArm", "UpdaterArm"}, RequestMaintenance(arm)
      PROVE  \E e \in EventRecords : P(e)
  BY <1>5 DEF RequestMaintenance
<1> QED
  BY <1>1, <1>2, <1>3, <1>4, <1>5 DEF HostStep

LEMMA CallbackKeepsHost ==
    ASSUME IInv, HostInv, HostStep
    PROVE  HostInv'
<1>1. PICK e \in EventRecords :
             /\ PostEvent(e) /\ pc = "task" /\ UNCHANGED <<pc, runtimeVars, hwVars>>
             /\ IF e.ev = "Rate" THEN e.rate = requestedRate' ELSE requestedRate' = requestedRate
             /\ IF e.ev \in MuteEvents THEN e.ev = "Mute" <=> hostMuted' ELSE hostMuted' = hostMuted
             /\ IF e.ev \in AltEvents THEN e.ev = "Start" <=> alt' = 1
                ELSE alt' = alt \/ (link = "detached" /\ alt' = 0)
             /\ link' # "configured" => e.ev \in {"Detached", "Suspended"}
             /\ link' = "detached" => alt' = 0
  BY CallbackFacts
<1>2. /\ QueueInv /\ StreamInv /\ RateInv /\ MuteInv /\ AltInv /\ LinkInv /\ LoopType
      /\ UNCHANGED <<active, desired, step, streamRequested, relay, dac, engine, feedback>>
  BY <1>1, IInvSplit DEF HostInv, runtimeVars, hwVars
<1>3. QueueInv' /\ StreamInv' /\ (link' = "detached" => alt' = 0)
  BY <1>1, <1>2 DEF QueueInv, AfterDrain, StreamInv
<1>4. CASE Len(queue) = QueueCap
  <2>1. queue' = queue /\ \A K \in Kinds : K \notin lost' => K \notin lost /\ e.ev \notin K
    BY <1>1, <1>4 DEF PostEvent
  <2>2. \A K : (NoneOf(K)' <=> NoneOf(K)) /\ \A x : LastOf(K, x)' <=> LastOf(K, x)
    BY <2>1, SameEvents
  <2>3. RateInv'
    BY <1>1, <1>2, <2>1, <2>2 DEF RateInv, RateEvents, Kinds
  <2>4. MuteInv'
    BY <1>1, <1>2, <2>1, <2>2 DEF MuteInv, Kinds
  <2>5. AltInv'
    BY <1>1, <1>2, <1>3, <2>1, <2>2 DEF AltInv, Kinds
  <2>6. LinkInv'
    BY <1>1, <2>1 DEF LinkInv, LinkEvents, Kinds
  <2> QED
    BY <1>3, <2>3, <2>4, <2>5, <2>6 DEF HostInv
<1>5. CASE Len(queue) # QueueCap
  <2>1. queue' = Append(queue, e) /\ \A K : K \notin lost' => e.ev \in K \/ K \notin lost
    BY <1>1, <1>5 DEF PostEvent
  <2>2. ASSUME NEW K
        PROVE  /\ e.ev \in K => ~NoneOf(K)' /\ \A x : LastOf(K, x)' => x = e
               /\ e.ev \notin K => /\ NoneOf(K)' => NoneOf(K)
                                   /\ \A x : LastOf(K, x)' => LastOf(K, x)
    BY <1>2, <2>1, AppendedEvents
  <2>3. RateInv'
    BY <1>1, <1>2, <2>1, <2>2 DEF RateInv, RateEvents
  <2>4. MuteInv'
    BY <1>1, <1>2, <2>1, <2>2 DEF MuteInv
  <2>5. AltInv'
    BY <1>1, <1>2, <1>3, <2>1, <2>2 DEF AltInv
  <2>6. LinkInv'
    <3>1. queue' # <<>> /\ queue'[Len(queue')] = e
      BY <1>2, <2>1, AppendedEvents
    <3> QED
      BY <1>1, <3>1 DEF LinkInv
  <2> QED
    BY <1>3, <2>3, <2>4, <2>5, <2>6 DEF HostInv
<1> QED
  BY <1>4, <1>5

----------------------------------------------------------------------------
(* The handlers. *)

(* What handling h may do to the output and to what the loop wants: nothing *)
(* is ever switched on, and what the event asks to be switched off is off.  *)
Effect(h) ==
    /\ relay' => relay
    /\ dac.muted => dac'.muted
    /\ engine'.running => engine.running
    /\ engine'.running /\ engine'.attached => engine.attached
    /\ step' \in {step, "None", "RelayRelease"}
    /\ streamRequested' => streamRequested \/ h.ev = "Start"
    /\ h.ev = "Mute" => ~relay' /\ dac'.muted
    /\ h.ev \in {"Detached", "Suspended"} => Quiet'
    /\ h.ev \in {"Stop", "Detached"} => ~streamRequested' /\ ~(engine'.running /\ engine'.attached)
    /\ StreamInv'
    /\ desired' = IF h.ev = "Rate" THEN h.rate
                  ELSE IF h.ev = "Start" THEN requestedRate ELSE desired
    /\ step' \in JoinedSteps =>
          IF h.ev = "Rate" THEN feedback' = desired'
          ELSE feedback' = feedback /\ step \in JoinedSteps

LEMMA StopEffects ==
    ASSUME IInv, NEW d \in {dac, DacFaulted}, NEW fault, NEW reason, SafeStop(d, fault, reason)
    PROVE  /\ step' = "None" /\ ~relay' /\ dac'.muted /\ ~engine'.running
           /\ engine'.attached = engine.attached
<1>1. /\ dac \in DacStates /\ (dac.state # "Ready" => dac.muted) /\ engine \in EngineStates
  BY IInvSplit DEF OutInv, OutType, PathInv, StageInv
<1>2. d \in DacStates /\ (d.state # "Ready" => d.muted)
  <2>1. DacFaulted \in DacStates /\ DacFaulted.muted
    BY DEF DacFaulted, DacStates
  <2> QED
    BY <1>1, <2>1
<1>3. dac'.muted
  BY <1>2, SetMuteFacts DEF SafeStop
<1>4. ~engine'.running /\ engine'.attached = engine.attached
  BY <1>1 DEF SafeStop, EngineStop, EngineStates
<1> QED
  BY <1>3, <1>4 DEF SafeStop

LEMMA StartEffects ==
    ASSUME IInv, BeginStart
    PROVE  /\ step' = "RelayRelease" /\ ~relay' /\ dac'.muted /\ ~engine'.running
           /\ engine'.attached = engine.attached
<1>1. /\ dac \in DacStates /\ (dac.state # "Ready" => dac.muted) /\ engine \in EngineStates
  BY IInvSplit DEF OutInv, OutType, PathInv, StageInv
<1>2. dac'.muted
  BY <1>1, SetMuteFacts DEF BeginStart
<1>3. ~engine'.running /\ engine'.attached = engine.attached
  BY <1>1 DEF BeginStart, EngineStop, EngineStates
<1> QED
  BY <1>2, <1>3 DEF BeginStart

LEMMA HandlerEffects ==
    ASSUME IInv, StreamInv, DrainStep
    PROVE  \/ Drained
           \/ /\ queue # <<>> /\ Take(Head(queue).ev) /\ Effect(Head(queue))
              /\ pc' \in {"drain", "rom", "updater"}
<1> DEFINE h == Head(queue)
           Handled(e) == queue # <<>> /\ Take(h.ev) /\ h.ev = e
<1> USE DEF JoinedSteps, LateSteps
<1>1. /\ dac \in DacStates /\ (dac.state # "Ready" => dac.muted) /\ engine \in EngineStates
      /\ step = "Playing" <=> app = "Playing"
      /\ step \in Steps
  BY IInvSplit DEF OutInv, OutType, PathInv, StageInv, AppMatchesStep
<1>2. ASSUME OutputUnchanged, UNCHANGED <<active, desired, feedback, streamRequested>>,
             h.ev \notin {"Mute", "Detached", "Suspended", "Stop", "Rate", "Start"}
      PROVE  Effect(h)
  BY <1>2 DEF OutputUnchanged, Effect, StreamInv
<1>3. ASSUME NEW d \in {dac, DacFaulted}, NEW fault, NEW reason, SafeStop(d, fault, reason),
             UNCHANGED <<active, desired>>, h.ev \notin {"Start", "Rate"},
             streamRequested' \in {FALSE, streamRequested},
             h.ev \in {"Detached", "Suspended", "Stop"} => ~streamRequested'
      PROVE  Effect(h)
  <2>1. /\ step' = "None" /\ ~relay' /\ dac'.muted /\ ~engine'.running
        /\ engine'.attached = engine.attached
    BY <1>3, StopEffects
  <2>2. h.ev \in {"Detached", "Suspended"} => Quiet'
    BY <1>3, <2>1 DEF Quiet
  <2>3. StreamInv'
    BY <2>1 DEF StreamInv
  <2>4. streamRequested' => streamRequested
    BY <1>3
  <2>5. h.ev \in {"Stop", "Detached"} => ~streamRequested'
    BY <1>3
  <2> QED
    BY <1>3, <2>1, <2>2, <2>3, <2>4, <2>5 DEF Effect
<1>4. ASSUME BeginStart, UNCHANGED <<active, feedback>>, streamRequested',
             h.ev \notin {"Detached", "Suspended", "Stop"},
             streamRequested' => streamRequested \/ h.ev = "Start",
             desired' = IF h.ev = "Rate" THEN h.rate
                        ELSE IF h.ev = "Start" THEN requestedRate ELSE desired
      PROVE  Effect(h)
  <2>1. /\ step' = "RelayRelease" /\ ~relay' /\ dac'.muted /\ ~engine'.running
        /\ engine'.attached = engine.attached
    BY <1>4, StartEffects
  <2> QED
    BY <1>4, <2>1 DEF Effect, StreamInv
<1>5. CASE HandleMounted
  BY <1>2, <1>5 DEF HandleMounted, Take
<1>6. CASE HandleStart
  <2>1. /\ Handled("Start") /\ streamRequested' = TRUE /\ desired' = requestedRate
        /\ UNCHANGED <<pc, active, feedback>>
    BY <1>6 DEF HandleStart, Take
  <2>2. CASE CanResume(desired')
    <3>1. UNCHANGED <<relay, dac, step, app, engine>> /\ active = desired' /\ step = "Playing"
      BY <1>1, <1>6, <2>2 DEF HandleStart, CanResume
    <3>2. Effect(h)
      BY <2>1, <3>1 DEF Effect, StreamInv
    <3> QED
      BY <2>1, <3>2 DEF Take
  <2>3. CASE ~CanResume(desired')
    <3>1. BeginStart
      BY <1>6, <2>3 DEF HandleStart
    <3>2. Effect(h)
      BY <1>4, <2>1, <3>1
    <3> QED
      BY <2>1, <3>2 DEF Take
  <2> QED
    BY <2>2, <2>3
<1>7. CASE HandleRate
  <2>1. /\ Handled("Rate") /\ desired' = h.rate /\ feedback' = desired' /\ UNCHANGED <<active, pc>>
        /\ streamRequested' = streamRequested
        /\ IF streamRequested /\ desired' # active THEN BeginStart ELSE OutputUnchanged
    BY <1>7 DEF HandleRate, Take
  <2>2. Effect(h)
    <3>1. CASE streamRequested /\ desired' # active
      <4>1. /\ step' = "RelayRelease" /\ ~relay' /\ dac'.muted /\ ~engine'.running
            /\ engine'.attached = engine.attached
        BY <2>1, <3>1, StartEffects
      <4> QED
        BY <2>1, <3>1, <4>1 DEF Effect, StreamInv
    <3>2. CASE ~(streamRequested /\ desired' # active)
      BY <2>1, <3>2 DEF Effect, StreamInv, OutputUnchanged
    <3> QED
      BY <3>1, <3>2
  <2> QED
    BY <2>1, <2>2 DEF Take
<1>8. CASE HandleVolume
  BY <1>2, <1>3, <1>8 DEF HandleVolume, Take
<1>9. CASE HandleMute
  <2>1. /\ Handled("Mute") /\ relay' = FALSE /\ dac' \in SetMute(dac, TRUE)
        /\ UNCHANGED <<pc, engine, step, feedback, active, desired, streamRequested>>
    BY <1>9 DEF HandleMute, Take
  <2>2. dac'.muted
    BY <1>1, <2>1, SetMuteFacts
  <2> QED
    BY <2>1, <2>2 DEF Take, Effect, StreamInv
<1>10. CASE HandleUnmute
  BY <1>2, <1>4, <1>10 DEF HandleUnmute, Take
<1>11. CASE HandleStop
  <2>1. /\ Handled("Stop") /\ streamRequested' = FALSE /\ UNCHANGED <<pc, active, desired>>
    BY <1>11 DEF HandleStop, Take
  <2>2. CASE mounted /\ app = "Playing" /\ engine.running /\ relay /\ ~dac.muted
    <3>1. /\ ~engine'.attached /\ engine'.running = engine.running
          /\ UNCHANGED <<relay, dac, feedback, step>> /\ step = "Playing"
      BY <1>1, <1>11, <2>2 DEF HandleStop, EnterConnectedIdle, EngineStates
    <3>2. Effect(h)
      BY <2>1, <3>1 DEF Effect, StreamInv
    <3> QED
      BY <2>1, <3>2 DEF Take
  <2>3. CASE ~(mounted /\ app = "Playing" /\ engine.running /\ relay /\ ~dac.muted)
    <3>1. SafeStop(dac, FALSE, "HostStop")
      BY <1>11, <2>3 DEF HandleStop
    <3>2. Effect(h)
      BY <1>3, <2>1, <3>1
    <3> QED
      BY <2>1, <3>2 DEF Take
  <2> QED
    BY <2>2, <2>3
<1>12. CASE HandleDetached
  BY <1>3, <1>12 DEF HandleDetached, Take
<1>13. CASE HandleSuspended
  BY <1>3, <1>13 DEF HandleSuspended, Take
<1>14. CASE HandleResumed
  BY <1>2, <1>14 DEF HandleResumed, Take
<1>15. CASE HandleBootloaderArm
  BY <1>2, <1>3, <1>15 DEF HandleBootloaderArm, HandleArm, Take
<1>16. CASE HandleUpdaterArm
  BY <1>2, <1>3, <1>16 DEF HandleUpdaterArm, HandleArm, Take
<1> QED
  BY <1>5, <1>6, <1>7, <1>8, <1>9, <1>10, <1>11, <1>12, <1>13, <1>14, <1>15, <1>16 DEF DrainStep

LEMMA HandlerKeepsHost ==
    ASSUME IInv, HostInv, queue # <<>>, Take(Head(queue).ev), Effect(Head(queue)),
           pc' \in {"drain", "rom", "updater"}
    PROVE  HostInv'
<1> DEFINE h == Head(queue)
<1>1. /\ QueueInv /\ StreamInv /\ RateInv /\ MuteInv /\ AltInv /\ LinkInv /\ LoopType
      /\ queue' = Tail(queue) /\ UNCHANGED <<lost, requestedRate, hostMuted, link, alt>>
  BY IInvSplit DEF HostInv, Take, hostVars
<1>2. /\ queue' = <<>> => h = queue[Len(queue)]
      /\ queue' # <<>> => queue'[Len(queue')] = queue[Len(queue)]
      /\ \A K : /\ \A x : LastOf(K, x)' => LastOf(K, x)
                /\ NoneOf(K)' /\ h.ev \in K => LastOf(K, h)
                /\ NoneOf(K)' /\ h.ev \notin K => NoneOf(K)
  BY <1>1, TakenEvents
<1> HIDE DEF h
<1>3. Effect(h)
  BY DEF h
<1>4. QueueInv' /\ StreamInv'
  BY <1>3 DEF QueueInv, AfterDrain, Effect
<1>5. RateInv'
  BY <1>1, <1>2, <1>3 DEF RateInv, RateEvents, Effect
<1>6. MuteInv'
  BY <1>1, <1>2, <1>3 DEF MuteInv, MuteEvents, Effect
<1>7. AltInv'
  BY <1>1, <1>2, <1>3 DEF AltInv, AltEvents, Effect
<1>8. LinkInv'
  BY <1>1, <1>2, <1>3 DEF LinkInv, Effect
<1> QED
  BY <1>4, <1>5, <1>6, <1>7, <1>8 DEF HostInv

----------------------------------------------------------------------------
(* The rest of the loop, and the interrupts. *)

(* No other step hears the host, and none undoes what a handler did for it. *)
Kept ==
    /\ ~streamRequested /\ engine'.running /\ engine'.attached =>
          engine.running /\ engine.attached
    /\ Quiet => Quiet'
    /\ hostMuted /\ ~relay /\ dac.muted => ~relay' /\ dac'.muted
    /\ desired = requestedRate /\ (step \in JoinedSteps => feedback = desired) =>
          desired' = requestedRate' /\ (step' \in JoinedSteps => feedback' = desired')

LoopEffect ==
    /\ UNCHANGED <<queue, lost, hostMuted, link, alt, streamRequested>>
    /\ requestedRate' = requestedRate \/ queue = <<>>
    /\ QueueInv' /\ StreamInv' /\ Kept

LEMMA LoopEffectKeepsHost ==
    ASSUME HostInv, LoopEffect
    PROVE  HostInv'
<1>1. /\ QueueInv' /\ StreamInv' /\ Kept /\ RateInv /\ MuteInv /\ AltInv /\ LinkInv
      /\ UNCHANGED <<queue, lost, hostMuted, link, alt, streamRequested>>
      /\ requestedRate' = requestedRate \/ queue = <<>>
  BY DEF HostInv, LoopEffect
<1>2. \A K : (NoneOf(K)' <=> NoneOf(K)) /\ \A x : LastOf(K, x)' <=> LastOf(K, x)
  BY <1>1, SameEvents
<1>3. queue = <<>> => \A x : ~LastOf(RateEvents, x)
  BY EmptyQueue
<1>4. RateInv'
  BY <1>1, <1>2, <1>3 DEF RateInv, Kept
<1>5. MuteInv'
  BY <1>1, <1>2 DEF MuteInv, Kept
<1>6. AltInv'
  BY <1>1, <1>2 DEF AltInv, Kept
<1>7. LinkInv'
  BY <1>1 DEF LinkInv, Kept
<1> QED
  BY <1>1, <1>4, <1>5, <1>6, <1>7 DEF HostInv

(* A stop keeps what the host was promised, whoever calls it.              *)
LEMMA StopKeepsHost ==
    ASSUME StreamInv, step' = "None", ~relay', dac'.muted, ~engine'.running,
           UNCHANGED <<streamRequested, desired, requestedRate>>
    PROVE  StreamInv' /\ Kept
<1>1. step' \notin JoinedSteps
  BY DEF JoinedSteps, LateSteps
<1> QED
  BY <1>1 DEF StreamInv, Kept, Quiet

LEMMA PollEffect ==
    ASSUME IInv, HostInv, NEW d \in 0..MaxElapsed, PollStep(d)
    PROVE  LoopEffect
<1>1. /\ QueueInv /\ StreamInv /\ pc = "poll" /\ queue = <<>>
      /\ UNCHANGED <<queue, lost, hostMuted, link, alt, streamRequested>>
  BY DEF HostInv, QueueInv, AfterDrain, PollStep, Poll, InitUsb, usbVars, hostVars
<1>2. /\ dac \in DacStates /\ (dac.state # "Ready" => dac.muted) /\ engine \in EngineStates
      /\ ~usbReady => step = "None" /\ ~relay
      /\ relay => step = "Playing"
  BY IInvSplit DEF OutInv, OutType, PathInv, StageInv, StartupInv, RelaySafe
<1>3. QueueInv'
  BY <1>1 DEF QueueInv
<1>4. \A d2 \in DacPoll(dac) : d2 \in DacStates /\ (d2.state # "Ready" => d2.muted)
                               /\ (dac.muted => d2.muted)
  BY <1>2, DacPollFacts
<1>5. CASE Poll(d)
  <2>1. /\ UNCHANGED <<relay, engine, step, active, desired, feedback, requestedRate>>
        /\ dac.muted => dac'.muted
    BY <1>4, <1>5 DEF Poll, usbVars
  <2> QED
    BY <1>1, <1>3, <2>1 DEF LoopEffect, Kept, StreamInv, Quiet
<1>6. CASE InitUsb(d)
  <2>1. /\ active' = DefaultRate /\ desired' = DefaultRate /\ requestedRate' = DefaultRate
        /\ step = "None" /\ ~relay
    BY <1>2, <1>6 DEF InitUsb
  <2>2. PICK d2 \in DacPoll(dac) :
          \/ dac' = d2 /\ UNCHANGED <<relay, step, engine>>
          \/ SafeStop(d2, TRUE, "StartFault")
    BY <1>6 DEF InitUsb
  <2>3. /\ step' = "None" /\ ~relay' /\ (dac.muted => dac'.muted)
        /\ engine'.running => engine.running
        /\ engine'.running /\ engine'.attached => engine.attached
    <3>1. CASE SafeStop(d2, TRUE, "StartFault")
      <4>1. dac'.muted
        BY <1>4, <3>1, SetMuteFacts DEF SafeStop
      <4>2. ~engine'.running
        BY <1>2, <3>1 DEF SafeStop, EngineStop, EngineStates
      <4> QED
        BY <3>1, <4>1, <4>2 DEF SafeStop
    <3>2. CASE dac' = d2 /\ UNCHANGED <<relay, step, engine>>
      <4>1. dac.muted => dac'.muted
        BY <1>4, <3>2
      <4> QED
        BY <2>1, <3>2, <4>1
    <3> QED
      BY <2>2, <3>1, <3>2
  <2>4. step' \notin JoinedSteps
    BY <2>3 DEF JoinedSteps, LateSteps
  <2>5. StreamInv'
    BY <2>1, <2>3 DEF StreamInv
  <2> QED
    BY <1>1, <1>3, <2>1, <2>3, <2>4, <2>5 DEF LoopEffect, Kept, Quiet
<1> QED
  BY <1>5, <1>6 DEF PollStep

LEMMA InterruptEffect ==
    ASSUME IInv, HostInv, InterruptStep
    PROVE  LoopEffect
<1>1. UNCHANGED <<pc, runtimeVars, relay, dac, feedback, usbVars, hostVars>>
  BY DEF InterruptStep, DmaComplete, DmaFails, ReceiveAudio
<1>2. engine \in EngineStates
  BY IInvSplit DEF OutInv, OutType
<1>3. (engine'.running => engine.running) /\ engine'.attached = engine.attached
  BY <1>2 DEF InterruptStep, DmaComplete, DmaFails, ReceiveAudio, EngineStates
<1>4. QueueInv' /\ StreamInv'
  BY <1>1 DEF HostInv, QueueInv, AfterDrain, StreamInv, runtimeVars, usbVars
<1> QED
  BY <1>1, <1>3, <1>4 DEF LoopEffect, Kept, Quiet, runtimeVars, usbVars, hostVars

LEMMA TurnEffect ==
    ASSUME IInv, HostInv, TaskDone \/ Drained \/ AttachResumed \/ CheckStep \/ UNCHANGED vars
    PROVE  LoopEffect
<1>1. /\ UNCHANGED <<queue, lost, hostMuted, link, alt, streamRequested, requestedRate,
                     active, desired>>
      /\ QueueInv /\ StreamInv
  BY DEF HostInv, TaskDone, Drained, AttachResumed, CheckStep, DmaErrorFault, UnderrunFault, NoFault,
         LeaveChecks, runtimeVars, usbVars, hostVars, vars
<1>2. QueueInv'
  BY <1>1 DEF QueueInv, AfterDrain, TaskDone, Drained, AttachResumed, CheckStep, DmaErrorFault,
              UnderrunFault, NoFault, LeaveChecks, vars
<1>3. CASE UNCHANGED <<relay, dac, step, feedback, engine>>
  BY <1>1, <1>2, <1>3 DEF LoopEffect, Kept, StreamInv, Quiet
<1>4. CASE AttachResumed
  <2>1. engine \in EngineStates
    BY IInvSplit DEF OutInv, OutType
  <2>2. /\ UNCHANGED <<relay, dac, step, feedback>> /\ engine'.running = engine.running
        /\ ~streamRequested => engine' = engine
    BY <1>4, <2>1 DEF AttachResumed, EngineStates
  <2> QED
    BY <1>1, <1>2, <2>2 DEF LoopEffect, Kept, StreamInv, Quiet
<1>5. ASSUME NEW reason, SafeStop(dac, TRUE, reason) PROVE LoopEffect
  <2>1. step' = "None" /\ ~relay' /\ dac'.muted /\ ~engine'.running
    BY <1>5, StopEffects
  <2> QED
    BY <1>1, <1>2, <2>1, StopKeepsHost DEF LoopEffect
<1> QED
  BY <1>3, <1>4, <1>5 DEF TaskDone, Drained, CheckStep, DmaErrorFault, UnderrunFault, NoFault,
     OutputUnchanged, runtimeVars, hwVars, vars

LEMMA StageEffect ==
    ASSUME IInv, HostInv, StartStep
    PROVE  LoopEffect
<1> USE DEF JoinedSteps, LateSteps
<1>1. /\ UNCHANGED <<queue, lost, hostMuted, link, alt, streamRequested, requestedRate, desired>>
      /\ QueueInv /\ StreamInv /\ pc = "start" /\ pc' = "checks"
  BY DEF HostInv, StartStep, SelectOscillator, StartEngine, ConfigureFails, EngineStartFails,
         ConfirmDmaProgress, DmaNoProgress, JoinStream, UnstableStream, StableReached, HeldMuted,
         UnmuteDac, UnmuteFails, CloseRelay, RefuseRelay, StageWaits, StartAt, hostVars
<1>2. QueueInv'
  BY <1>1 DEF QueueInv, AfterDrain
<1>3. /\ engine \in EngineStates /\ dac \in DacStates /\ (dac.state # "Ready" => dac.muted)
  BY IInvSplit DEF OutInv, OutType, PathInv, StageInv
<1>4. ASSUME NEW d \in {dac, DacFaulted}, NEW fault, NEW reason, SafeStop(d, fault, reason)
      PROVE  LoopEffect
  <2>1. step' = "None" /\ ~relay' /\ dac'.muted /\ ~engine'.running
    BY <1>4, StopEffects
  <2> QED
    BY <1>1, <1>2, <2>1, StopKeepsHost DEF LoopEffect
<1>5. CASE ConfigureFails \/ DmaNoProgress \/ UnstableStream \/ HeldMuted \/ UnmuteFails \/ RefuseRelay
  BY <1>4, <1>5 DEF ConfigureFails, DmaNoProgress, UnstableStream, HeldMuted, UnmuteFails, RefuseRelay
<1>6. CASE EngineStartFails
  <2>1. step' = "None" /\ ~relay' /\ dac'.muted /\ ~engine'.running
    BY <1>3, <1>6, SetMuteFacts DEF EngineStartFails
  <2> QED
    BY <1>1, <1>2, <2>1, StopKeepsHost DEF LoopEffect
<1>7. CASE SelectOscillator \/ ConfirmDmaProgress
  <2>1. /\ UNCHANGED <<relay, dac, engine, active, feedback>>
        /\ \/ step = "RelayRelease" /\ step' = "ClockSettle"
           \/ step = "DmaProgress" /\ step' = "Prefill"
    BY <1>7 DEF SelectOscillator, ConfirmDmaProgress, StageKeeps, StartAt
  <2> QED
    BY <1>1, <1>2, <2>1 DEF LoopEffect, Kept, StreamInv, Quiet
<1>8. CASE StartEngine
  <2>1. /\ UNCHANGED <<relay, dac>> /\ step = "ClockSettle" /\ step' = "DmaProgress"
        /\ active' = desired /\ feedback' = desired
    BY <1>8 DEF StartEngine, StartAt
  <2>2. streamRequested
    BY <1>1, <2>1 DEF StreamInv
  <2> QED
    BY <1>1, <1>2, <2>1, <2>2 DEF LoopEffect, Kept, StreamInv, Quiet
<1>9. CASE JoinStream
  <2>1. step = "Prefill" /\ streamRequested /\ active = desired
    BY <1>1, <1>9 DEF JoinStream, StartAt, StreamInv
  <2>2. step' = "Stable" /\ UNCHANGED <<relay, dac, active, feedback>>
    BY <1>9, <2>1 DEF JoinStream
  <2> QED
    BY <1>1, <1>2, <2>1, <2>2 DEF LoopEffect, Kept, StreamInv, Quiet
<1>10. CASE UnmuteDac
  <2>1. /\ UNCHANGED <<relay, engine, active, feedback>> /\ ~hostMuted
        /\ step = "Stable" /\ step' = "DacSettle"
    BY <1>10 DEF UnmuteDac, StableReached, StageKeeps, StartAt
  <2> QED
    BY <1>1, <1>2, <2>1 DEF LoopEffect, Kept, StreamInv, Quiet
<1>11. CASE CloseRelay
  <2>1. /\ UNCHANGED <<dac, engine, active, feedback>> /\ ~dac.muted
        /\ step = "DacSettle" /\ step' = "Playing"
    BY <1>11 DEF CloseRelay, OutputReady, StartAt
  <2> QED
    BY <1>1, <1>2, <2>1 DEF LoopEffect, Kept, StreamInv, Quiet
<1>12. CASE StageWaits
  <2>1. UNCHANGED <<relay, dac, engine, step, active, feedback>>
    BY <1>12 DEF StageWaits, OutputUnchanged
  <2> QED
    BY <1>1, <1>2, <2>1 DEF LoopEffect, Kept, StreamInv, Quiet
<1> QED
  BY <1>5, <1>6, <1>7, <1>8, <1>9, <1>10, <1>11, <1>12 DEF StartStep

----------------------------------------------------------------------------
(* The inductive invariant, and what the host may rely on. *)

LEMMA HostInitially == Init => HostInv
<1> SUFFICES ASSUME Init PROVE HostInv
  OBVIOUS
<1>1. /\ queue = <<>> /\ link = "detached" /\ alt = 0 /\ step = "None" /\ ~relay
      /\ desired = requestedRate /\ dac.muted /\ ~engine.running /\ streamRequested = FALSE
  BY DEF Init
<1>2. \A K : \A x : ~LastOf(K, x)
  BY <1>1, EmptyQueue
<1>3. step \notin JoinedSteps
  BY <1>1 DEF JoinedSteps, LateSteps
<1> QED
  BY <1>1, <1>2, <1>3
     DEF HostInv, QueueInv, StreamInv, RateInv, MuteInv, AltInv, LinkInv, Quiet

LEMMA HostStepPreserves == IInv /\ HostInv /\ [Next]_vars => HostInv'
<1> SUFFICES ASSUME IInv, HostInv, [Next]_vars PROVE HostInv'
  OBVIOUS
<1>1. CASE HostStep
  BY <1>1, CallbackKeepsHost
<1>2. CASE DrainStep /\ ~Drained
  BY <1>2, HandlerEffects, HandlerKeepsHost DEF HostInv
<1>3. ASSUME NEW d \in 0..MaxElapsed, PollStep(d) PROVE HostInv'
  BY <1>3, PollEffect, LoopEffectKeepsHost
<1>4. CASE TaskDone \/ Drained \/ AttachResumed \/ CheckStep \/ UNCHANGED vars
  BY <1>4, TurnEffect, LoopEffectKeepsHost
<1>5. CASE StartStep
  BY <1>5, StageEffect, LoopEffectKeepsHost
<1>6. CASE InterruptStep
  BY <1>6, InterruptEffect, LoopEffectKeepsHost
<1> QED
  BY <1>1, <1>2, <1>3, <1>4, <1>5, <1>6 DEF Next, LoopStep, BodyStep, Gone

(* HostInv holds in every reachable state, for every delay, queue capacity *)
(* and set of host requests.                                               *)
THEOREM HostInvariance == Spec => [](IInv /\ HostInv)
<1>1. Init => IInv /\ HostInv
  BY InitEstablishes, HostInitially
<1>2. IInv /\ HostInv /\ [Next]_vars => (IInv /\ HostInv)'
  BY StepPreserves, HostStepPreserves
<1> QED
  BY <1>1, <1>2, PTL DEF Spec

(* A host that stopped streaming is not heard after the pass that took its *)
(* request, and a cable pulled or a suspended bus leaves the relay open    *)
(* and the engine stopped, unless just that request was dropped: whatever  *)
(* a full queue dropped before is mended by the next request of its kind   *)
(* (the event loop of main, main.cpp:288-394, and usb_device.cpp).         *)
THEOREM HostStopIsHonoured == Spec => []HostStopHonoured
<1>1. HostInv => HostStopHonoured
  <2> SUFFICES ASSUME HostInv, AfterDrain PROVE
        /\ alt = 0 /\ AltEvents \notin lost => ~(engine.running /\ engine.attached)
        /\ link # "configured" /\ LinkEvents \notin lost => ~relay /\ ~engine.running
    BY DEF HostStopHonoured
  <2>1. queue = <<>> /\ NoneOf(AltEvents)
    BY EmptyQueue DEF HostInv, QueueInv
  <2> QED
    BY <2>1 DEF HostInv, AltInv, LinkInv, Quiet
<1> QED
  BY <1>1, HostInvariance, PTL

(* The latest rate the host asked for is the wanted one, and a wanted      *)
(* stream is never past its prefill with another (the event loop of main,  *)
(* main.cpp:310-321, and run_start).                                       *)
THEOREM LatestRateIsWanted == Spec => []LatestRateWins
<1>1. HostInv => LatestRateWins
  <2> SUFFICES ASSUME HostInv, AfterDrain PROVE
        /\ RateEvents \notin lost => desired = requestedRate
        /\ streamRequested /\ step \in {"Stable", "DacSettle", "Playing"} => active = desired
    BY DEF LatestRateWins
  <2>1. NoneOf(RateEvents)
    BY EmptyQueue DEF HostInv, QueueInv
  <2> QED
    BY <2>1 DEF HostInv, RateInv, StreamInv, JoinedSteps, LateSteps
<1> QED
  BY <1>1, HostInvariance, PTL

(* A host that streams is paced for the rate the engine runs at, however   *)
(* its rate requests, stops and starts were queued (every call of          *)
(* FeedbackController::reset in main.cpp).                                 *)
THEOREM FeedbackIsForStream == Spec => []FeedbackMatchesStream
<1>1. HostInv => FeedbackMatchesStream
  <2> SUFFICES ASSUME HostInv, AfterDrain, RateEvents \notin lost, streamRequested, step \in JoinedSteps
               PROVE  feedback = active
    BY DEF FeedbackMatchesStream, JoinedSteps
  <2>1. NoneOf(RateEvents)
    BY EmptyQueue DEF HostInv, QueueInv
  <2> QED
    BY <2>1 DEF HostInv, RateInv, StreamInv
<1> QED
  BY <1>1, HostInvariance, PTL

(* A host that muted is not heard, in whatever stage the start is, and     *)
(* however often it changed its mind in a pass (main.cpp:326, run_start).  *)
THEOREM HostMuteIsHonoured == Spec => []HostMuteHonoured
<1>1. HostInv => HostMuteHonoured
  <2> SUFFICES ASSUME HostInv, AfterDrain, MuteEvents \notin lost, hostMuted PROVE ~relay /\ dac.muted
    BY DEF HostMuteHonoured
  <2>1. NoneOf(MuteEvents)
    BY EmptyQueue DEF HostInv, QueueInv
  <2> QED
    BY <2>1 DEF HostInv, MuteInv
<1> QED
  BY <1>1, HostInvariance, PTL

(* Every start is for a wanted stream at the wanted rate, so the restart   *)
(* that the prefill makes for another rate (main.cpp run_start) is never   *)
(* needed: HandleRate and HandleStart have restarted before.               *)
THEOREM PrefillIsForWantedRate ==
    Spec => [](step = "Prefill" => streamRequested /\ active = desired)
<1>1. HostInv => (step = "Prefill" => streamRequested /\ active = desired)
  BY DEF HostInv, StreamInv, JoinedSteps, LateSteps
<1> QED
  BY <1>1, HostInvariance, PTL
=============================================================================
