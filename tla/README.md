# DykoDAC2 firmware: TLA+ models, checks and proofs

The firmware (`src/fw`) turns an RT1011 into a USB audio DAC. Two programs
share the flash: the application, a cooperative main loop with two interrupt
handlers, and the boot manager, which chooses between two application slots and
updates the one that is not in use. This directory models both from their
source, checks the models on small instances with TLC, and proves the central
ones for every value of their constants with TLAPS.

## 1. Inventory

| Component (source) | State it keeps | Operations | Hard behaviour | What makes it correct |
|---|---|---|---|---|
| **Runtime** (`platform/nxp/main.cpp`) | stage of the start, deadline, desired and active format, stream wanted, resume pending, underrun baseline, arming windows | one pass of the loop: poll, USB task, drain events, resume, stage of the start, fault checks | two interrupts at any point; requests piled up during a start; state read in one pass and used in a later one | the relay closes only on a settled, unmuted, live path; the latest request wins; faults end quiet; starts end |
| **AppController** (`app/`) | one of eight states | `dispatch` | ignored events let it drift from the stage | state and stage agree |
| **AudioEngine** (`audio/audio_engine.cpp`) | running, attached ring, counters, two DMA buffers | start_silence, stop, attach, detach, DMA callback | late callbacks, refused transfers, counters that outlive a stream | one transfer at a time, none after stop; the chain of transfers does not break |
| **StreamBuffer** (`audio/stream_buffer.cpp`) | indices, used bytes | push, pop, clear | producer and consumer in different contexts | a bounded FIFO of whole packets, whoever interrupts whom |
| **Cs4398** (`devices/dac.cpp`) | bootstrap state, muted, attenuation | begin, poll, set_mute, set_attenuation, configure_format | a bus transfer may fail in any call | what the driver remembers is what the chip holds |
| **ClockManager, OutputRelay** (`board/`) | selected family, stable; connected | select, mark_stable, invalidate; connect, disconnect | none of their own | ordered by Runtime |
| **UsbDevice** (`usb/usb_device.cpp`) | 16-entry event queue, requested rate, controls, clock valid, pending report | TinyUSB callbacks, take_event, reports | bursts overflow the queue; callbacks run ahead of the loop; a busy HID endpoint | order kept, overflow bounded, no report forgotten; the chip follows the volume the host reads back |
| **FeedbackController** (`audio/`) | nominal, filtered error, value | reset, update | truncating divisions in a loop through host, ring and oscillator; stale state over a pause | the ring neither overflows nor runs short once it is heard, and returns to its half |
| **Boot manager and updater** (`boot/main.cpp`) | record in two flash sectors, two slots, upload in progress | choose_image, save_state, jump_to, Begin, Data, End, Abort, Reboot | power cut anywhere, failing flash, tokens and markers that survive a reset | the working image is never lost; a candidate is tried a bounded number of times |
| **NOR driver** (`boot/flexspi_flash.cpp`) | none | erase_sector, program | partial effect on failure | verified by reading back |
| **boot_control** (`platform/nxp/boot_control.cpp`) | reset token, trial marker, watchdog | trial_boot, request_updater, poll_trial_health | RAM and SNVS copies, watchdog race | only trials are watched and confirmed |
| **Host tools** (`tools/`) | none | arming, upload protocol | retries, lost replies | any order of commands is safe |

Interaction: TinyUSB callbacks and the audio receive callback only record and
queue (`usb_device.cpp`); the loop takes the events and alone touches relay,
clock, DAC and engine; the DMA interrupt consumes the ring and changes the
engine's counters; application and boot manager talk through a reset token and
a trial marker, and through the flash.

Not modelled, and why: the vendored SDK and the hardware design (third-party),
GPIO and register writes, the MPU, SHA-256 and descriptors (no state that a
property relates), LEDs and the contents of diagnostic reports (never read
back), wording of replies, the opcodes of the flash chip. `PROJECT.json` lists every part with its status.

## 2. Modules

    AppController   dispatch() as a function
    Runtime         the loop, the devices it drives, the host, two interrupts
      RuntimeTiming   Runtime with stopwatches no code reads
      RuntimeWindows  Runtime with its deadlines as words of a wrapping counter
      OutputPath      abstract: the order oscillator, mute and relay may move in
      RuntimeProofs         the output path and the loop; Runtime implements OutputPath
      RuntimeHostProofs     the host's requests, from the callback to the end of the pass
      RuntimeDeadlineProofs stopwatches and words against the ticks left
    StreamBuffer    the ring, each operation in the steps an interrupt could split
      AudioEngine     the engine, its DMA buffers, the DMA and its interrupt over it
      SamplePipe      abstract: samples in, the same samples out, once and in order
      AudioEngineProofs     ring, engine and interrupt; they implement SamplePipe
    FeedbackLoop    the feedback controller, the host, the ring and the oscillators
      FeedbackLoopProofs    the limits of the controller; the ring stays off its ends and near its half
    Cs4398          the DAC driver and the chip behind its bus
    UsbDevice       the event ring, the history, the volume, the pending report
      EventLog        abstract: a bounded queue and the last few requests
      UsbDeviceProofs       lemmas about the two rings
    ControlPath     UsbDevice and Cs4398 with the loop between them
      ControlPathProofs     driver, chip, volume and reports; the rings implement EventLog
    FlexSpiFlash    results and effects of an erase and a program of the NOR
    BootManager     boot manager, updater, flash, what the application does to it
      BootContract    abstract: one record that changes at once, bounded trials
      BootManagerProofs     the record, the working image and the trials

Each `MC` module holds the hosts, samples or devices of the small instances of
the module it is named after. `Runtime` sees ring, engine, DAC and queue from
the outside: a level, a few flags, a list. The modules below it say what is
behind those: that a ring shared with an interrupt is a level at all
(`ImplementsPipe`), that a queue in an array is a list (`ImplementsEventLog`),
that the driver's `muted` is the chip's (`DriverKnowsChip`), that "time left"
is what a difference of two words tells (`DeadlinesSurviveWrap`).

### Runtime

`pc` is where the loop is: `poll`, `task`, `drain`, `resume`, `start`,
`checks`, in the order of main.cpp:277-416; `rom` and `updater` are its two
exits. One action per event case of the drain (`HandleStart`, ...), per stage
and outcome of `run_start` (`SelectOscillator`, `StartEngine`,
`ConfigureFails`, ...), per fault check. `SafeStop`, `BeginStart` and
`EnterConnectedIdle` are the three functions of the same names and set every
variable of their frame. The host's requests are actions of the `task` phase:
each callback records and queues, and what exceeds `QueueCap` is dropped.
`lost` is history: the kinds of request (mute, rate, alternate setting, link)
whose *last* one was dropped, so that a property excepts only the kind that was
lost, only until the next of that kind finds room. `DmaComplete`, `DmaFails` and `ReceiveAudio`
interleave with everything.

Abstractions. Time: a deadline is the time that remains, and passes only when
`poll` reads the clock, as `now` is read once per pass; `d` up to `MaxElapsed`
ticks may have gone by, 0 included. The ring: its level in quarters
(`RingUnits`), because the code compares it only with a half, a quarter and
empty. Events: the attributes the loop looks at. DAC: starting, ready, faulted,
with every transfer allowed to fail. `safe_stop` and `begin_start` are atomic
with respect to the DMA interrupt, which they make harmless in their third
statement (`engine.stop`). Receiving audio is allowed at any point of the
loop, not just inside `usb.task`, which only adds behaviours.
Unsupported rates (main.cpp:297, 312) cannot reach the loop: the callback
refuses them (usb_device.cpp:213). `feedback` is the rate the feedback
controller was last reset for; its numbers are FeedbackLoop's. The restart in the prefill stage
(main.cpp:148) is a branch of `JoinStream`: a rate that changed would have
restarted the sequence when its event was drained, so the branch is a
precaution. A bus reset that TinyUSB reports by no
callback is not modelled. `usb.initialize` also sets the requested rate to the
default.

### BootManager

Flash is `copies` (the two state sectors) and `slots`; `token` and `marker`
survive a reset and may be lost in a power cut; the rest is RAM and is cleared
by `Restart`. `pc` walks choose_image (`load`, `pending`, `trial`, `active`,
`other`), save_state (`save`, `program`, then `after`), the updater and the
application. A sector that does not validate is represented by `NoState`, the
record `load_state` falls back to (sequence 0, which no written record has),
so `Newest` covers its three branches. A slot is `Chunks` pieces, each blank,
from an image, or the AND of two images; it verifies when all are of one image.
`PowerLoss` is possible everywhere. `FlashFails` lets every step of the NOR
driver go wrong: `FlexSpiFlash` gives, for an erase or a program, the pairs of
result and content left that its write enable, command, status polling and
read-back can produce, a chip that completes every command and does nothing
included. Without the read-back (`ModifiedUnread`) the working image is lost.
`trialRuns` is history: how often
the recorded candidate was started. Reports that are rejected change nothing
and have no action. `Data` takes the piece and the offset the host gives it, and
is enabled for the next offset only; `UploadIsPrefix` says what that is for. A
mixed image never verifies here (nor with SHA-256), so what would go wrong
without the check is the count: pieces counted that never came. An application is `good` (healthy: it confirms after its
minute and answers update requests), `dead` (its watchdog fires) or `sick`: it
loops, so refreshes the watchdog (main.cpp:412), and is never healthy. Nothing
in the code ends the trial of a sick image; `ResetsRollBack` says that resets do.

### RuntimeWindows

Runtime counts down the ticks left until a deadline; the code keeps a word of a
32-bit counter and compares differences. `ticks`, `deadline`, `armed` and
`armDeadline` are those words, kept beside Runtime's and modulo `Wrap`:
`ReadClock` goes with a poll, `SetWords` with every other step. A word that
nothing reads (a stage without a deadline, a flag not set) is 0. `armAge` is
history: how long ago each request was last handled.

### StreamBuffer and AudioEngine

The unit is a sample. Push and pop are two steps each: the data is copied, then
the indices move; `guard` says who holds the interrupts off, and no other step
of the ring starts meanwhile (`Unguarded`). Clear, three assignments under the
guard, is one. In AudioEngine a producer pushes packets at any time, `main` and
`isr` say where the loop and `submit_silence` are, `inFlight` is the buffer the
DMA reads, `irq` a completion not yet taken. An interrupt runs to its end before
the loop goes on. The code submits one transfer from the completion of the one
before (audio_engine.cpp:87-89), so the SDK's queue of transfers is not needed.
A stop withdraws `running`, aborts the transfer and disables the transmitter in
three steps. A completion may be pending before the abort, or become pending in
the moment of it, and its interrupt then runs in the middle of `stop()` or after
it, and has to be ignored (audio_engine.cpp:125-127). `stream` is "empty" during the first submission, when
`start_silence` passes a ring that never holds anything.

A transfer counts as sent, for `SamplePipe`, once its samples have left the
ring. A vendored callback that never reports an error makes
`InterruptError` unreachable on the device (fsl_sai_edma.c); it is kept because
the code handles it.

### FeedbackLoop

The only module with the program's own numbers: bytes, 16.16 frames,
truncating division. A step is a microframe. The host sends what the last
feedback value asks for and carries the fraction; the DAC drains at its own
pace (`Drifts`); the controller runs every eighth microframe and its value
arrives one period later. The stages of the start that matter to the ring are
kept with their durations: while relay and oscillator settle (70 ms) the host
already streams and the ring overflows, so a cold start begins with a full ring
that must drain to its half before and after the relay closes; a resumed one
begins at half the ring with a controller that was not reset.

### Cs4398, UsbDevice and ControlPath

Cs4398 keeps the driver's state and the chip's registers apart; `Transfer` gives
what a transfer leaves in the chip and the result it reports, and a transfer
that failed may have arrived. `set_attenuation` writes both channels, whatever
the first write reports. UsbDevice keeps the two rings as arrays with indices.
A volume stands for every request the history records. ControlPath is their
product with the loop: `poll`, `task`, `drain`, `run`; the stages of a start are
the driver calls they may make, in any order (`StageCalls`), which includes
the orders of Runtime. `asked` is history: the report the host asked for last. So is `volumeLost`: the
last volume found the queue full.

## 3. Runs

| Run | Specification | Shows | Size |
|---|---|---|---|
| `MCRuntime_faults` | `Spec` | types, relay safety, clock-valid, ring, fault and stop properties against every way a stream ends | 1.7 M states |
| `MCRuntime_rates` | `Spec` | rates, mutes and starts two per pass; the feedback follows the rate that plays, a mute is honoured; the loop implements `OutputPath` | 3.7 M |
| `MCRuntimeTiming_deadlines` | `TimedSpec` | release and settling times hold when starts pile up | 3.9 M |
| `MCRuntimeWindows_maintenance` | `WindowSpec` | deadlines over a wrapping counter; with an overflowing queue, the two-step exits and a stop that was not itself lost | 3.0 M |
| `MCRuntime_live` | `LiveSpec` | broken audio ends; starts end | 0.2 M |
| `MCAudioEngine_audio` | `LiveSpec` | ring, engine, DMA and interrupt implement `SamplePipe`; one transfer at a time; the chain of transfers goes on | 0.8 M |
| `MCFeedbackLoop_feedback` | `Spec` | no glitch, no refused start, a centred ring, packets that fit, over 1.4 s of either rate | 2.1 M |
| `MCControlPath_controls` | `Spec` | driver and chip, host and chip, reports and endpoint agree; the rings implement `EventLog` | 1.1 M |
| `MCBootManager_power` | `LiveSpec` | power cuts: `BootContract`, the trial budget, rollback by the watchdog or by resets | 56 k |
| `MCBootManager_flash` | `Spec` | power cuts, failing flash, pieces out of turn: the working image is kept, and the updater counts what the slot holds | 2.3 M |
| `MCRuntime_oscillator` | `Spec` | **violated**: main.cpp:317 against usb-interface.md:37 | |
| `MCRuntime_restart` | `LiveSpec` | **violated**: main.cpp:404 against usb-interface.md:41 | |

Bounds. A queue of one or two entries already gives two requests in one pass
and, over passes, any sequence of requests; what a longer queue adds is more of
them between two checks, which the proofs cover for every capacity. Delays of
one or two ticks with passes of up to two ticks give deadlines that are reached
early, exactly and late; all comparisons are with zero. `MaxUnderruns = 3` is
the least that triggers the fault (more than baseline + 2). `MaxAge` and
`MaxArmAge` saturate the stopwatches and the ages of the requests at or above
the waits they are compared with, which `AgeAssumption` and `ArmAgeAssumption`
ask of them: a stopwatch that stopped earlier would show too short a wait. Each
instance enables the requests its question is about (`HostOps`).
A counter that wraps every eight ticks passes zero many times in every window
and stage; the assumption of RuntimeWindows (a delay plus one pass is less than
half a wrap) holds for 2000 ms against 2^31. Three cells with packets of one
and two samples and transfers of two make every packet wrap at every index,
transfers that run short and packets that do not fit; two sample values tell
lost, repeated and swapped samples apart. Oscillators 500 ppm apart are ten
times what crystals do; 11000 microframes are long enough for the settling of
the filter, a pause and 40 lost packets, and for the drain from a full ring;
past `SettleTime` the ring stays within 640 bytes of its half. The two bursts
of this instance may come 100 ms apart; the theorems take any number of them at
least a second apart, any pause and no horizon. Two events and
two history records wrap at every index; the two volumes lie above the range of
the control and between two steps of the chip.
Two pieces make partial, complete and mixed images; three attempts are the
code's; `MaxSequence` bounds how late a new candidate is recorded, and leaves
several updates after each other. The devices are the factory image, a board of
which only slot B was programmed and a blank one.

Deadlock is checked in every run: the loop, and the boot manager, always have
a step; the two exits of the loop stutter explicitly (`Gone`).

FeedbackLoop ends at its horizon with an explicit stutter (`Over`).

Fairness. `LoopStep` is weakly fair because the loop never blocks: `wfi`
returns at the next SysTick interrupt, 1 ms later (monotonic_timer.cpp:14, 26).
Time is strongly fair because the same interrupt advances it. `ReceiveAudio` is
weakly fair: a host that has selected the stream keeps sending; `StartSettles`
is about such a host, and says nothing about one that stops sending during the
prefill, which has no timeout. In the boot manager every step is strongly fair:
power may be cut again and again but not always at the same step of its few
milliseconds; the watchdog of a dead image fires. `ResetsRollBack` assumes no
reset of an image that merely runs: the resets are its premise. In AudioEngine a push that
began ends, the DMA consumes what it was given, and the interrupt and the
refill it runs are strongly fair, because interrupts are disabled only for the
length of a push. No fairness is asked of the
host, of failures or of power cuts.

Each property of a passing run has at least one mutant in `PROJECT.json`: a definition
named there (marked "Mutant of" in the module, just before the original) that
breaks the code in a plausible way and makes that property fail.

## 4. Proofs

TLC checks the instances above; the theorems hold for every value of the
constants that the named assumptions of the modules admit. Each module below
proves an inductive invariant (it holds initially, and every action keeps it:
one step of the proof per action, one lemma per function several actions call)
and takes the properties the runs check from it.

**RuntimeProofs** (any delays, queue capacity, tick and underrun bound, any set
of requests: `TimingAssumption`, `BoundAssumption`). Relay safety alone is not
inductive: closing the relay is justified by what was true of the devices in
each earlier stage. `IInv` adds `StageInv` (the DAC stays muted up to the last
stage; a DAC that is not ready is muted; the later stages run on a stable clock
with an engine that runs or has counted an error; a pending resume exists only
while playing) and `StartupInv` (before USB is initialized nothing has
started). From it `TypeCorrect`, `RelayIsSafe`, `FaultStaysQuiet`,
`HostIsToldTheTruth`, `AppFollowsStart`, `RingIsReadWhenJoined`, and
`OutputPathImplemented`: every action maps to a step of `OutputPath` or a
stutter. The mapping forgets the stage, so that the oscillator moves only
behind an open relay and a muted DAC has to come from `IInv`.

**RuntimeHostProofs**. A callback changes what the host last said at once and
queues an event; until the loop takes it, host and loop disagree, and nothing
that can be read off the loop alone is inductive. `HostInv` says for each kind
of request what the *last* queued event of that kind will make true, and what
holds when none is queued; that a kind is in `lost` excuses only what the last
request of that kind would have made true. They are `RateInv`, `MuteInv`,
`AltInv` (stream opened and closed), `LinkInv` (a host that left is quiet, or
its leaving is the last event), with `StreamInv` for the stages and `QueueInv`
for the end of a pass. An append and a take then each touch one end of the
queue. The runs lose starts, stops, connections and maintenance requests (`maintenance`);
that the loss of a mute, a rate or a detach does no more harm than it must is
left to these theorems, which hold whatever is lost. From it
`HostStopIsHonoured`, `LatestRateIsWanted`, `FeedbackIsForStream`,
`HostMuteIsHonoured`, and `PrefillIsForWantedRate`: the restart in the prefill
stage (main.cpp:148) is never taken.

**RuntimeDeadlineProofs**, two invariants beside Runtime's. `AgeInv` (assuming
`AgeAssumption`): in each stage the stopwatch and the time left add up to the
waits of the stages so far, which a poll keeps because it moves both by the
same ticks. From it `SwitchIsQuiet` and `RelayClosesAfterWaits`. `WindowInv`
(assuming `WrapAssumption` and `ArmAgeAssumption`): the word of a deadline is
the counter plus the ticks left, modulo any `Wrap`; that alone would not last,
since an expired word comes round again, so it also says that no expired
deadline is carried into another pass: the stages act on theirs, and the end of a
pass withdraws the arming (main.cpp:402-403). From it `WordsAnswer` and
`LeavesOnRequest`.

**AudioEngineProofs** (any capacity, transfer and packet size, any samples:
`CapacityAssumption`, `TransferAssumption`,
`UnderrunAssumption`, `SampleAssumption`). Whoever is half way through an
operation leaves a trace: `GuardInv` (the guard, the packet being copied, the
samples taken and not yet removed), `EngineInv` (a refill runs for a running
engine whose last transfer has ended, and a completion that comes after a stop
finds no engine to refill), `ContentInv` (the cells a push has
written and not published hold its packet, the buffer being filled holds what
the ring had). From it `TypeCorrect`, `RingStaysConsistent`,
`OneTransferAtATime`, `TransmitterIsFed`, and `PipeImplemented`, with the
arithmetic of the wrapped indices in lemmas of its own.

**UsbDeviceProofs** has the lemmas about the two rings of usb_device.cpp, for
every size of them: what an append, a take and an overwritten oldest entry are
of the sequence the array stands for. **ControlPathProofs** uses them
(`UsbSizeAssumption`, `ReportAssumption`, `VolumeAssumption`,
`DacTimingAssumption`, `ElapsedAssumption`). `ChipInv` follows the chip through
the bootstrap; without it `ReadyDriverKnowsChip` is not inductive, because the
mute and the attenuation of a chip that just became ready are those it powered
up with. `LoopInv`, `VolumeInv` and `ReportInv` follow a volume and a request
for a report through the queue, as `HostInv` does. From them `TypeCorrect`,
`ChipFollowsVolume` (for every volume, with the rounding of
`attenuation_from_uac2_db`, and after any loss but that of the last volume), `LastReportIsKept` and `EventLogImplemented`.

**BootManagerProofs** (any number of chunks and attempts, any images installed
and uploaded: `BootAssumption`, `InstalledAssumption`, `FlashAssumption`). A
program that reports failure may have written all the same: flash is then newer
than the boot manager believes. The invariant therefore speaks of three
records, the one a restart would load (`Persisted`), the one the next save
leaves alone (`Kept`) and the one in RAM: `SectorsInv` (nothing in flash is
newer than RAM; the sector being written is not the current one), `UploadInv`
(the slot being written is not the active one), `RecordsInv` (where the three
may differ), `GoodInv` (all three name a working image once flash does) and
`AppInv`. From it, whatever the flash does, `TypeCorrect`, `UnprovenIsWatched`,
`WorkingImageKept`, and with `UploadIsPrefix`, which then is inductive,
`UploadInOrder`. `TrialsAreBounded` and `ContractImplemented` assume
`FlashFails = FALSE`, as the run that checks the two properties does: they are
false otherwise, since choose_image starts a candidate whether or not its
attempt could be recorded (boot/main.cpp:103 ignores the result of
save_state). `BudgetInv` and `ChangeInv` say that then the record in flash is
the one in RAM outside a save, and what a save may change.

**FeedbackLoopProofs** (`FeedbackAssumption`: any rates, drifts and pauses).
`LimitInv` keeps value, filter and fill in their ranges; from it `PacketsFit`
and `CorrectionIsSmall`, on facts about the truncating division.

How the ring fills is not true of arbitrary rates and oscillators, so the other
three theorems assume `CodeWorld`: the two formats of the code, oscillators up
to 500 ppm apart, any quarter of a transfer under way when a stream joins. The
horizon, the pauses and, but for the last, the times of the bursts stay open:

- `NeverGlitches` (`NoGlitch`) and `EveryStartIsReady` (`ReadyToClose`) also
  assume `RareBursts`: bursts of at most 40 packets (5 ms), a second from start
  to start. `GapTimes = {}` satisfies it, and so does a burst in every second of
  an endless stream.
- `RingStaysCentred` (`Centred`) assumes no bursts, `SettleTime` of at least
  8000 microframes and a `Band` of at least 640 bytes, the values of the run.

The argument. Between two values of the controller the loop is linear but for
its truncations, with the state fill, filter (a 16th per step) and rate (an
8th). Boxes around the three are not inductive: each can be pushed out through
the other two. But the last two modes are fast, and the third, slow one has an
eigenvalue of about 230/231. `Trend` is the functional that picks it out: the
fill against its half, with the fractions of a frame and of a transfer and what
is still to flow (`Level`), plus 1669565 times the filtered error and 207174
times the rate's distance from nominal, in units of 1/25600000 byte, in which
everything is a whole number. `RingFlows` says that a microframe changes
`Level` by what flows and by the packets that were lost and nothing else;
`TrendContracts`, that a feedback takes `Trend` to 230/231 of itself, with an
offset from the truncations between -446/231 and 70/231 bytes; `PlayTrend` puts
the two together. `LevelIsBounded` leads back: the ring is within 800 bytes of
what `Trend` says, since filter and rate are in their ranges.

The inductive invariant `LoopInv` is then one-dimensional. `RangeInv` has the
ranges. `StageInv` says what the ring holds before playback: within less than a
packet of full after the oscillator has settled, which is what makes cold starts
predictable, and no more than 4151 bytes after a pause. `HighInv`: a cold start
begins with at most 4521 bytes of trend, loses 12 or more in each millisecond
until the relay closes, and stays below 3100 after that, so no packet is dropped
once audio is heard. `ColdInv`: until then it starts above 3183, loses at most 16
in a millisecond and 56 in each packet of one burst. `LowInv`: afterwards it is
above -1010, less 56 for each packet of a burst under way, and makes up for a
burst by 2.4 bytes a millisecond or more; a second is enough for the next, and
the lowest point of -3253 leaves more than one transfer in the ring. A pause
needs no case of its own: the bounds hold for whatever filter and rate it
leaves behind, which is why the code may keep the controller.

`CentreInv` bounds trend, filter and rate by one excess each, all three driven
by the same function `Excess` of the age of the stream: sixteen chords of the
decay by 1/231, since the proof needs numbers and no power. In a second it is
down to 98 bytes; with the 384 of the transfers' sawtooth and the offset of the
truncations that gives the 640.

These numbers do not fit TLC's integers of 32 bits, so this invariant, unlike
the others, was never a run's; `NoGlitch`, `ReadyToClose` and `Centred` are.

Only model-checked, and why:

- liveness, `BrokenAudioEnds`, `StartSettles`, `RollbackHappens`,
  `ResetsRollBack`, `KeepsSending`: fairness and ENABLED are outside the
  prover's reach;
- `NoGlitch` and `ReadyToClose` with bursts less than a second apart, in the
  instance of the run: there the bound on what a burst costs would have to add
  up what is not yet made up for.

## 5. What was found

- **A DMA error cannot be recovered from.** `dma_errors_` is cleared only when
  the engine starts, and the fault check looks at it in every pass from the
  first stage on; a fresh start after an error is faulted again in the pass it
  begins (`MCRuntime_restart`).
- **The oscillator of the other rate.** A rate request that returns to the
  active rate after the oscillator was switched and before the engine started
  restarts nothing (`MCRuntime_oscillator`).

Divergences between the documents and the code that need no run to be seen:

- `usb-interface.md:35` says that a stop opens the relay; a stop of a playing,
  mounted stream calls `enter_connected_idle` (main.cpp:332), which keeps the
  path connected on silence, as its comment intends.
- `firmware-update.md:75` says that no pending image is recorded before it is
  verified; `Begin` (boot/main.cpp:129) erases a slot that an earlier upload may
  still have recorded as pending. The boot manager verifies before it jumps, so
  the record is dropped at the next boot.
- `usb-interface.md:92` gives `98 04 D0` as the unmute write; `set_mute` writes
  `C0` (dac.cpp:39).
- `tools/read_diagnostics.py` names the events without `UpdaterArm`, which
  usb_device.hpp:10 has.
- `usb-interface.md:40` lists DMA errors among the faults; the vendored callback
  reports completions only, so an eDMA that stalls while playing is seen by
  neither of the two counters the loop looks at.

## 6. Plan

Done: Runtime, its timing and its deadlines as words; the ring and the engine,
the feedback loop, the DAC driver and the control path; the boot manager and
its contract; each of them checked, and the invariants, action properties and
refinements the runs check proved, except the liveness that section 4 lists.
Next:

1. The host updater (`flash_update.py`) as a process against `BootManager`, with
   lost replies and retries; trial health over the states of Runtime.
2. Bursts of lost packets closer than a second: a bound on the sum of what is
   not yet made up for, in place of the one burst of `LowInv`.
