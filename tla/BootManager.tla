---------------------------- MODULE BootManager ----------------------------
(***************************************************************************)
(* The A/B update: boot/main.cpp (the boot manager and the HID updater it  *)
(* falls into), the flash it writes through boot/flexspi_flash.cpp, and    *)
(* what the running application does to it (boot_control.cpp).             *)
(*                                                                         *)
(* What survives a reset is separate from what does not: the two copies of *)
(* the boot state and the two slots are flash; the reset token and the     *)
(* trial marker are a RAM mailbox doubled in SNVS registers, which a power *)
(* cut may or may not clear; everything else is RAM of the boot manager.   *)
(*                                                                         *)
(* A slot is Chunks pieces programmed in order, each from some image or    *)
(* blank; it verifies (SHA-256 over the whole) only when all are from one  *)
(* image. A "good" image runs healthily; a "dead" one verifies and stops   *)
(* refreshing the watchdog it armed; a "sick" one keeps looping, and so    *)
(* refreshing, without ever being healthy (its DAC or its USB never starts *)
(* or it stays in a fault).                                                *)
(***************************************************************************)
EXTENDS Integers, FlexSpiFlash

CONSTANTS
    Chunks,         \* bound: pieces of an image
    MaxAttempts,    \* update::maximum_trial_attempts
    MaxSequence,    \* bound: no candidate is recorded beyond this sequence
    Installed       \* the contents of the slots when the device first boots

ASSUME BootAssumption ==
    /\ Chunks \in Nat \ {0} /\ MaxAttempts \in Nat \ {0}
    /\ MaxSequence \in Nat

Slots  == {0, 1}
NoSlot == 255                                          \* update::no_slot
Other(s) == IF s = 0 THEN 1 ELSE 0

Images   == {"good", "dead", "sick"}
Contents == Images \cup {"blank", "garbage"}
Blank    == [c \in 1..Chunks |-> "blank"]
Holding(img) == [c \in 1..Chunks |-> img]

ASSUME InstalledAssumption == Installed \subseteq [Slots -> [1..Chunks -> Contents]]

BootStates == [sequence : Nat, active : Slots, pending : Slots \cup {NoSlot},
               attempts : 0..MaxAttempts]

(* The state of a device that has none: load_state's default. A sector     *)
(* whose CRC fails stands for it, since every record written has a         *)
(* sequence of at least 1 (save_state increments before it writes).        *)
NoState == [sequence |-> 0, active |-> 0, pending |-> NoSlot, attempts |-> 0]

VARIABLES
    copies,         \* the state sectors metadata_0 and metadata_1
    slots,          \* the application slots A and B
    token,          \* "none", "updater" or "confirm": why the last reset
    marker,         \* the running application is on trial
    pc,             \* where the boot manager is, or "app"
    after,          \* where it goes on after the save under way
    state,          \* BootState in RAM
    stateCopy,      \* state_address: the sector `state` came from, or NoSlot
    receiving, receiveSlot, receiveNext,
    running,        \* the slot whose application executes, or NoSlot
    trialRuns       \* history: starts of the recorded candidate

flash  == <<copies, slots>>
retained == <<token, marker>>
upload == <<receiving, receiveSlot, receiveNext>>
vars   == <<flash, retained, pc, after, state, stateCopy, upload, running, trialRuns>>

Places == {"load", "pending", "save", "program", "trial", "active", "other",
           "updater", "app"}

(* valid_header(slot, true). *)
Valid(s) == \E img \in Images : slots[s] = Holding(img)
Good(s)  == slots[s] = Holding("good")
Dead(s)  == slots[s] = Holding("dead")

(* Mutant of Newest: the first sector whenever it is valid. *)
NewestFirst == IF copies[0].sequence > 0 THEN 0 ELSE 1

(* The copy load_state chooses: the newer valid one, copy 0 on a tie. *)
Newest == IF copies[0].sequence >= copies[1].sequence THEN 0 ELSE 1
Persisted == copies[Newest]

----------------------------------------------------------------------------
(* Starting up. A power cut restarts the boot manager anywhere; the token  *)
(* and the marker may be lost with it. A sector being erased then is       *)
(* either old or not valid any more, as before and after EraseCopy.        *)

Restart ==
    /\ pc' = "load" /\ after' = "load"
    /\ state' = NoState /\ stateCopy' = NoSlot
    /\ receiving' = FALSE /\ receiveSlot' = NoSlot /\ receiveNext' = 0
    /\ running' = NoSlot
    /\ UNCHANGED <<flash, trialRuns>>

PowerLoss ==
    /\ Restart
    /\ token' \in {token, "none"} /\ marker' \in {marker, FALSE}

(* save_state() with continuation `next`, whatever it returns. *)
SaveThen(next) == pc' = "save" /\ after' = next

(* load_state() and the first half of choose_image: the token is consumed, *)
(* and a confirmed candidate becomes the active image.                     *)
Loaded ==
    /\ pc = "load"
    /\ stateCopy' = IF Persisted.sequence = 0 THEN NoSlot ELSE Newest
    /\ token' = "none"
    /\ UNCHANGED <<flash, marker, upload, running, trialRuns>>

Confirm ==
    /\ Loaded /\ token = "confirm"
    /\ Persisted.pending # NoSlot /\ Valid(Persisted.pending)
    /\ state' = [Persisted EXCEPT !.active = Persisted.pending,
                                  !.pending = NoSlot, !.attempts = 0]
    /\ SaveThen("pending")

EnterUpdater ==
    /\ Loaded /\ token = "updater"
    /\ state' = Persisted
    /\ pc' = "updater" /\ UNCHANGED after

Proceed ==
    /\ Loaded /\ token # "updater"
    /\ ~(token = "confirm" /\ Persisted.pending # NoSlot /\ Valid(Persisted.pending))
    /\ state' = Persisted
    /\ pc' = "pending" /\ UNCHANGED after

(* Mutant of TryPending: the attempt is counted in RAM only. *)
TryPendingUnsaved ==
    /\ pc = "pending" /\ state.pending # NoSlot
    /\ Valid(state.pending) /\ state.attempts < MaxAttempts
    /\ state' = [state EXCEPT !.attempts = @ + 1]
    /\ pc' = "trial"
    /\ UNCHANGED <<flash, retained, after, stateCopy, upload, running, trialRuns>>

(* Mutant of TryPending: the attempts are not checked. *)
TryPendingUnlimited ==
    /\ pc = "pending" /\ state.pending # NoSlot /\ Valid(state.pending)
    /\ state' = [state EXCEPT !.attempts = @ + 1]
    /\ SaveThen("trial")
    /\ UNCHANGED <<flash, retained, stateCopy, upload, running, trialRuns>>

(* The second half: the candidate, the active image, the other one. *)
TryPending ==
    /\ pc = "pending" /\ state.pending # NoSlot
    /\ Valid(state.pending) /\ state.attempts < MaxAttempts
    /\ state' = [state EXCEPT !.attempts = @ + 1]
    /\ SaveThen("trial")
    /\ UNCHANGED <<flash, retained, stateCopy, upload, running, trialRuns>>

AbandonPending ==
    /\ pc = "pending" /\ state.pending # NoSlot
    /\ ~(Valid(state.pending) /\ state.attempts < MaxAttempts)
    /\ state' = [state EXCEPT !.pending = NoSlot, !.attempts = 0]
    /\ SaveThen("active")
    /\ UNCHANGED <<flash, retained, stateCopy, upload, running, trialRuns>>

NothingPending ==
    /\ pc = "pending" /\ state.pending = NoSlot
    /\ pc' = "active"
    /\ UNCHANGED <<flash, retained, after, state, stateCopy, upload, running, trialRuns>>

FallBack ==
    /\ pc = "active" /\ ~Valid(state.active) /\ Valid(Other(state.active))
    /\ state' = [state EXCEPT !.active = Other(@)]
    /\ SaveThen("other")
    /\ UNCHANGED <<flash, retained, stateCopy, upload, running, trialRuns>>

NoImage ==
    /\ pc = "active" /\ \A s \in Slots : ~Valid(s)
    /\ pc' = "updater"
    /\ UNCHANGED <<flash, retained, after, state, stateCopy, upload, running, trialRuns>>

(* Mutant of Jump: no image is marked as being on trial. *)
JumpUnmarked(s, trial) ==
    /\ running' = s /\ pc' = "app" /\ marker' = FALSE
    /\ trialRuns' = IF trial /\ trialRuns <= MaxAttempts THEN trialRuns + 1 ELSE trialRuns
    /\ UNCHANGED <<flash, token, after, state, stateCopy, upload>>

(* jump_to(slot, trial). *)
Jump(s, trial) ==
    /\ running' = s /\ pc' = "app" /\ marker' = trial
    /\ trialRuns' = IF trial /\ trialRuns <= MaxAttempts THEN trialRuns + 1 ELSE trialRuns
    /\ UNCHANGED <<flash, token, after, state, stateCopy, upload>>

JumpTrial  == pc = "trial" /\ Jump(state.pending, TRUE)
JumpActive == pc = "active" /\ Valid(state.active) /\ Jump(state.active, FALSE)
JumpOther  == pc = "other" /\ Jump(state.active, FALSE)

----------------------------------------------------------------------------
(* save_state: the sector that does not hold the current record is erased, *)
(* then programmed. Its result is ignored by the boot path; a failed save  *)
(* leaves state_address, and the updater keeps receiving.                  *)

(* Mutant of SaveTarget: always the first sector. *)
SaveTargetFirst == 0

SaveTarget == IF stateCopy = 0 THEN 1 ELSE 0

(* The flash now holds the record r; unless it counts a trial, it records  *)
(* a new candidate or none, and the history starts again.                  *)
Written(r) ==
    /\ copies' = [copies EXCEPT ![SaveTarget] = r]
    /\ trialRuns' = IF after = "trial" THEN trialRuns ELSE 0

SaveFails ==
    /\ pc' = after
    /\ UNCHANGED <<slots, retained, after, stateCopy, upload, running>>

(* ensure_flash() finds no chip: nothing is written, not even in RAM. *)
NoFlash ==
    /\ FlashFails /\ pc = "save" /\ SaveFails
    /\ UNCHANGED <<state, copies, trialRuns>>

EraseCopy ==
    /\ pc = "save"
    /\ state' = [state EXCEPT !.sequence = @ + 1]
    /\ \E r \in EraseSector(copies[SaveTarget], NoState, NoState) :
          /\ copies' = [copies EXCEPT ![SaveTarget] = r.now]
          /\ pc' = IF r.ok THEN "program" ELSE after
    /\ UNCHANGED <<slots, retained, after, stateCopy, upload, running, trialRuns>>

(* Two programs of half a record: one of them missing leaves no valid one. *)
Programming(ok) ==
    \E r \in Program(copies[SaveTarget], state, NoState, state) :
       /\ r.ok = ok
       /\ IF r.now = state THEN Written(state) ELSE UNCHANGED <<copies, trialRuns>>

ProgramCopy ==
    /\ pc = "program" /\ Programming(TRUE)
    /\ stateCopy' = SaveTarget
    /\ receiving' = FALSE                                    \* handle(), End
    /\ pc' = after
    /\ UNCHANGED <<slots, retained, after, state, receiveSlot, receiveNext, running>>

(* A program that reports failure may have written everything. *)
ProgramCopyFails ==
    /\ pc = "program" /\ SaveFails /\ Programming(FALSE)
    /\ UNCHANGED state

----------------------------------------------------------------------------
(* The updater: handle(). A report that is rejected changes nothing.       *)

(* Mutant of ReceiveTarget: the slot that is running. *)
ReceiveTargetActive == state.active

ReceiveTarget == Other(state.active)

(* erase_image walks the slot upwards and stops at a sector that fails,   *)
(* so the header goes first: an erase cut short leaves an invalid slot.    *)
EraseStops(s, n, left) ==
    [slots EXCEPT ![s] = [c \in 1..Chunks |-> IF c < n THEN "blank"
                                              ELSE IF c = n THEN left ELSE @[c]]]

Begin ==
    /\ pc = "updater"
    /\ slots' = [slots EXCEPT ![ReceiveTarget] = Blank]
    /\ receiving' = TRUE /\ receiveSlot' = ReceiveTarget /\ receiveNext' = 0
    /\ UNCHANGED <<copies, retained, pc, after, state, stateCopy, running, trialRuns>>

(* ensure_flash() was tried at start-up only: handle() does not ask.       *)
BeginFails ==
    /\ pc = "updater"
    /\ \E n \in 1..Chunks :
          \E r \in EraseSector(slots[ReceiveTarget][n], "garbage", "blank") :
             ~r.ok /\ slots' = EraseStops(ReceiveTarget, n, r.now)
    /\ receiving' = FALSE
    /\ UNCHANGED <<copies, retained, pc, after, state, stateCopy, receiveSlot,
                   receiveNext, running, trialRuns>>

(* A piece lands on a blank page or on the same data; NOR ANDs others. *)
Programmed(old, img) == IF old \in {"blank", img} THEN img ELSE "garbage"

(* Mutant of Data: a piece is programmed wherever its offset says. *)
DataAnyOffset(img, offset) ==
    /\ pc = "updater" /\ receiving /\ receiveNext < Chunks
    /\ LET old == slots[receiveSlot][offset + 1]
       IN \E r \in Program(old, Programmed(old, img), "garbage", img) :
             /\ slots' = [slots EXCEPT ![receiveSlot][offset + 1] = r.now]
             /\ receiveNext' = IF r.ok THEN receiveNext + 1 ELSE receiveNext
    /\ UNCHANGED <<copies, retained, pc, after, state, stateCopy, receiving,
                   receiveSlot, running, trialRuns>>

(* The host sends a piece at any offset, again or ahead of its turn; only  *)
(* the next one of the upload under way is programmed. It counts if it     *)
(* reads back as sent, and the host may send it again if it does not.      *)
Data(img, offset) ==
    /\ pc = "updater" /\ receiving /\ offset = receiveNext /\ offset < Chunks
    /\ LET old == slots[receiveSlot][offset + 1]
       IN \E r \in Program(old, Programmed(old, img), "garbage", img) :
             /\ slots' = [slots EXCEPT ![receiveSlot][offset + 1] = r.now]
             /\ receiveNext' = IF r.ok THEN receiveNext + 1 ELSE receiveNext
    /\ UNCHANGED <<copies, retained, pc, after, state, stateCopy, receiving,
                   receiveSlot, running, trialRuns>>

End ==
    /\ pc = "updater" /\ receiving /\ receiveNext = Chunks /\ Valid(receiveSlot)
    /\ state.sequence < MaxSequence
    /\ state' = [state EXCEPT !.pending = receiveSlot, !.attempts = 0]
    /\ SaveThen("updater")
    /\ UNCHANGED <<flash, retained, stateCopy, upload, running, trialRuns>>

Abort ==
    /\ pc = "updater" /\ receiving /\ receiving' = FALSE
    /\ UNCHANGED <<flash, retained, pc, after, state, stateCopy, receiveSlot,
                   receiveNext, running, trialRuns>>

Reboot == pc = "updater" /\ Restart /\ UNCHANGED retained

----------------------------------------------------------------------------
(* The application in a slot: main.cpp and boot_control.cpp.               *)

(* poll_trial_health after a healthy minute of a trial. *)
AppConfirms ==
    /\ pc = "app" /\ marker /\ Good(running)
    /\ Restart /\ token' = "confirm" /\ UNCHANGED marker

(* The second DYKO-FW-UPDATE01 request: request_updater(). *)
AppUpdater ==
    /\ pc = "app" /\ ~Dead(running)
    /\ Restart /\ token' = "updater" /\ UNCHANGED marker

(* Five seconds without a refresh: RTWDOG, armed by trial_boot() only. *)
Watchdog ==
    /\ pc = "app" /\ marker /\ Dead(running)
    /\ Restart /\ UNCHANGED retained

Init ==
    /\ copies = [c \in {0, 1} |-> NoState] /\ slots \in Installed
    /\ token = "none" /\ marker = FALSE
    /\ pc = "load" /\ after = "load"
    /\ state = NoState /\ stateCopy = NoSlot
    /\ receiving = FALSE /\ receiveSlot = NoSlot /\ receiveNext = 0
    /\ running = NoSlot /\ trialRuns = 0

Load      == Confirm \/ EnterUpdater \/ Proceed
Candidate == TryPending \/ AbandonPending \/ NothingPending
Otherwise == FallBack \/ NoImage
Start  == JumpTrial \/ JumpActive \/ JumpOther
Save   == EraseCopy \/ ProgramCopy
FlashFailure == NoFlash \/ ProgramCopyFails \/ BeginFails
Update ==
    \/ Begin \/ End \/ Abort \/ Reboot
    \/ \E img \in Images, offset \in 0..(Chunks - 1) : Data(img, offset)
App    == AppConfirms \/ AppUpdater \/ Watchdog

Next == Load \/ Candidate \/ Otherwise \/ Start \/ Save \/ FlashFailure \/ Update \/ App \/ PowerLoss

Spec == Init /\ [][Next]_vars

(* The boot manager never waits; power may be cut over and over, but not   *)
(* always at the same step of its few milliseconds; a dead image is reset  *)
(* by the watchdog it armed.                                               *)
Fairness ==
    /\ SF_vars(Load) /\ SF_vars(Candidate) /\ SF_vars(Otherwise)
    /\ SF_vars(Start) /\ SF_vars(EraseCopy) /\ SF_vars(ProgramCopy)
    /\ WF_vars(Watchdog)

LiveSpec == Spec /\ Fairness

----------------------------------------------------------------------------
(* What must hold. *)

(* Every variable keeps its type. *)
TypeOK ==
    /\ copies \in [{0, 1} -> BootStates] /\ slots \in [Slots -> [1..Chunks -> Contents]]
    /\ token \in {"none", "updater", "confirm"} /\ marker \in BOOLEAN
    /\ pc \in Places /\ after \in Places
    /\ state \in BootStates /\ stateCopy \in {0, 1, NoSlot}
    /\ receiving \in BOOLEAN /\ receiveSlot \in Slots \cup {NoSlot}
    /\ receiveNext \in 0..Chunks
    /\ running \in Slots \cup {NoSlot} /\ trialRuns \in 0..(MaxAttempts + 1)

(* The image the record in flash names as active works. *)
SafelyInstalled == Good(Persisted.active)

(* Once the device has a working active image, it keeps one, whatever is   *)
(* uploaded, wherever power is cut and whichever erase or program fails:   *)
(* the updater writes only the inactive slot, a candidate replaces the     *)
(* active image only after it proved itself, and a half-written record     *)
(* leaves the previous one (firmware-update.md, "Power-loss behavior").    *)
KnownGoodKept == [][SafelyInstalled => SafelyInstalled']_vars

(* While a working image is installed, an image that does not work runs    *)
(* only on trial, where the watchdog or three resets end it: a device      *)
(* never gets stuck in a candidate (jump_to's marker, choose_image's       *)
(* order).                                                                 *)
UnprovenRunsWatched ==
    (pc = "app" /\ ~Good(running) /\ SafelyInstalled) => marker

(* What the updater has counted as received is in the slot, and nothing    *)
(* but the piece under way is beyond it: receive_next is where the next    *)
(* piece goes, whichever pieces come twice or ahead of their turn and      *)
(* whatever a program leaves behind when it fails. An image stitched       *)
(* together out of order could otherwise be counted complete (handle()'s   *)
(* offset check).                                                          *)
UploadIsPrefix ==
    receiving =>
        /\ \A c \in 1..receiveNext : slots[receiveSlot][c] \in Images
        /\ \A c \in 1..Chunks : c > receiveNext + 1 => slots[receiveSlot][c] = "blank"

(* A recorded candidate is started at most maximum_trial_attempts times,   *)
(* across every reset and power cut (firmware-update.md, "The candidate    *)
(* receives three boot attempts").                                         *)
TrialBudget == trialRuns <= MaxAttempts

(* A candidate that does not work is dropped in the end, unless the device *)
(* goes back to the updater: the resets of a dead image cannot go on       *)
(* starting it for ever.                                                   *)
DeadPending == Persisted.pending # NoSlot /\ Dead(Persisted.pending)
RollbackHappens == []<>(~DeadPending \/ pc = "updater")

(* A candidate that runs but never gets healthy is not reset by the        *)
(* watchdog, which the loop refreshes either way: it is dropped in the end *)
(* if somebody keeps resetting it (firmware-update.md, "Until              *)
(* confirmation, three resets cause the boot manager to abandon the        *)
(* candidate"), unless the device goes back to the updater.                *)
Unhealthy == pc = "app" /\ slots[running] = Holding("sick")
SickPending == Persisted.pending # NoSlot /\ slots[Persisted.pending] = Holding("sick")
ResetsRollBack ==
    []<><<Unhealthy /\ PowerLoss>>_vars => []<>(~SickPending \/ pc = "updater")

(* The two sectors together keep the one record of BootContract. *)
Contract == INSTANCE BootContract WITH
    active <- Persisted.active, pending <- Persisted.pending,
    attempts <- Persisted.attempts, runs <- trialRuns,
    trial <- (pc = "app" /\ marker)

(* With a flash that does what it is told, the record changes only as the  *)
(* contract allows, although power may be cut at any step.                 *)
ImplementsContract == Contract!Spec
=============================================================================
