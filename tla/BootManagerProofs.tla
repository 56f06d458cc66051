-------------------------- MODULE BootManagerProofs --------------------------
(***************************************************************************)
(* Proofs about BootManager for every value of its constants: whatever is  *)
(* installed and uploaded, however large an image is and whatever a flash  *)
(* may refuse, time out on or silently not do.                             *)
(*                                                                         *)
(* The difficulty is a program that reports failure and has written all    *)
(* the same: the record in flash is then newer than the sector the boot    *)
(* manager believes to be current, and the next save erases it. The        *)
(* invariant therefore speaks of three records: the one a restart would    *)
(* load (Persisted), the one the next save leaves alone (Kept), and the    *)
(* one in RAM (state).                                                     *)
(***************************************************************************)
EXTENDS BootManager, TLAPS

(* The record in the sector that save_state leaves alone. *)
Kept == copies[Other(SaveTarget)]

Saving == pc \in {"save", "program"}

(* Where the boot manager is, or goes on after the save under way. *)
Place == IF Saving THEN after ELSE pc

Resumable == {"pending", "trial", "active", "other", "updater"}

ActivesAgree    == Persisted.active = state.active /\ Kept.active = state.active
CandidatesAgree == Persisted.pending = state.pending /\ Kept.pending = state.pending

(* Nothing in flash is newer than the record in RAM; the sector that is    *)
(* being written is not the current one.                                   *)
SectorsInv ==
    /\ \A c \in {0, 1} : copies[c].sequence = 0 => copies[c] = NoState
    /\ pc # "load" =>
          /\ \A c \in {0, 1} : copies[c].sequence <= state.sequence
          /\ Kept.sequence = 0 => stateCopy = NoSlot
          /\ stateCopy = NoSlot => Kept = NoState
    /\ pc = "program" => copies[SaveTarget] = NoState /\ Kept.sequence < state.sequence

(* What the updater writes is never the slot RAM calls active. *)
UploadInv ==
    receiving => receiveSlot = Other(state.active) /\ Place = "updater"

(* Which of the three records may differ, and where. *)
RecordsInv ==
    /\ Saving => after \in Resumable
    /\ Place \in {"pending", "active"} => Good(state.active) \/ ActivesAgree
    /\ Place \in {"trial", "updater"} => ActivesAgree
    /\ Place = "pending" /\ state.pending # NoSlot => ActivesAgree
    /\ Place = "pending" /\ state.pending # NoSlot => CandidatesAgree
    /\ Place = "trial" => state.pending # NoSlot /\ CandidatesAgree

(* A working image the record in flash names is not given up: the record   *)
(* in RAM, and the one the next save leaves, name a working one as well.   *)
GoodInv ==
    /\ Place \in Resumable => (Good(Persisted.active) => Good(state.active))
    /\ Saving => (Good(Persisted.active) => Good(Kept.active))
    /\ Saving => (Good(Kept.active) => Good(state.active))

(* The application: which slot it runs from, and what a confirmation is of. *)
AppInv ==
    /\ pc = "app" => running \in Slots
    /\ pc = "app" /\ marker => Persisted.pending = running
    /\ token = "confirm" => pc = "load" /\ Good(Persisted.pending)
    /\ UnprovenRunsWatched

IInv == TypeOK /\ SectorsInv /\ UploadInv /\ RecordsInv /\ GoodInv /\ AppInv

----------------------------------------------------------------------------
(* With a flash that does what it is told, the record is the one in RAM    *)
(* whenever no save is under way, and a save changes it in one of the ways *)
(* BootContract allows.                                                    *)
ChangeInv ==
    /\ after = "trial" =>
          /\ state.active = Persisted.active /\ state.pending = Persisted.pending
          /\ state.attempts = Persisted.attempts + 1
    /\ after = "pending" =>
          /\ Persisted.pending # NoSlot /\ trialRuns > 0
          /\ state.active = Persisted.pending /\ state.pending = NoSlot /\ state.attempts = 0
    /\ after = "active" =>
          /\ Persisted.pending # NoSlot
          /\ state.active = Persisted.active /\ state.pending = NoSlot /\ state.attempts = 0
    /\ after = "other" =>
          /\ Persisted.pending = NoSlot
          /\ state.active = Other(Persisted.active) /\ state.pending = NoSlot
          /\ state.attempts = 0
    /\ after = "updater" =>
          /\ state.active = Persisted.active /\ state.pending = Other(Persisted.active)
          /\ state.attempts = 0

(* The candidate has been started no more often than the record counts.    *)
BudgetInv ==
    /\ pc # "load" => Persisted = Kept
    /\ pc \in Resumable => state = Persisted
    /\ trialRuns <= Persisted.attempts
    /\ Persisted.pending = NoSlot => Persisted.attempts = 0
    /\ pc = "trial" => trialRuns < Persisted.attempts
    /\ pc \in {"active", "other"} => state.pending = NoSlot
    /\ token = "confirm" => Persisted.pending # NoSlot /\ trialRuns > 0
    /\ pc = "app" /\ marker => trialRuns > 0
    /\ Saving => ChangeInv

----------------------------------------------------------------------------
(* What the flash driver and the sectors do. *)

(* A successful erase or program left what it was to write; any outcome    *)
(* leaves the old, the cut short or the new content.                       *)
LEMMA ModifiedFacts ==
    ASSUME NEW old, NEW new, NEW cut, NEW wanted, NEW r \in Modified(old, new, cut, wanted)
    PROVE  /\ r.now \in {old, cut, new}
           /\ r.ok \in BOOLEAN
           /\ r.ok => r.now = wanted
<1>1. CASE \E enabled \in {e \in Commands : ~e} : r = [ok |-> FALSE, now |-> old]
  BY <1>1
<1>2. CASE \E done \in Commands, ready \in Ready, now \in Left(old, new, cut) :
              r = [ok |-> done /\ ready /\ now = wanted, now |-> now]
  <2>1. PICK done \in Commands, ready \in Ready, now \in Left(old, new, cut) :
              r = [ok |-> done /\ ready /\ now = wanted, now |-> now]
    BY <1>2
  <2>2. r.now = now /\ r.ok = (done /\ ready /\ now = wanted)
    BY <2>1
  <2>3. now \in {old, cut, new}
    BY <2>1 DEF Left
  <2>4. done \in BOOLEAN /\ ready \in BOOLEAN
    BY <2>1 DEF Commands, Ready
  <2> QED
    BY <2>2, <2>3, <2>4
<1>3. \/ r \in {[ok |-> FALSE, now |-> old] : enabled \in {e \in Commands : ~e}}
      \/ r \in {[ok |-> done /\ ready /\ now = wanted, now |-> now] :
                done \in Commands, ready \in Ready, now \in Left(old, new, cut)}
  BY DEF Modified
<1>4. CASE r \in {[ok |-> FALSE, now |-> old] : enabled \in {e \in Commands : ~e}}
  BY <1>1, <1>4
<1>5. CASE r \in {[ok |-> done /\ ready /\ now = wanted, now |-> now] :
                done \in Commands, ready \in Ready, now \in Left(old, new, cut)}
  <2>1. \E done \in Commands, ready \in Ready, now \in Left(old, new, cut) :
              r = [ok |-> done /\ ready /\ now = wanted, now |-> now]
    BY <1>5, SMT
  <2> QED
    BY <1>2, <2>1
<1> QED
  BY <1>3, <1>4, <1>5

(* A flash that does what it is told reports success. *)
LEMMA ModifiedSucceeds ==
    ASSUME NEW old, NEW cut, NEW wanted, FlashFails = FALSE,
           NEW r \in Modified(old, wanted, cut, wanted)
    PROVE  r.ok = TRUE /\ r.now = wanted
<1>1. Commands = {TRUE} /\ Ready = {TRUE} /\ Left(old, wanted, cut) = {wanted}
  BY DEF Commands, Ready, Left
<1>2. {e \in Commands : ~e} = {}
  BY <1>1
<1>3. PICK done \in {TRUE}, ready \in {TRUE}, now \in {wanted} :
         r = [ok |-> done /\ ready /\ now = wanted, now |-> now]
  <2>1. r \in {[ok |-> done /\ ready /\ now = wanted, now |-> now] :
                done \in Commands, ready \in Ready, now \in Left(old, wanted, cut)}
    BY <1>2 DEF Modified
  <2> QED
    BY <1>1, <2>1, SMT
<1> QED
  BY <1>3

LEMMA NoStateType == NoState \in BootStates
BY BootAssumption DEF NoState, BootStates, Slots, NoSlot

(* How the boot manager changes a record. *)
LEMMA RecordUpdates ==
    ASSUME NEW r \in BootStates
    PROVE  /\ r.sequence \in Nat /\ r.active \in Slots /\ r.pending \in Slots \cup {NoSlot}
           /\ r.attempts \in 0..MaxAttempts
           /\ [r EXCEPT !.sequence = r.sequence + 1] \in BootStates
           /\ r.attempts < MaxAttempts => [r EXCEPT !.attempts = r.attempts + 1] \in BootStates
           /\ [r EXCEPT !.active = Other(r.active)] \in BootStates
           /\ \A p \in Slots \cup {NoSlot} :
                 [r EXCEPT !.pending = p, !.attempts = 0] \in BootStates
           /\ \A a \in Slots :
                 [r EXCEPT !.active = a, !.pending = NoSlot, !.attempts = 0] \in BootStates
<1> USE BootAssumption DEF BootStates
<1>1. /\ r.sequence \in Nat /\ r.active \in Slots /\ r.pending \in Slots \cup {NoSlot}
      /\ r.attempts \in 0..MaxAttempts
  OBVIOUS
<1>2. [r EXCEPT !.sequence = r.sequence + 1] \in BootStates
  <2>1. r.sequence + 1 \in Nat
    BY <1>1
  <2> QED
    BY <2>1
<1>3. r.attempts < MaxAttempts => [r EXCEPT !.attempts = r.attempts + 1] \in BootStates
  <2>1. r.attempts < MaxAttempts => r.attempts + 1 \in 0..MaxAttempts
    BY <1>1
  <2> QED
    BY <2>1
<1>4. [r EXCEPT !.active = Other(r.active)] \in BootStates
  <2>1. Other(r.active) \in Slots
    BY DEF Other, Slots
  <2> QED
    BY <2>1
<1>5. 0 \in 0..MaxAttempts
  OBVIOUS
<1>6. ASSUME NEW p \in Slots \cup {NoSlot}
      PROVE  [r EXCEPT !.pending = p, !.attempts = 0] \in BootStates
  BY <1>5
<1>7. ASSUME NEW a \in Slots
      PROVE  [r EXCEPT !.active = a, !.pending = NoSlot, !.attempts = 0] \in BootStates
  BY <1>5
<1> QED
  BY <1>1, <1>2, <1>3, <1>4, <1>6, <1>7

(* The record kept is in one of the two sectors, the one being written in  *)
(* the other.                                                              *)
LEMMA SectorFacts ==
    ASSUME TypeOK
    PROVE  /\ SaveTarget \in {0, 1} /\ Other(SaveTarget) \in {0, 1}
           /\ SaveTarget # Other(SaveTarget) /\ {0, 1} = {SaveTarget, Other(SaveTarget)}
           /\ copies[SaveTarget] \in BootStates
           /\ Kept \in BootStates /\ Persisted \in BootStates
           /\ stateCopy # NoSlot => Other(SaveTarget) = stateCopy
           /\ stateCopy = NoSlot => SaveTarget = 0
           /\ Persisted \in {Kept, copies[SaveTarget]}
           /\ copies[SaveTarget].sequence < Kept.sequence => Persisted = Kept
           /\ copies[SaveTarget].sequence > Kept.sequence => Persisted = copies[SaveTarget]
BY DEF TypeOK, SaveTarget, Kept, Persisted, Newest, Other, NoSlot, BootStates

LEMMA RecordsFrame ==
    ASSUME UNCHANGED <<copies, stateCopy>>
    PROVE  Persisted' = Persisted /\ Kept' = Kept /\ SaveTarget' = SaveTarget
BY DEF Persisted, Newest, Kept, SaveTarget

(* Restarting loads the newer record, and the next save keeps it. *)
LEMMA LoadFacts ==
    ASSUME IInv, Loaded
    PROVE  Persisted' = Persisted /\ Kept' = Persisted /\ copies' = copies
           /\ (Persisted.sequence = 0 => stateCopy' = NoSlot /\ Persisted = NoState)
           /\ (stateCopy' = NoSlot => Persisted.sequence = 0)
           /\ \A c \in {0, 1} : copies[c].sequence <= Persisted.sequence
<1>1. copies[0] \in BootStates /\ copies[1] \in BootStates
  BY DEF IInv, TypeOK
<1>2. copies[0].sequence \in Nat /\ copies[1].sequence \in Nat
  BY <1>1 DEF BootStates
<1>3. \A c \in {0, 1} : copies[c].sequence = 0 => copies[c] = NoState
  BY DEF IInv, SectorsInv
<1>4. copies' = copies /\ stateCopy' = IF Persisted.sequence = 0 THEN NoSlot ELSE Newest
  BY DEF Loaded, flash
<1> QED
  BY <1>2, <1>3, <1>4 DEF Persisted, Newest, Kept, SaveTarget, Other, NoSlot

(* While a save is under way the record kept does not change; what a       *)
(* restart would load is as before, or the one kept.                       *)
LEMMA EraseFacts ==
    ASSUME IInv, EraseCopy
    PROVE  /\ Persisted' \in {Persisted, Kept} /\ Kept' = Kept /\ SaveTarget' = SaveTarget
           /\ copies'[SaveTarget] \in {copies[SaveTarget], NoState}
           /\ copies' = [copies EXCEPT ![SaveTarget] = copies'[SaveTarget]]
           /\ pc' = "program" => copies'[SaveTarget] = NoState /\ Persisted' = Kept
           /\ pc' \in {"program", after}
<1>1. PICK r \in EraseSector(copies[SaveTarget], NoState, NoState) :
         /\ copies' = [copies EXCEPT ![SaveTarget] = r.now]
         /\ pc' = IF r.ok THEN "program" ELSE after
  BY DEF EraseCopy
<1>2. pc = "save" /\ after \in Resumable /\ stateCopy' = stateCopy
  BY DEF EraseCopy, IInv, RecordsInv, Saving
<1>3. r.now \in {copies[SaveTarget], NoState} /\ r.ok \in BOOLEAN
      /\ (r.ok => r.now = NoState)
  BY <1>1, ModifiedFacts DEF EraseSector
<1>4. /\ SaveTarget \in {0, 1} /\ Other(SaveTarget) \in {0, 1} /\ SaveTarget # Other(SaveTarget)
      /\ copies \in [{0, 1} -> BootStates]
  BY SectorFacts DEF IInv, TypeOK
<1>5. copies'[SaveTarget] = r.now /\ Kept' = Kept /\ SaveTarget' = SaveTarget
  BY <1>1, <1>2, <1>4 DEF Kept, SaveTarget
<1>6. pc' = "program" => r.ok
  BY <1>1, <1>2 DEF Resumable
<1>7. CASE r.now = copies[SaveTarget]
  <2>1. copies' = copies
    BY <1>1, <1>4, <1>7
  <2>2. Persisted' = Persisted
    BY <1>2, <2>1, RecordsFrame
  <2>3. r.ok => Persisted' = Kept
    <3> SUFFICES ASSUME r.ok PROVE Persisted = Kept
      BY <2>2
    <3>1. copies[SaveTarget] = NoState
      BY <1>3, <1>7
    <3> QED
      BY <1>2, <1>4, <3>1, SectorFacts DEF IInv, TypeOK, SectorsInv, NoState, BootStates,
         Persisted, Newest, Kept, SaveTarget, Other, NoSlot
  <2> QED
    BY <1>1, <1>3, <1>5, <1>6, <2>2, <2>3
<1>8. CASE r.now = NoState
  <2>1. Kept.sequence \in Nat /\ (Kept.sequence = 0 => stateCopy = NoSlot /\ Kept = NoState)
    BY <1>2, SectorFacts DEF IInv, SectorsInv, BootStates
  <2>2. copies'[SaveTarget].sequence = 0 /\ copies'[Other(SaveTarget)] = Kept
    BY <1>4, <1>5, <1>8 DEF NoState, Kept
  <2>3. Persisted' = Kept
    BY <1>2, <1>4, <1>5, <1>8, <2>1, <2>2 DEF Persisted, Newest, SaveTarget, Other, NoSlot
  <2> QED
    BY <1>1, <1>3, <1>5, <1>6, <2>3
<1> QED
  BY <1>3, <1>7, <1>8

(* Programming the erased sector writes the record in RAM or nothing that  *)
(* counts, whatever it reports.                                            *)
LEMMA ProgramFacts ==
    ASSUME IInv, pc = "program", NEW ok, Programming(ok)
    PROVE  \/ /\ copies' = copies /\ trialRuns' = trialRuns
              /\ ~ok
           \/ /\ copies' = [copies EXCEPT ![SaveTarget] = state]
              /\ trialRuns' = IF after = "trial" THEN trialRuns ELSE 0
              /\ Persisted' = state
<1>1. PICK r \in Program(copies[SaveTarget], state, NoState, state) :
         /\ r.ok = ok
         /\ IF r.now = state THEN Written(state) ELSE UNCHANGED <<copies, trialRuns>>
  BY DEF Programming
<1>2. r.ok => r.now = state
  BY <1>1, ModifiedFacts DEF Program
<1>3. ASSUME Written(state) PROVE Persisted' = state
  <2>1. /\ SaveTarget \in {0, 1} /\ copies \in [{0, 1} -> BootStates]
        /\ state.sequence \in Nat /\ Kept.sequence \in Nat
    BY SectorFacts DEF IInv, TypeOK, BootStates
  <2>2. copies[SaveTarget] = NoState /\ Kept.sequence < state.sequence
    BY DEF IInv, SectorsInv
  <2>3. copies'[SaveTarget] = state /\ copies'[Other(SaveTarget)] = Kept
    BY <1>3, <2>1 DEF Written, Kept, Other
  <2> QED
    BY <2>1, <2>2, <2>3 DEF Persisted, Newest, Other
<1> QED
  BY <1>1, <1>2, <1>3 DEF Written

----------------------------------------------------------------------------
(* Types. *)

LEMMA TypePreserved ==
    ASSUME IInv, Next
    PROVE  TypeOK'
<1> USE BootAssumption
<1>1. TypeOK
  BY DEF IInv
<1>0. 0 \in 0..Chunks /\ 0 \in 0..(MaxAttempts + 1)
  OBVIOUS
<1>2. CASE PowerLoss \/ Reboot \/ App
  <2>1. marker' \in BOOLEAN
    BY <1>1, <1>2 DEF TypeOK, PowerLoss, Reboot, App, AppConfirms, AppUpdater, Watchdog, retained
  <2>2. token' \in {"none", "updater", "confirm"}
    BY <1>1, <1>2 DEF TypeOK, PowerLoss, Reboot, App, AppConfirms, AppUpdater, Watchdog, retained
  <2>3. Restart
    BY <1>2 DEF PowerLoss, Reboot, App, AppConfirms, AppUpdater, Watchdog
  <2> QED
    BY <1>1, <1>0, <2>1, <2>2, <2>3, NoStateType DEF TypeOK, Restart, Places, flash, NoSlot
<1>3. CASE Load
  <2>1. Persisted \in BootStates /\ Newest \in {0, 1}
    BY <1>1, SectorFacts DEF Newest
  <2>2. [Persisted EXCEPT !.active = Persisted.pending, !.pending = NoSlot, !.attempts = 0]
          \in BootStates \/ Persisted.pending = NoSlot
    BY <2>1, RecordUpdates
  <2>3. state' \in BootStates
    BY <1>3, <2>1, <2>2 DEF Load, Confirm, EnterUpdater, Proceed
  <2> QED
    BY <1>1, <1>3, <2>1, <2>3 DEF TypeOK, Load, Confirm, EnterUpdater, Proceed, Loaded, SaveThen,
       Places, flash, upload, NoSlot
<1>4. CASE Candidate \/ Otherwise
  <2>1. state' \in BootStates
    <3>1. state \in BootStates /\ NoSlot \in Slots \cup {NoSlot}
      BY <1>1 DEF TypeOK
    <3>2. CASE TryPending
      BY <3>1, <3>2, RecordUpdates DEF TryPending
    <3>3. CASE AbandonPending
      BY <3>1, <3>3, RecordUpdates DEF AbandonPending
    <3>4. CASE FallBack
      BY <3>1, <3>4, RecordUpdates DEF FallBack
    <3> QED
      BY <1>4, <3>1, <3>2, <3>3, <3>4 DEF Candidate, Otherwise, NothingPending, NoImage
  <2> QED
    BY <1>1, <1>4, <2>1 DEF TypeOK, Candidate, Otherwise, TryPending, AbandonPending,
       NothingPending, FallBack, NoImage, SaveThen, Places, flash, retained, upload
<1>5. CASE Start
  <2>1. PICK s \in Slots \cup {NoSlot}, trial \in BOOLEAN : Jump(s, trial)
    BY <1>1, <1>5, RecordUpdates DEF TypeOK, Start, JumpTrial, JumpActive, JumpOther
  <2>2. trialRuns' \in 0..(MaxAttempts + 1)
    BY <1>1, <2>1 DEF TypeOK, Jump
  <2>3. marker' \in BOOLEAN
    BY <2>1 DEF Jump
  <2> QED
    BY <1>1, <2>1, <2>2, <2>3 DEF TypeOK, Jump, Places, flash, upload
<1>6. CASE EraseCopy
  <2>1. state' \in BootStates
    BY <1>1, <1>6, RecordUpdates DEF TypeOK, EraseCopy
  <2>2. copies'[SaveTarget] \in BootStates /\ copies' \in [{0, 1} -> BootStates]
    BY <1>1, <1>6, EraseFacts, SectorFacts, NoStateType DEF TypeOK
  <2>3. pc' \in Places
    BY <1>1, <1>6, EraseFacts DEF TypeOK, Places
  <2> QED
    BY <1>1, <1>6, <2>1, <2>2, <2>3 DEF TypeOK, EraseCopy, retained, upload
<1>7. CASE ProgramCopy \/ ProgramCopyFails
  <2>1. pc = "program" /\ \E ok : Programming(ok)
    BY <1>7 DEF ProgramCopy, ProgramCopyFails
  <2>2. /\ copies' = copies \/ copies' = [copies EXCEPT ![SaveTarget] = state]
        /\ trialRuns' \in {trialRuns, 0}
    BY <2>1, ProgramFacts
  <2>3. copies' \in [{0, 1} -> BootStates] /\ SaveTarget \in {0, 1}
    BY <1>1, <2>2, SectorFacts DEF TypeOK
  <2> QED
    <3>1. trialRuns' \in 0..(MaxAttempts + 1) /\ pc' = after /\ UNCHANGED <<after, state, slots>>
      BY <1>1, <1>0, <1>7, <2>2 DEF TypeOK, ProgramCopy, ProgramCopyFails, SaveFails
    <3>2. CASE ProgramCopy
      BY <1>1, <2>3, <3>1, <3>2 DEF TypeOK, ProgramCopy, retained
    <3>3. CASE ProgramCopyFails
      BY <1>1, <2>3, <3>1, <3>3 DEF TypeOK, ProgramCopyFails, SaveFails, retained, upload
    <3> QED
      BY <1>7, <3>2, <3>3
<1>8. CASE NoFlash
  BY <1>1, <1>8 DEF TypeOK, NoFlash, SaveFails, retained, upload
<1>9. ReceiveTarget \in Slots
  BY <1>1 DEF TypeOK, BootStates, ReceiveTarget, Other, Slots
<1>10. CASE Begin
  BY <1>1, <1>9, <1>10 DEF TypeOK, Begin, Blank, Contents, retained
<1>11. CASE BeginFails
  <2>1. PICK n \in 1..Chunks : \E r \in EraseSector(slots[ReceiveTarget][n], "garbage", "blank") :
             slots' = EraseStops(ReceiveTarget, n, r.now)
    BY <1>11 DEF BeginFails
  <2>2. PICK left \in Contents : slots' = EraseStops(ReceiveTarget, n, left)
    BY <1>1, <1>9, <2>1, ModifiedFacts DEF TypeOK, EraseSector, Contents
  <2>3. slots' \in [Slots -> [1..Chunks -> Contents]]
    BY <1>1, <1>9, <2>2 DEF TypeOK, EraseStops, Contents
  <2> QED
    BY <1>1, <1>11, <2>3 DEF TypeOK, BeginFails, retained
<1>12. CASE \E img \in Images, offset \in 0..(Chunks - 1) : Data(img, offset)
  <2>1. PICK img \in Images, offset \in 0..(Chunks - 1) : Data(img, offset)
    BY <1>12
  <2>2. receiveSlot \in Slots /\ offset + 1 \in 1..Chunks /\ receiveNext + 1 \in 0..Chunks
    BY <1>1, <2>1 DEF TypeOK, Data, IInv, UploadInv, BootStates, Other, Slots
  <2> DEFINE old == slots[receiveSlot][offset + 1]
  <2>3. PICK r \in Program(old, Programmed(old, img), "garbage", img) :
             /\ slots' = [slots EXCEPT ![receiveSlot][offset + 1] = r.now]
             /\ receiveNext' = IF r.ok THEN receiveNext + 1 ELSE receiveNext
    BY <2>1 DEF Data
  <2>4. old \in Contents /\ Programmed(old, img) \in Contents /\ "garbage" \in Contents
    BY <1>1, <2>1, <2>2 DEF TypeOK, Programmed, Contents
  <2>5. r.now \in Contents
    BY <2>3, <2>4, ModifiedFacts DEF Program
  <2>6. slots' \in [Slots -> [1..Chunks -> Contents]]
    BY <1>1, <2>2, <2>3, <2>5 DEF TypeOK
  <2> QED
    BY <1>1, <2>1, <2>2, <2>3, <2>6 DEF TypeOK, Data, retained
<1>13. CASE End \/ Abort
  <2>1. state' \in BootStates
    <3>2. CASE End
      <4>1. receiveSlot \in Slots \cup {NoSlot} /\ state \in BootStates
        BY <1>1 DEF TypeOK
      <4> QED
        BY <3>2, <4>1, RecordUpdates DEF End
    <3>3. CASE Abort
      BY <1>1, <3>3 DEF TypeOK, Abort
    <3> QED
      BY <1>13, <3>2, <3>3
  <2> QED
    BY <1>1, <1>13, <2>1 DEF TypeOK, End, Abort, SaveThen, Places, flash, retained, upload
<1> QED
  BY <1>2, <1>3, <1>4, <1>5, <1>6, <1>7, <1>8, <1>10, <1>11, <1>12, <1>13
     DEF Next, Save, FlashFailure, Update

----------------------------------------------------------------------------
(* One lemma for each group of steps. *)

(* Whether a slot works depends on its contents only. *)
LEMMA GoodFrame ==
    ASSUME NEW s, slots'[s] = slots[s]
    PROVE  (slots'[s] = Holding("good")) <=> Good(s)
BY DEF Good

LEMMA RestartPreserves ==
    ASSUME IInv, PowerLoss \/ Reboot \/ App, TypeOK'
    PROVE  IInv'
<1>1. Restart
  BY DEF PowerLoss, Reboot, App, AppConfirms, AppUpdater, Watchdog
<1>2. /\ pc' = "load" /\ ~Saving' /\ Place' = "load" /\ receiving' = FALSE
      /\ copies' = copies /\ slots' = slots
  BY <1>1 DEF Restart, flash, Saving, Place
<1>3. Persisted' = Persisted
  BY <1>2 DEF Persisted, Newest
<1>4. SectorsInv'
  BY <1>2 DEF IInv, SectorsInv
<1>5. UploadInv' /\ RecordsInv' /\ GoodInv'
  BY <1>2 DEF UploadInv, RecordsInv, GoodInv, Resumable
<1>6. AppInv'
  <2>1. ASSUME token' = "confirm" PROVE Good(Persisted.pending)
    <3>1. CASE AppConfirms
      BY <3>1 DEF AppConfirms, IInv, AppInv
    <3>2. CASE token' = token
      BY <2>1, <3>2 DEF IInv, AppInv
    <3> QED
      BY <2>1, <3>1, <3>2 DEF PowerLoss, Reboot, App, AppUpdater, Watchdog, retained
  <2> QED
    BY <1>2, <1>3, <2>1 DEF AppInv, UnprovenRunsWatched, Good
<1> QED
  BY <1>4, <1>5, <1>6 DEF IInv

LEMMA LoadPreserves ==
    ASSUME IInv, Load, TypeOK'
    PROVE  IInv'
<1>1. Loaded /\ token' = "none" /\ slots' = slots
  BY DEF Load, Confirm, EnterUpdater, Proceed, Loaded, flash
<1>2. /\ Persisted' = Persisted /\ Kept' = Persisted /\ copies' = copies
      /\ (Persisted.sequence = 0 => stateCopy' = NoSlot /\ Persisted = NoState)
      /\ (stateCopy' = NoSlot => Persisted.sequence = 0)
      /\ \A c \in {0, 1} : copies[c].sequence <= Persisted.sequence
  BY <1>1, LoadFacts
<1>3. Persisted \in BootStates
  BY SectorFacts DEF IInv
<1>4. state'.sequence = Persisted.sequence
  BY <1>3 DEF Load, Confirm, EnterUpdater, Proceed, BootStates
<1>5. ~receiving /\ receiving' = receiving
  BY <1>1 DEF Loaded, upload, IInv, UploadInv, Place, Saving
<1>6. pc' \in {"save", "updater", "pending"}
  BY DEF Load, Confirm, EnterUpdater, Proceed, SaveThen
<1>7. SectorsInv'
  BY <1>2, <1>4, <1>6 DEF IInv, SectorsInv
<1>8. UploadInv'
  BY <1>5 DEF UploadInv
<1>9. CASE Confirm
  <2>1. pc' = "save" /\ after' = "pending" /\ Place' = "pending" /\ Saving'
    BY <1>9 DEF Confirm, SaveThen, Place, Saving
  <2>2. state'.pending = NoSlot /\ Good(state'.active)
    BY <1>3, <1>9 DEF Confirm, IInv, AppInv, BootStates
  <2>3. Good(state.active)'
    BY <1>1, <2>2 DEF Good
  <2>4. RecordsInv' /\ GoodInv'
    BY <1>2, <2>1, <2>2, <2>3 DEF RecordsInv, GoodInv, Resumable
  <2>5. AppInv'
    BY <1>1, <2>1 DEF AppInv, UnprovenRunsWatched
  <2> QED
    BY <1>7, <1>8, <2>4, <2>5 DEF IInv
<1>10. CASE EnterUpdater \/ Proceed
  <2>1. pc' \in {"updater", "pending"} /\ Place' = pc' /\ ~Saving' /\ state' = Persisted
    BY <1>10 DEF EnterUpdater, Proceed, Place, Saving
  <2>2. RecordsInv' /\ GoodInv'
    BY <1>2, <2>1 DEF RecordsInv, GoodInv, ActivesAgree, CandidatesAgree
  <2>3. AppInv'
    BY <1>1, <2>1 DEF AppInv, UnprovenRunsWatched
  <2> QED
    BY <1>7, <1>8, <2>2, <2>3 DEF IInv
<1> QED
  BY <1>9, <1>10 DEF Load

(* choose_image: the candidate, the active image, the other one. *)
LEMMA ChoicePreserves ==
    ASSUME IInv, Candidate \/ Otherwise, TypeOK'
    PROVE  IInv'
<1>1. /\ copies' = copies /\ stateCopy' = stateCopy /\ slots' = slots /\ receiving' = receiving
      /\ token' = token /\ state'.sequence = state.sequence /\ pc \in {"pending", "active"}
      /\ pc' \in {"save", "active", "updater"} /\ Place = pc /\ ~Saving
  BY DEF Candidate, Otherwise, TryPending, AbandonPending, NothingPending, FallBack, NoImage,
     SaveThen, flash, retained, upload, IInv, TypeOK, BootStates, Place, Saving
<1>2. Persisted' = Persisted /\ Kept' = Kept
  BY <1>1, RecordsFrame
<1>3. SectorsInv'
  BY <1>1, <1>2 DEF IInv, SectorsInv
<1>4. UploadInv'
  BY <1>1 DEF IInv, UploadInv
<1>5. AppInv'
  BY <1>1 DEF IInv, AppInv, UnprovenRunsWatched
<1>6. \A s : Good(s) <=> (slots'[s] = Holding("good"))
  BY <1>1 DEF Good
<1>7. state \in BootStates
  BY DEF IInv, TypeOK
<1>8. CASE TryPending
  <2>1. pc' = "save" /\ after' = "trial" /\ Place' = "trial" /\ Saving'
    BY <1>8 DEF TryPending, SaveThen, Place, Saving
  <2>2. /\ state'.active = state.active /\ state'.pending = state.pending
        /\ state.pending # NoSlot /\ ActivesAgree /\ CandidatesAgree
    BY <1>1, <1>7, <1>8 DEF TryPending, BootStates, IInv, RecordsInv
  <2>3. RecordsInv' /\ GoodInv'
    BY <1>2, <2>1, <2>2 DEF RecordsInv, GoodInv, ActivesAgree, CandidatesAgree, Resumable
  <2> QED
    BY <1>3, <1>4, <1>5, <2>3 DEF IInv
<1>9. CASE AbandonPending
  <2>1. pc' = "save" /\ after' = "active" /\ Place' = "active" /\ Saving'
    BY <1>9 DEF AbandonPending, SaveThen, Place, Saving
  <2>2. state'.active = state.active /\ ActivesAgree
    BY <1>1, <1>7, <1>9 DEF AbandonPending, BootStates, IInv, RecordsInv
  <2>3. RecordsInv' /\ GoodInv'
    BY <1>2, <2>1, <2>2 DEF RecordsInv, GoodInv, ActivesAgree, Resumable
  <2> QED
    BY <1>3, <1>4, <1>5, <2>3 DEF IInv
<1>10. CASE NothingPending \/ NoImage
  <2>1. /\ pc' \in {"active", "updater"} /\ Place' = pc' /\ ~Saving' /\ state' = state
        /\ Good(state.active) \/ ActivesAgree
    BY <1>1, <1>10 DEF NothingPending, NoImage, Place, Saving, IInv, RecordsInv
  <2>2. pc' = "updater" => ActivesAgree
    <3>1. NoImage => ~Good(state.active)
      BY <1>7 DEF NoImage, Valid, Good, Images, BootStates
    <3> QED
      BY <1>10, <2>1, <3>1 DEF NothingPending
  <2>3. RecordsInv'
    BY <1>1, <1>2, <1>6, <2>1, <2>2 DEF RecordsInv, ActivesAgree, Good
  <2>4. GoodInv'
    BY <1>1, <1>2, <2>1 DEF IInv, GoodInv, Good, Resumable
  <2> QED
    BY <1>3, <1>4, <1>5, <2>3, <2>4 DEF IInv
<1>11. CASE FallBack
  <2>1. pc' = "save" /\ after' = "other" /\ Place' = "other" /\ Saving'
    BY <1>11 DEF FallBack, SaveThen, Place, Saving
  <2>2. ~Good(state.active)
    BY <1>11 DEF FallBack, Valid, Good, Images
  <2>3. ActivesAgree
    BY <1>1, <1>11, <2>2 DEF FallBack, IInv, RecordsInv
  <2>4. RecordsInv'
    BY <2>1 DEF RecordsInv, Resumable
  <2>5. GoodInv'
    BY <1>1, <1>2, <2>2, <2>3 DEF GoodInv, ActivesAgree, Good
  <2> QED
    BY <1>3, <1>4, <1>5, <2>4, <2>5 DEF IInv
<1> QED
  BY <1>8, <1>9, <1>10, <1>11 DEF Candidate, Otherwise

LEMMA StartPreserves ==
    ASSUME IInv, Start, TypeOK'
    PROVE  IInv'
<1>1. /\ copies' = copies /\ stateCopy' = stateCopy /\ slots' = slots /\ receiving' = receiving
      /\ token' = token /\ state' = state /\ pc' = "app" /\ Place' = "app" /\ ~Saving'
      /\ pc \in {"trial", "active", "other"} /\ Place = pc /\ ~Saving
  BY DEF Start, JumpTrial, JumpActive, JumpOther, Jump, flash, upload, Place, Saving
<1>2. Persisted' = Persisted /\ Kept' = Kept
  BY <1>1, RecordsFrame
<1>3. SectorsInv'
  BY <1>1, <1>2 DEF IInv, SectorsInv
<1>4. UploadInv' /\ RecordsInv' /\ GoodInv'
  BY <1>1 DEF IInv, UploadInv, RecordsInv, GoodInv, Resumable
<1>5. state \in BootStates
  BY DEF IInv, TypeOK
<1>6. CASE JumpTrial
  <2>1. pc = "trial" /\ running' = state.pending /\ marker' = TRUE
    BY <1>6 DEF JumpTrial, Jump
  <2>2. state.pending \in Slots /\ Persisted.pending = state.pending
    BY <1>1, <1>5, <2>1, RecordUpdates DEF IInv, RecordsInv, CandidatesAgree
  <2> QED
    BY <1>1, <1>2, <1>3, <1>4, <2>1, <2>2 DEF IInv, AppInv, UnprovenRunsWatched
<1>7. CASE JumpActive \/ JumpOther
  <2>1. pc # "trial" /\ running' = state.active /\ marker' = FALSE
    BY <1>7 DEF JumpActive, JumpOther, Jump
  <2>2. state.active \in Slots
    BY <1>5, RecordUpdates
  <2>3. Good(Persisted.active) => Good(state.active)
    BY <1>1 DEF IInv, GoodInv, Resumable
  <2> QED
    BY <1>1, <1>2, <1>3, <1>4, <2>1, <2>2, <2>3 DEF IInv, AppInv, UnprovenRunsWatched,
       SafelyInstalled, Good
<1> QED
  BY <1>6, <1>7 DEF Start

(* A save: what a restart would load is the old record, the one kept or    *)
(* the one in RAM, and each of them names a working image if it has to.    *)
LEMMA ErasePreserves ==
    ASSUME IInv, EraseCopy, TypeOK'
    PROVE  IInv'
<1>1. /\ pc = "save" /\ stateCopy' = stateCopy /\ slots' = slots /\ receiving' = receiving
      /\ receiveSlot' = receiveSlot /\ token' = token /\ after' = after
      /\ state' = [state EXCEPT !.sequence = @ + 1]
  BY DEF EraseCopy, retained, upload
<1>2. state \in BootStates /\ state.sequence \in Nat
  BY DEF IInv, TypeOK, BootStates
<1>3. /\ state'.sequence = state.sequence + 1
      /\ state'.active = state.active /\ state'.pending = state.pending
  BY <1>1, <1>2 DEF BootStates
<1>4. /\ Persisted' \in {Persisted, Kept} /\ Kept' = Kept /\ SaveTarget' = SaveTarget
      /\ copies'[SaveTarget] \in {copies[SaveTarget], NoState}
      /\ copies' = [copies EXCEPT ![SaveTarget] = copies'[SaveTarget]]
      /\ pc' = "program" => copies'[SaveTarget] = NoState /\ Persisted' = Kept
      /\ pc' \in {"program", after}
  BY EraseFacts
<1>5. Saving /\ Place = after /\ after \in Resumable /\ Place' = after /\ (Saving' <=> pc' = "program")
  BY <1>1, <1>4 DEF Saving, Place, IInv, RecordsInv, Resumable
<1>6. /\ SaveTarget \in {0, 1} /\ {0, 1} = {SaveTarget, Other(SaveTarget)}
      /\ Kept \in BootStates /\ Kept.sequence \in Nat
      /\ copies \in [{0, 1} -> BootStates]
      /\ copies[0].sequence \in Nat /\ copies[1].sequence \in Nat
  BY SectorFacts DEF IInv, TypeOK, BootStates
<1>7. SectorsInv'
  <2>1. \A c \in {0, 1} : copies'[c] \in {copies[c], NoState}
    BY <1>4, <1>6
  <2>2. \A c \in {0, 1} : copies'[c].sequence <= state'.sequence
    <3>1. \A c \in {0, 1} : copies[c].sequence <= state.sequence
      BY <1>1 DEF IInv, SectorsInv
    <3> QED
      BY <1>2, <1>3, <1>6, <2>1, <3>1 DEF NoState
  <2>3. Kept.sequence < state'.sequence
    BY <1>1, <1>2, <1>3, <1>6 DEF IInv, SectorsInv, Kept
  <2>4. \A c \in {0, 1} : copies'[c].sequence = 0 => copies'[c] = NoState
    BY <2>1 DEF IInv, SectorsInv
  <2>5. (Kept.sequence = 0 => stateCopy = NoSlot) /\ (stateCopy = NoSlot => Kept = NoState)
    BY <1>1 DEF IInv, SectorsInv
  <2> QED
    BY <1>1, <1>4, <2>2, <2>3, <2>4, <2>5 DEF SectorsInv
<1>8. UploadInv'
  BY <1>1, <1>3, <1>5 DEF IInv, UploadInv
<1>9. RecordsInv'
  BY <1>1, <1>3, <1>4, <1>5 DEF IInv, RecordsInv, ActivesAgree, CandidatesAgree, Good
<1>10. GoodInv'
  BY <1>1, <1>3, <1>4, <1>5 DEF IInv, GoodInv, Good
<1>11. AppInv'
  BY <1>1, <1>4, <1>5 DEF IInv, AppInv, UnprovenRunsWatched, Resumable
<1> QED
  BY <1>7, <1>8, <1>9, <1>10, <1>11 DEF IInv

LEMMA ProgramPreserves ==
    ASSUME IInv, ProgramCopy \/ ProgramCopyFails \/ NoFlash, TypeOK'
    PROVE  IInv'
<1>1. /\ Saving /\ slots' = slots /\ receiving' \in {receiving, FALSE}
      /\ receiveSlot' = receiveSlot /\ token' = token /\ after' = after /\ state' = state
      /\ pc' = after /\ after \in Resumable /\ Place = after /\ Place' = after /\ ~Saving'
  BY DEF ProgramCopy, ProgramCopyFails, NoFlash, SaveFails, retained, upload, Saving, Place,
     IInv, RecordsInv, Resumable
<1>2. state \in BootStates /\ state.sequence \in Nat
  BY DEF IInv, TypeOK, BootStates
<1>3. /\ SaveTarget \in {0, 1} /\ {0, 1} = {SaveTarget, Other(SaveTarget)}
      /\ SaveTarget # Other(SaveTarget)
      /\ Kept \in BootStates /\ Kept.sequence \in Nat
      /\ copies \in [{0, 1} -> BootStates]
  BY SectorFacts DEF IInv, TypeOK, BootStates
<1>4. CASE copies' = copies /\ stateCopy' = stateCopy
  <2>1. Persisted' = Persisted /\ Kept' = Kept
    BY <1>4, RecordsFrame
  <2>2. SectorsInv'
    BY <1>1, <1>4, <2>1 DEF IInv, SectorsInv, Resumable, Saving
  <2>3. UploadInv'
    BY <1>1 DEF IInv, UploadInv
  <2>4. RecordsInv'
    BY <1>1, <2>1 DEF IInv, RecordsInv, ActivesAgree, CandidatesAgree, Good
  <2>5. GoodInv'
    BY <1>1, <2>1 DEF IInv, GoodInv, Good
  <2>6. AppInv'
    BY <1>1, <2>1 DEF IInv, AppInv, UnprovenRunsWatched, Resumable, Saving
  <2> QED
    BY <2>2, <2>3, <2>4, <2>5, <2>6 DEF IInv
<1>5. CASE /\ pc = "program" /\ copies' = [copies EXCEPT ![SaveTarget] = state]
           /\ stateCopy' \in {stateCopy, SaveTarget} /\ Persisted' = state
  <2>1. copies[SaveTarget] = NoState /\ Kept.sequence < state.sequence
    BY <1>5 DEF IInv, SectorsInv
  <2>2. copies'[SaveTarget] = state /\ copies'[Other(SaveTarget)] = Kept
    BY <1>3, <1>5 DEF Kept, Other
  <2>3. Persisted' = state
    BY <1>5
  <2>4. Kept' = IF stateCopy' = stateCopy THEN Kept ELSE state
    BY <1>3, <1>5, <2>2 DEF Kept, SaveTarget, Other
  <2>5. SectorsInv'
    <3>1. \A c \in {0, 1} : copies'[c] \in {copies[c], state}
      BY <1>3, <1>5
    <3>2. \A c \in {0, 1} : copies'[c].sequence = 0 => copies'[c] = NoState
      BY <1>2, <1>3, <2>1, <3>1 DEF IInv, SectorsInv
    <3>3. \A c \in {0, 1} : copies'[c].sequence <= state.sequence
      BY <1>2, <1>3, <1>5, <3>1 DEF IInv, SectorsInv
    <3>4. /\ Kept.sequence = 0 => stateCopy = NoSlot
          /\ stateCopy = NoSlot => Kept = NoState
      BY <1>5 DEF IInv, SectorsInv
    <3>5. SaveTarget # NoSlot /\ state.sequence # 0
      BY <1>2, <1>3, <2>1 DEF NoSlot
    <3> QED
      BY <1>1, <1>5, <2>4, <3>2, <3>3, <3>4, <3>5 DEF SectorsInv, Resumable
  <2>6. UploadInv'
    BY <1>1 DEF IInv, UploadInv
  <2>7. RecordsInv'
    BY <1>1, <2>3, <2>4 DEF IInv, RecordsInv, ActivesAgree, CandidatesAgree, Good
  <2>8. GoodInv'
    BY <1>1, <2>3, <2>4 DEF IInv, GoodInv, Good
  <2>9. AppInv'
    BY <1>1, <1>5 DEF IInv, AppInv, UnprovenRunsWatched, Resumable
  <2> QED
    BY <2>5, <2>6, <2>7, <2>8, <2>9 DEF IInv
<1>6. CASE NoFlash
  BY <1>4, <1>6 DEF NoFlash, SaveFails
<1>7. CASE ProgramCopy
  <2>1. /\ pc = "program" /\ stateCopy' = SaveTarget
        /\ copies' = [copies EXCEPT ![SaveTarget] = state] /\ Persisted' = state
    BY <1>7, ProgramFacts DEF ProgramCopy
  <2> QED
    BY <1>5, <2>1
<1>8. CASE ProgramCopyFails
  <2>1. /\ pc = "program" /\ stateCopy' = stateCopy
        /\ \/ copies' = copies
           \/ copies' = [copies EXCEPT ![SaveTarget] = state] /\ Persisted' = state
    BY <1>8, ProgramFacts DEF ProgramCopyFails, SaveFails
  <2> QED
    BY <1>4, <1>5, <2>1
<1> QED
  BY <1>6, <1>7, <1>8

(* The updater writes the slot RAM does not call active. *)
LEMMA ActiveUntouched ==
    ASSUME IInv, Begin \/ BeginFails \/ End \/ Abort
                 \/ (\E img \in Images, offset \in 0..(Chunks - 1) : Data(img, offset))
    PROVE  slots'[state.active] = slots[state.active]
<1>1. slots \in [Slots -> [1..Chunks -> Contents]]
  BY DEF IInv, TypeOK
<1>2. state.active \in Slots /\ Other(state.active) \in Slots
      /\ Other(state.active) # state.active
  BY DEF IInv, TypeOK, BootStates, Slots, Other
<1>3. CASE Begin
  BY <1>1, <1>2, <1>3 DEF Begin, ReceiveTarget
<1>4. CASE BeginFails
  <2>1. \E n, left : slots' = EraseStops(ReceiveTarget, n, left)
    BY <1>4 DEF BeginFails
  <2> QED
    BY <1>1, <1>2, <2>1 DEF EraseStops, ReceiveTarget
<1>5. CASE \E img \in Images, offset \in 0..(Chunks - 1) : Data(img, offset)
  <2>1. receiveSlot = Other(state.active)
    BY <1>5 DEF Data, IInv, UploadInv
  <2>2. \E n, left : slots' = [slots EXCEPT ![receiveSlot][n] = left]
    BY <1>5 DEF Data
  <2> QED
    BY <1>1, <1>2, <2>1, <2>2
<1> QED
  BY <1>3, <1>4, <1>5 DEF End, Abort, flash

(* What it writes is what no record calls active.                          *)
LEMMA UpdatePreserves ==
    ASSUME IInv, Begin \/ BeginFails \/ End \/ Abort
                 \/ (\E img \in Images, offset \in 0..(Chunks - 1) : Data(img, offset)), TypeOK'
    PROVE  IInv'
<1>1. /\ pc = "updater" /\ Place = "updater" /\ ~Saving /\ ActivesAgree
      /\ copies' = copies /\ stateCopy' = stateCopy /\ token' = token
      /\ pc' \in {"updater", "save"}
  BY DEF Begin, BeginFails, Data, End, Abort, SaveThen, Place, Saving, flash, retained,
     IInv, RecordsInv
<1>2. state \in BootStates /\ state.active \in Slots /\ Other(state.active) \in Slots
      /\ Other(state.active) # state.active
  BY DEF IInv, TypeOK, BootStates, Slots, Other
<1>3. Persisted' = Persisted /\ Kept' = Kept
  BY <1>1, RecordsFrame
<1>4. /\ state'.active = state.active /\ state'.sequence = state.sequence
      /\ Place' = "updater" /\ (Saving' => after' = "updater")
  BY <1>1, <1>2 DEF Begin, BeginFails, Data, End, Abort, SaveThen, Place, Saving, BootStates
<1>5. slots'[state.active] = slots[state.active]
  BY ActiveUntouched
<1>6. SectorsInv'
  BY <1>1, <1>3, <1>4 DEF IInv, SectorsInv
<1>7. UploadInv'
  BY <1>4 DEF IInv, UploadInv, Begin, BeginFails, Data, End, Abort, upload, ReceiveTarget
<1>8. RecordsInv'
  BY <1>1, <1>3, <1>4 DEF RecordsInv, ActivesAgree, Resumable
<1>9. GoodInv'
  BY <1>1, <1>3, <1>4, <1>5 DEF GoodInv, ActivesAgree, Good
<1>10. AppInv'
  BY <1>1 DEF IInv, AppInv, UnprovenRunsWatched
<1> QED
  BY <1>6, <1>7, <1>8, <1>9, <1>10 DEF IInv

----------------------------------------------------------------------------
(* The invariant, and the properties it carries. *)

LEMMA InitEstablishes == Init => IInv
<1> SUFFICES ASSUME Init PROVE IInv
  OBVIOUS
<1>1. TypeOK
  <2>1. slots \in [Slots -> [1..Chunks -> Contents]]
    BY InstalledAssumption DEF Init
  <2>2. 0 \in 0..Chunks /\ 0 \in 0..(MaxAttempts + 1)
    BY BootAssumption
  <2>3. copies \in [{0, 1} -> BootStates]
    BY NoStateType DEF Init
  <2> QED
    BY <2>1, <2>2, <2>3, NoStateType DEF Init, TypeOK, Places, NoSlot
<1>2. SectorsInv /\ UploadInv /\ RecordsInv /\ GoodInv /\ AppInv
  BY DEF Init, SectorsInv, UploadInv, RecordsInv, GoodInv, AppInv, UnprovenRunsWatched,
     Saving, Place, Resumable
<1> QED
  BY <1>1, <1>2 DEF IInv

LEMMA StepPreserves == IInv /\ [Next]_vars => IInv'
<1> SUFFICES ASSUME IInv, [Next]_vars PROVE IInv'
  OBVIOUS
<1>1. CASE UNCHANGED vars
  <2>1. Persisted' = Persisted /\ Kept' = Kept /\ SaveTarget' = SaveTarget
    BY <1>1, RecordsFrame DEF vars, flash
  <2> QED
    BY <1>1, <2>1 DEF vars, flash, retained, upload, IInv, TypeOK, SectorsInv, UploadInv,
       RecordsInv, GoodInv, AppInv, UnprovenRunsWatched, SafelyInstalled, Saving, Place,
       ActivesAgree, CandidatesAgree, Good
<1>2. CASE Next
  <2>1. TypeOK'
    BY <1>2, TypePreserved
  <2> QED
    BY <1>2, <2>1, RestartPreserves, LoadPreserves, ChoicePreserves, StartPreserves,
       ErasePreserves, ProgramPreserves, UpdatePreserves DEF Next, Save, FlashFailure, Update
<1> QED
  BY <1>1, <1>2

(* IInv holds in every reachable state, for every image size, number of    *)
(* attempts and content of the slots, whether or not the flash may fail.   *)
THEOREM Invariance == Spec => []IInv
BY InitEstablishes, StepPreserves, PTL DEF Spec

(* Every variable keeps its type: save_state, handle and choose_image      *)
(* never build a record or a slot contents that is not one.                *)
THEOREM TypeCorrect == Spec => []TypeOK
BY Invariance, PTL DEF IInv

(* While a working image is installed, an image that does not work runs    *)
(* only with the trial marker set, whatever was powered off or failed on   *)
(* the way (jump_to, choose_image).                                        *)
THEOREM UnprovenIsWatched == Spec => []UnprovenRunsWatched
BY Invariance, PTL DEF IInv, AppInv

----------------------------------------------------------------------------
(* A working active image stays. *)

LEMMA GoodStaysStep ==
    ASSUME IInv, Next, SafelyInstalled
    PROVE  SafelyInstalled'
<1>1. CASE copies' = copies /\ slots' = slots
  BY <1>1 DEF SafelyInstalled, Persisted, Newest, Good
<1>2. CASE EraseCopy
  <2>1. Persisted' \in {Persisted, Kept} /\ slots' = slots
    BY <1>2, EraseFacts DEF EraseCopy
  <2>2. Good(Persisted.active) => Good(Kept.active)
    BY <1>2 DEF EraseCopy, IInv, GoodInv, Saving
  <2> QED
    BY <2>1, <2>2 DEF SafelyInstalled, Good
<1>3. CASE ProgramCopy \/ ProgramCopyFails
  <2>1. pc = "program" /\ slots' = slots /\ \E ok : Programming(ok)
    BY <1>3 DEF ProgramCopy, ProgramCopyFails, SaveFails
  <2>2. Good(Persisted.active) => Good(state.active)
    BY <2>1 DEF IInv, GoodInv, RecordsInv, Saving, Place
  <2>3. copies' = copies \/ Persisted' = state
    BY <2>1, ProgramFacts
  <2> QED
    BY <1>1, <2>1, <2>2, <2>3 DEF SafelyInstalled, Good
<1>4. CASE Begin \/ BeginFails \/ End \/ Abort
           \/ (\E img \in Images, offset \in 0..(Chunks - 1) : Data(img, offset))
  <2>1. Persisted.active = state.active /\ copies' = copies
    BY <1>4 DEF Begin, BeginFails, Data, End, Abort, flash, IInv, RecordsInv, ActivesAgree,
       Place, Saving
  <2>2. slots'[state.active] = slots[state.active]
    BY <1>4, ActiveUntouched
  <2> QED
    BY <2>1, <2>2 DEF SafelyInstalled, Good, Persisted, Newest
<1>5. CASE PowerLoss \/ Reboot \/ App \/ Load \/ Candidate \/ Otherwise \/ Start \/ NoFlash
  <2>1. copies' = copies /\ slots' = slots
    BY <1>5 DEF PowerLoss, Reboot, App, AppConfirms, AppUpdater, Watchdog, Restart, Load, Confirm,
       EnterUpdater, Proceed, Loaded, Candidate, TryPending, AbandonPending, NothingPending,
       Otherwise, FallBack, NoImage, Start, JumpTrial, JumpActive, JumpOther, Jump, NoFlash,
       SaveFails, flash
  <2> QED
    BY <1>1, <2>1
<1> QED
  BY <1>2, <1>3, <1>4, <1>5 DEF Next, Save, FlashFailure, Update

(* Once the record in flash names a working image it goes on naming one,   *)
(* across every power cut, failed erase or program and every upload: the   *)
(* promise of the A/B scheme of boot/main.cpp.                             *)
THEOREM WorkingImageKept == Spec => KnownGoodKept
<1>1. IInv /\ [Next]_vars => [SafelyInstalled => SafelyInstalled']_vars
  BY GoodStaysStep
<1> QED
  BY Invariance, <1>1, PTL DEF Spec, KnownGoodKept

----------------------------------------------------------------------------
(* An upload. *)

(* A piece in its turn is programmed after those received and before the   *)
(* blank ones, and is counted when the slot holds it.                      *)
LEMMA DataKeepsPrefix ==
    ASSUME IInv, UploadIsPrefix, NEW img \in Images, NEW offset \in 0..(Chunks - 1),
           Data(img, offset)
    PROVE  UploadIsPrefix'
<1>1. /\ receiving /\ receiveSlot' = receiveSlot /\ offset = receiveNext
      /\ receiveSlot \in Slots /\ offset + 1 \in 1..Chunks /\ receiveNext \in Nat
  BY BootAssumption DEF Data, IInv, TypeOK, UploadInv, BootStates, Other, Slots
<1> DEFINE old == slots[receiveSlot][offset + 1]
<1>2. PICK r \in Program(old, Programmed(old, img), "garbage", img) :
         /\ slots' = [slots EXCEPT ![receiveSlot][offset + 1] = r.now]
         /\ receiveNext' = IF r.ok THEN receiveNext + 1 ELSE receiveNext
  BY DEF Data
<1>3. r.ok => r.now = img
  BY <1>2, ModifiedFacts DEF Program
<1>4. slots \in [Slots -> [1..Chunks -> Contents]]
  BY DEF IInv, TypeOK
<1>5. /\ slots'[receiveSlot][offset + 1] = r.now
      /\ \A c \in 1..Chunks : c # offset + 1 => slots'[receiveSlot][c] = slots[receiveSlot][c]
  BY <1>1, <1>2, <1>4
<1>6. receiveNext \in 0..Chunks /\ Chunks \in Nat
  BY BootAssumption DEF IInv, TypeOK
<1>7. ASSUME NEW c \in 1..receiveNext'
      PROVE  slots'[receiveSlot][c] \in Images
  <2>1. c \in 1..Chunks
    BY <1>1, <1>2, <1>6, <1>7
  <2>2. CASE c = offset + 1
    BY <1>1, <1>2, <1>3, <1>5, <1>7, <2>2
  <2>3. CASE c # offset + 1
    BY <1>1, <1>2, <1>5, <1>7, <2>1, <2>3 DEF UploadIsPrefix
  <2> QED
    BY <2>2, <2>3
<1>8. ASSUME NEW c \in 1..Chunks, c > receiveNext' + 1
      PROVE  slots'[receiveSlot][c] = "blank"
  BY <1>1, <1>2, <1>5, <1>8 DEF UploadIsPrefix
<1> QED
  BY <1>1, <1>7, <1>8 DEF UploadIsPrefix

LEMMA PrefixStep ==
    ASSUME IInv, UploadIsPrefix, Next
    PROVE  UploadIsPrefix'
<1>1. CASE receiving' = FALSE
  BY <1>1 DEF UploadIsPrefix
<1>2. CASE slots' = slots /\ UNCHANGED upload
  BY <1>2 DEF UploadIsPrefix, upload
<1>3. CASE Begin
  <2>1. ReceiveTarget \in Slots /\ slots \in [Slots -> [1..Chunks -> Contents]]
    BY DEF IInv, TypeOK, BootStates, ReceiveTarget, Other, Slots
  <2>2. slots'[receiveSlot'] = Blank /\ receiveNext' = 0
    BY <1>3, <2>1 DEF Begin
  <2> QED
    BY <2>2 DEF UploadIsPrefix, Blank
<1>4. CASE \E img \in Images, offset \in 0..(Chunks - 1) : Data(img, offset)
  BY <1>4, DataKeepsPrefix
<1>5. CASE PowerLoss \/ Reboot \/ App \/ Abort \/ BeginFails \/ ProgramCopy
  BY <1>1, <1>5 DEF PowerLoss, Reboot, App, AppConfirms, AppUpdater, Watchdog, Restart, Abort,
     BeginFails, ProgramCopy
<1>6. CASE Load \/ Candidate \/ Otherwise \/ Start \/ EraseCopy \/ NoFlash
           \/ ProgramCopyFails \/ End
  BY <1>2, <1>6 DEF Load, Confirm, EnterUpdater, Proceed, Loaded, Candidate, TryPending,
     AbandonPending, NothingPending, Otherwise, FallBack, NoImage, Start, JumpTrial, JumpActive,
     JumpOther, Jump, EraseCopy, NoFlash, ProgramCopyFails, SaveFails, End, flash, upload
<1> QED
  BY <1>3, <1>4, <1>5, <1>6 DEF Next, Save, FlashFailure, Update

(* Whatever pieces the host sends, in whatever order and however often,    *)
(* and whichever erase or program fails: what the updater has counted is   *)
(* in the slot, and beyond the piece under way it is blank (handle()).     *)
THEOREM UploadInOrder == Spec => []UploadIsPrefix
<1>1. Init => UploadIsPrefix
  BY DEF Init, UploadIsPrefix
<1>2. IInv /\ UploadIsPrefix /\ [Next]_vars => UploadIsPrefix'
  BY PrefixStep DEF UploadIsPrefix, vars, flash, upload
<1> QED
  BY Invariance, <1>1, <1>2, PTL DEF Spec

----------------------------------------------------------------------------
(* A flash that does what it is told: the trial budget and the contract.   *)

(* Every erase and every program then succeeds.                            *)
LEMMA ReliableFlash ==
    ASSUME IInv, FlashFails = FALSE
    PROVE  /\ ~NoFlash /\ ~ProgramCopyFails /\ ~BeginFails
           /\ EraseCopy => pc' = "program"
<1>1. ~NoFlash
  BY DEF NoFlash
<1>2. ~ProgramCopyFails
  <2> SUFFICES ASSUME ProgramCopyFails PROVE FALSE
    OBVIOUS
  <2>1. PICK r \in Modified(copies[SaveTarget], state, NoState, state) : r.ok = FALSE
    BY DEF ProgramCopyFails, Programming, Program
  <2> QED
    BY <2>1, ModifiedSucceeds
<1>3. ~BeginFails
  <2> SUFFICES ASSUME BeginFails PROVE FALSE
    OBVIOUS
  <2>1. PICK n \in 1..Chunks :
          \E r \in Modified(slots[ReceiveTarget][n], "blank", "garbage", "blank") : ~r.ok
    BY DEF BeginFails, EraseSector
  <2> QED
    BY <2>1, ModifiedSucceeds
<1>4. ASSUME EraseCopy PROVE pc' = "program"
  <2>1. PICK r \in Modified(copies[SaveTarget], NoState, NoState, NoState) :
           pc' = IF r.ok THEN "program" ELSE after
    BY <1>4 DEF EraseCopy, EraseSector
  <2> QED
    BY <2>1, ModifiedSucceeds
<1> QED
  BY <1>1, <1>2, <1>3, <1>4

(* What the one step that changes the record does to it.                   *)
LEMMA RecordWritten ==
    ASSUME IInv, ProgramCopy
    PROVE  /\ Persisted' = state /\ Kept' = state /\ pc' = after /\ pc = "program"
           /\ after \in Resumable /\ after' = after /\ state' = state /\ token' = token
           /\ trialRuns' = IF after = "trial" THEN trialRuns ELSE 0
           /\ Saving /\ ~Saving'
<1>1. /\ pc = "program" /\ pc' = after /\ after' = after /\ state' = state /\ token' = token
      /\ stateCopy' = SaveTarget /\ after \in Resumable
  BY DEF ProgramCopy, retained, IInv, RecordsInv, Saving
<1>2. /\ copies' = [copies EXCEPT ![SaveTarget] = state] /\ Persisted' = state
      /\ trialRuns' = IF after = "trial" THEN trialRuns ELSE 0
  BY ProgramFacts DEF ProgramCopy
<1>3. SaveTarget \in {0, 1} /\ copies \in [{0, 1} -> BootStates]
  BY SectorFacts DEF IInv, TypeOK
<1>4. Kept' = state
  BY <1>1, <1>2, <1>3 DEF Kept, SaveTarget, Other
<1> QED
  BY <1>1, <1>2, <1>4 DEF Saving, Resumable

LEMMA BudgetPreserved ==
    ASSUME FlashFails = FALSE, IInv, BudgetInv, Next
    PROVE  BudgetInv'
<1>1. /\ state \in BootStates /\ Persisted \in BootStates /\ Kept \in BootStates
      /\ trialRuns \in Nat /\ Persisted.attempts \in Nat /\ state.attempts \in Nat
      /\ Persisted.attempts <= MaxAttempts /\ MaxAttempts \in Nat
  BY SectorFacts, BootAssumption DEF IInv, TypeOK, BootStates
<1>2. CASE PowerLoss \/ Reboot \/ App
  <2>1. pc' = "load" /\ trialRuns' = trialRuns /\ copies' = copies
    BY <1>2 DEF PowerLoss, Reboot, App, AppConfirms, AppUpdater, Watchdog, Restart, flash
  <2>2. Persisted' = Persisted
    BY <2>1 DEF Persisted, Newest
  <2>3. token' = "confirm" => token = "confirm" \/ AppConfirms
    BY <1>2 DEF PowerLoss, Reboot, App, AppUpdater, Watchdog, retained
  <2>4. AppConfirms => Persisted.pending # NoSlot /\ trialRuns > 0
    BY DEF AppConfirms, IInv, AppInv, BudgetInv, Slots, NoSlot
  <2> QED
    BY <2>1, <2>2, <2>3, <2>4 DEF BudgetInv, Saving, Resumable
<1>3. CASE Load
  <2>1. Persisted' = Persisted /\ Kept' = Persisted /\ token' = "none" /\ trialRuns' = trialRuns
    BY <1>3, LoadFacts DEF Load, Confirm, EnterUpdater, Proceed, Loaded
  <2>2. CASE Confirm
    BY <1>1, <2>1, <2>2 DEF Confirm, SaveThen, BudgetInv, ChangeInv, Saving, Resumable, BootStates
  <2>3. CASE EnterUpdater \/ Proceed
    BY <2>1, <2>3 DEF EnterUpdater, Proceed, BudgetInv, Saving, Resumable
  <2> QED
    BY <1>3, <2>2, <2>3 DEF Load
<1>4. CASE Candidate \/ Otherwise
  <2>1. /\ copies' = copies /\ stateCopy' = stateCopy /\ trialRuns' = trialRuns /\ token' = token
        /\ pc \in {"pending", "active"}
    BY <1>4 DEF Candidate, Otherwise, TryPending, AbandonPending, NothingPending, FallBack, NoImage,
       flash, retained
  <2>2. Persisted' = Persisted /\ Kept' = Kept /\ Persisted = Kept /\ state = Persisted
    BY <2>1, RecordsFrame DEF BudgetInv, Resumable
  <2>3. token # "confirm"
    BY <2>1 DEF IInv, AppInv
  <2>4. CASE TryPending
    BY <1>1, <2>1, <2>2, <2>3, <2>4 DEF TryPending, SaveThen, BudgetInv, ChangeInv, Saving,
       Resumable, BootStates
  <2>5. CASE AbandonPending
    BY <1>1, <2>1, <2>2, <2>3, <2>5 DEF AbandonPending, SaveThen, BudgetInv, ChangeInv, Saving,
       Resumable, BootStates
  <2>6. CASE FallBack
    BY <1>1, <2>1, <2>2, <2>3, <2>6 DEF FallBack, SaveThen, BudgetInv, ChangeInv, Saving,
       Resumable, BootStates
  <2>7. CASE NothingPending \/ NoImage
    BY <2>1, <2>2, <2>3, <2>7 DEF NothingPending, NoImage, BudgetInv, Saving, Resumable
  <2> QED
    BY <1>4, <2>4, <2>5, <2>6, <2>7 DEF Candidate, Otherwise
<1>5. CASE Start
  <2>1. /\ copies' = copies /\ stateCopy' = stateCopy /\ token' = token /\ pc' = "app"
        /\ pc \in {"trial", "active", "other"}
    BY <1>5 DEF Start, JumpTrial, JumpActive, JumpOther, Jump, flash
  <2>2. Persisted' = Persisted /\ Kept' = Kept /\ Persisted = Kept
    BY <2>1, RecordsFrame DEF BudgetInv
  <2>3. token # "confirm"
    BY <2>1 DEF IInv, AppInv
  <2>4. CASE JumpTrial
    <3>1. trialRuns < Persisted.attempts /\ trialRuns' = trialRuns + 1
      BY <1>1, <2>4 DEF JumpTrial, Jump, BudgetInv
    <3> QED
      BY <1>1, <2>1, <2>2, <2>3, <3>1 DEF BudgetInv, Saving, Resumable
  <2>5. CASE JumpActive \/ JumpOther
    <3>1. trialRuns' = trialRuns /\ marker' = FALSE
      BY <2>5 DEF JumpActive, JumpOther, Jump
    <3> QED
      BY <2>1, <2>2, <2>3, <3>1 DEF BudgetInv, Saving, Resumable
  <2> QED
    BY <1>5, <2>4, <2>5 DEF Start
<1>6. CASE EraseCopy
  <2>1. pc = "save" /\ pc' = "program" /\ Persisted' = Kept /\ Kept' = Kept /\ Persisted = Kept
    BY <1>6, EraseFacts, ReliableFlash DEF EraseCopy, BudgetInv
  <2>2. /\ trialRuns' = trialRuns /\ token' = token /\ after' = after
        /\ state' = [state EXCEPT !.sequence = @ + 1]
    BY <1>6 DEF EraseCopy, retained
  <2>3. /\ state'.active = state.active /\ state'.pending = state.pending
        /\ state'.attempts = state.attempts
    BY <1>1, <2>2 DEF BootStates
  <2> QED
    BY <2>1, <2>2, <2>3 DEF BudgetInv, ChangeInv, Saving, Resumable
<1>7. CASE ProgramCopy
  <2>1. /\ Persisted' = state /\ Kept' = state /\ pc' = after /\ pc = "program"
        /\ after \in Resumable /\ state' = state /\ token' = token
        /\ trialRuns' = IF after = "trial" THEN trialRuns ELSE 0
        /\ Saving /\ ~Saving'
    BY <1>7, RecordWritten
  <2>2. token # "confirm"
    BY <2>1 DEF IInv, AppInv
  <2>3. CASE after = "trial"
    <3>1. state.pending # NoSlot
      BY <2>1, <2>3 DEF IInv, RecordsInv, Place
    <3>2. trialRuns < state.attempts
      BY <1>1, <2>1, <2>3 DEF BudgetInv, ChangeInv
    <3> QED
      BY <1>1, <2>1, <2>2, <2>3, <3>1, <3>2 DEF BudgetInv
  <2>4. CASE after # "trial"
    <3>1. trialRuns' = 0 /\ state.attempts = 0
      BY <2>1, <2>4 DEF BudgetInv, ChangeInv, Resumable
    <3>2. pc' \in {"active", "other"} => state.pending = NoSlot
      BY <2>1 DEF BudgetInv, ChangeInv
    <3> QED
      BY <2>1, <2>2, <2>4, <3>1, <3>2 DEF BudgetInv, Resumable
  <2> QED
    BY <2>3, <2>4
<1>8. CASE Begin \/ End \/ Abort
           \/ (\E img \in Images, offset \in 0..(Chunks - 1) : Data(img, offset))
  <2>1. /\ copies' = copies /\ stateCopy' = stateCopy /\ trialRuns' = trialRuns /\ token' = token
        /\ pc = "updater"
    BY <1>8 DEF Begin, Data, End, Abort, flash, retained
  <2>2. Persisted' = Persisted /\ Kept' = Kept /\ Persisted = Kept /\ state = Persisted
    BY <2>1, RecordsFrame DEF BudgetInv, Resumable
  <2>3. CASE End
    <3>1. receiveSlot = Other(state.active)
      BY <2>3 DEF End, IInv, UploadInv
    <3> QED
      BY <1>1, <2>1, <2>2, <2>3, <3>1 DEF End, SaveThen, BudgetInv, ChangeInv, Saving,
         Resumable, BootStates
  <2>4. CASE pc' = "updater" /\ state' = state
    BY <2>1, <2>2, <2>4 DEF BudgetInv, Saving, Resumable
  <2> QED
    BY <1>8, <2>3, <2>4 DEF Begin, Data, Abort
<1> QED
  BY <1>2, <1>3, <1>4, <1>5, <1>6, <1>7, <1>8, ReliableFlash DEF Next, Save, FlashFailure, Update

LEMMA BudgetInvariance ==
    ASSUME FlashFails = FALSE
    PROVE  Spec => []BudgetInv
<1>1. Init => BudgetInv
  <2> SUFFICES ASSUME Init PROVE BudgetInv
    OBVIOUS
  <2>1. Persisted = NoState
    BY DEF Init, Persisted, Newest
  <2> QED
    BY <2>1 DEF Init, BudgetInv, Saving, Resumable, NoState
<1>2. IInv /\ BudgetInv /\ [Next]_vars => BudgetInv'
  <2> SUFFICES ASSUME IInv, BudgetInv, [Next]_vars PROVE BudgetInv'
    OBVIOUS
  <2>1. CASE Next
    BY <2>1, BudgetPreserved
  <2>2. CASE UNCHANGED vars
    <3>1. Persisted' = Persisted /\ Kept' = Kept
      BY <2>2, RecordsFrame DEF vars, flash
    <3> QED
      BY <2>2, <3>1 DEF vars, flash, retained, BudgetInv, ChangeInv, Saving
  <2> QED
    BY <2>1, <2>2
<1> QED
  BY <1>1, <1>2, Invariance, PTL DEF Spec

(* A candidate is started at most maximum_trial_attempts times, across     *)
(* every reset and power cut, when the flash does what it is told: the     *)
(* attempt is in flash before the candidate runs (choose_image).           *)
THEOREM TrialsAreBounded ==
    ASSUME FlashFails = FALSE
    PROVE  Spec => []TrialBudget
<1>1. IInv /\ BudgetInv => TrialBudget
  <2> SUFFICES ASSUME IInv, BudgetInv PROVE TrialBudget
    OBVIOUS
  <2>1. Persisted.attempts \in 0..MaxAttempts /\ trialRuns \in Nat
    BY SectorFacts, BootAssumption DEF IInv, TypeOK, BootStates
  <2> QED
    BY <2>1, BootAssumption DEF BudgetInv, TrialBudget
<1> QED
  BY <1>1, Invariance, BudgetInvariance, PTL

(* Every step is a step of the contract or changes nothing it speaks of:   *)
(* only a completed program changes the record, only a jump and what ends  *)
(* the application change whether a candidate runs.                        *)
LEMMA ContractStep ==
    ASSUME FlashFails = FALSE, IInv, BudgetInv, Next
    PROVE  Contract!Next \/ UNCHANGED Contract!vars
<1>1. /\ state \in BootStates /\ Persisted \in BootStates /\ Kept \in BootStates
      /\ trialRuns \in Nat /\ Persisted.attempts \in Nat /\ state.attempts \in Nat
      /\ Persisted.attempts <= MaxAttempts /\ state.attempts <= MaxAttempts /\ MaxAttempts \in Nat
  BY SectorFacts, BootAssumption DEF IInv, TypeOK, BootStates
<1>2. ASSUME Persisted' = Persisted, trialRuns' = trialRuns, pc # "app", pc' # "app"
      PROVE  UNCHANGED Contract!vars
  BY <1>2, Zenon DEF Contract!vars
<1>3. CASE PowerLoss \/ Reboot \/ App
  <2>1. Persisted' = Persisted /\ trialRuns' = trialRuns /\ pc' = "load"
    BY <1>3 DEF PowerLoss, Reboot, App, AppConfirms, AppUpdater, Watchdog, Restart, flash,
       Persisted, Newest
  <2>2. CASE pc = "app" /\ marker
    BY <2>1, <2>2 DEF Contract!Next, Contract!Stop
  <2>3. CASE ~(pc = "app" /\ marker)
    BY <2>1, <2>3 DEF Contract!vars
  <2> QED
    BY <2>2, <2>3
<1>4. CASE Load \/ Candidate \/ Otherwise \/ Begin \/ End \/ Abort
                                             \/ (\E img \in Images, offset \in 0..(Chunks - 1) : Data(img, offset))
  <2>1. copies' = copies /\ trialRuns' = trialRuns /\ pc # "app" /\ pc' # "app"
    BY <1>4 DEF Load, Confirm, EnterUpdater, Proceed, Loaded, Candidate, TryPending,
       AbandonPending, NothingPending, Otherwise, FallBack, NoImage, Begin, Data, End, Abort,
       SaveThen, flash
  <2> QED
    BY <1>2, <2>1 DEF Persisted, Newest
<1>5. CASE EraseCopy
  <2>1. Persisted' = Persisted /\ pc' = "program"
    BY <1>5, EraseFacts, ReliableFlash DEF EraseCopy, BudgetInv
  <2> QED
    BY <1>2, <1>5, <2>1 DEF EraseCopy
<1>6. CASE JumpTrial
  <2>1. /\ pc = "trial" /\ pc' = "app" /\ marker' = TRUE
        /\ trialRuns' = IF trialRuns <= MaxAttempts THEN trialRuns + 1 ELSE trialRuns
    BY <1>6 DEF JumpTrial, Jump
  <2>2. Persisted' = Persisted
    BY <1>6 DEF JumpTrial, Jump, flash, Persisted, Newest
  <2>3. trialRuns < Persisted.attempts /\ Persisted.pending # NoSlot
    BY <2>1 DEF BudgetInv, IInv, RecordsInv, CandidatesAgree, Place, Saving
  <2> QED
    BY <1>1, <2>1, <2>2, <2>3 DEF Contract!Next, Contract!Run
<1>7. CASE JumpActive \/ JumpOther
  <2>1. Persisted' = Persisted /\ trialRuns' = trialRuns /\ pc # "app" /\ marker' = FALSE
    BY <1>7 DEF JumpActive, JumpOther, Jump, flash, Persisted, Newest
  <2> QED
    BY <2>1 DEF Contract!vars
<1>8. CASE ProgramCopy
  <2>1. /\ Persisted' = state /\ pc' = after /\ pc = "program" /\ after \in Resumable /\ ChangeInv
        /\ trialRuns' = IF after = "trial" THEN trialRuns ELSE 0
    BY <1>8, RecordWritten DEF BudgetInv
  <2>2. pc # "app" /\ pc' # "app"
    BY <2>1 DEF Resumable
  <2>3. state.active \in Slots /\ Other(Persisted.active) \in Slots
        /\ Other(Persisted.active) # Persisted.active
    BY <1>1 DEF BootStates, Other, Slots
  <2>4. CASE after = "trial"
    <3>1. state.pending # NoSlot
      BY <2>1, <2>4 DEF IInv, RecordsInv, Place, Saving
    <3>2. /\ state.active = Persisted.active /\ state.pending = Persisted.pending
          /\ state.attempts = Persisted.attempts + 1 /\ trialRuns' = trialRuns
      BY <2>1, <2>4 DEF ChangeInv
    <3>3. Persisted.attempts < MaxAttempts
      BY <1>1, <3>2
    <3> QED
      BY <2>1, <2>2, <3>1, <3>2, <3>3 DEF Contract!Next, Contract!Count
  <2>5. CASE after = "pending"
    BY <2>1, <2>2, <2>5 DEF ChangeInv, Contract!Next, Contract!Accept
  <2>6. CASE after = "active"
    BY <2>1, <2>2, <2>6 DEF ChangeInv, Contract!Next, Contract!Abandon
  <2>7. CASE after = "other"
    <3>1. Persisted.attempts = 0 /\ trialRuns = 0
      BY <1>1, <2>1, <2>7 DEF ChangeInv, BudgetInv
    <3>2. Contract!FallBack(state.active)
      BY <2>1, <2>2, <2>3, <2>7, <3>1 DEF ChangeInv, Contract!FallBack
    <3> QED
      BY <2>3, <3>2 DEF Contract!Next
  <2>8. CASE after = "updater"
    <3>1. Contract!Offer(Other(Persisted.active))
      BY <2>1, <2>2, <2>3, <2>8 DEF ChangeInv, Contract!Offer
    <3> QED
      BY <2>3, <3>1 DEF Contract!Next
  <2> QED
    BY <2>1, <2>4, <2>5, <2>6, <2>7, <2>8 DEF Resumable
<1> QED
  BY <1>3, <1>4, <1>5, <1>6, <1>7, <1>8, ReliableFlash DEF Next, Start, Save, FlashFailure, Update

(* With a flash that does what it is told the two sectors behave as the    *)
(* one record of BootContract, although power may be cut between any two   *)
(* commands.                                                               *)
THEOREM ContractImplemented ==
    ASSUME FlashFails = FALSE
    PROVE  Spec => ImplementsContract
<1>1. Init => Contract!Init
  <2> SUFFICES ASSUME Init PROVE Contract!Init
    OBVIOUS
  <2>1. Persisted = NoState
    BY DEF Init, Persisted, Newest
  <2> QED
    BY <2>1 DEF Init, Contract!Init, NoState, Slots
<1>2. IInv /\ BudgetInv /\ [Next]_vars => [Contract!Next]_(Contract!vars)
  <2> SUFFICES ASSUME IInv, BudgetInv, [Next]_vars PROVE [Contract!Next]_(Contract!vars)
    OBVIOUS
  <2>1. CASE Next
    BY <2>1, ContractStep
  <2>2. CASE UNCHANGED vars
    <3>1. Persisted' = Persisted
      BY <2>2 DEF vars, flash, Persisted, Newest
    <3> QED
      BY <2>2, <3>1 DEF vars, retained, Contract!vars
  <2> QED
    BY <2>1, <2>2
<1> QED
  BY <1>1, <1>2, Invariance, BudgetInvariance, PTL DEF Spec, ImplementsContract, Contract!Spec
=============================================================================
