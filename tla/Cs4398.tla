------------------------------- MODULE Cs4398 -------------------------------
(***************************************************************************)
(* The driver of devices/dac.cpp and the converter on the other end of its *)
(* bus. The driver knows a state, a deadline and what it last wrote; the   *)
(* chip keeps its own registers, loses them while its reset is asserted,   *)
(* and may or may not have taken a transfer that the bus reports as        *)
(* failed. Volumes are the signed 1/256 dB of USB, attenuations the half   *)
(* dB steps of the chip. The deadline is kept as the ticks left until it.  *)
(***************************************************************************)
EXTENDS Integers, Sequences

CONSTANTS
    ResetAssert, ResetRelease,        \* Cs4398Timing, in ticks
    ChipSelectSetup, InterWrite

ASSUME DacTimingAssumption ==
    /\ ResetAssert \in Nat \ {0} /\ ResetRelease \in Nat \ {0}
    /\ ChipSelectSetup \in Nat \ {0} /\ InterWrite \in Nat \ {0}

VARIABLES
    dacState, wait, commandIndex,     \* state_, deadline_ms_, command_index_
    dacMuted, attenuation,            \* muted_, attenuation_db_8_8_
    inReset, registers                \* the reset pin and the chip's registers

dacVars == <<dacState, wait, commandIndex, dacMuted, attenuation, inReset, registers>>

DacStates == {"WaitingReset", "WaitingRelease", "WaitingChipSelect",
              "WaitingInterWrite", "ReadyMuted", "Fault"}

(* The registers that decide what is heard. Out of reset the chip is powered *)
(* down, its control port closed and nothing muted or attenuated.            *)
PowerOn == [power |-> FALSE, port |-> FALSE, muted |-> FALSE, left |-> 0, right |-> 0]

----------------------------------------------------------------------------
(* attenuation_from_uac2_db and the clamp of its caller. *)

Clamped(v, lowest) == IF v > 0 THEN 0 ELSE IF v < lowest THEN lowest ELSE v

LowestVolume == -32640                               \* -0x7F80, -127.5 dB

(* Mutant of AttenuationSteps: the magnitude is not rounded. *)
AttenuationStepsTruncated(v) == IF v >= 0 THEN 0 ELSE (-v) \div 128

AttenuationSteps(v) ==
    IF v >= 0 THEN 0
    ELSE LET steps == (-v + 64) \div 128 IN IF steps > 255 THEN 255 ELSE steps

----------------------------------------------------------------------------
(* The bus: a write that succeeds reaches a chip out of reset; one that     *)
(* fails may have reached it too. Each command is named for its register.   *)

Write(r, reg, value) ==
    CASE reg = "Control8"         -> [r EXCEPT !.port = TRUE, !.power = (value = "Running")]
      [] reg = "MuteControl"      -> [r EXCEPT !.muted = value]
      [] reg = "AttenuationLeft"  -> [r EXCEPT !.left = value]
      [] reg = "AttenuationRight" -> [r EXCEPT !.right = value]
      [] OTHER                    -> r

(* What a transfer leaves in the chip, with the result it reports. *)
Transfer(r, reg, value) ==
    {[ok |-> TRUE, chip |-> Write(r, reg, value)]}
    \cup {[ok |-> FALSE, chip |-> c] : c \in {r, Write(r, reg, value)}}

Bootstrap ==
    <<<<"Control8", "PoweredDown">>, <<"Control2", "Legacy">>,
      <<"Control7", "Legacy">>, <<"Control8", "Running">>, <<"MuteControl", TRUE>>>>

----------------------------------------------------------------------------
(* begin, called once at boot. *)
DacInit ==
    /\ dacState = "WaitingReset" /\ wait = ResetAssert
    /\ commandIndex = 0
    /\ dacMuted = TRUE /\ attenuation = 0
    /\ inReset = TRUE /\ registers = PowerOn

(* safe_fault: the reset takes the registers with it. *)
SafeFault ==
    /\ dacState' = "Fault"
    /\ dacMuted' = TRUE
    /\ inReset' = TRUE /\ registers' = PowerOn

(* Time passes between two passes of the loop. *)
Left(d) == IF wait > d THEN wait - d ELSE 0

(* poll, d ticks after the last one: nothing before the deadline, else one   *)
(* step of the bootstrap.                                                    *)
PollWaits(d) ==
    /\ Left(d) > 0 \/ dacState \in {"ReadyMuted", "Fault"}
    /\ wait' = Left(d)
    /\ UNCHANGED <<dacState, commandIndex, dacMuted, attenuation, inReset, registers>>

ReleaseReset(d) ==
    /\ dacState = "WaitingReset" /\ Left(d) = 0
    /\ inReset' = FALSE
    /\ wait' = ResetRelease /\ dacState' = "WaitingRelease"
    /\ UNCHANGED <<commandIndex, dacMuted, attenuation, registers>>

SelectChip(d) ==
    /\ dacState \in {"WaitingRelease", "WaitingInterWrite"} /\ Left(d) = 0
    /\ wait' = ChipSelectSetup /\ dacState' = "WaitingChipSelect"
    /\ UNCHANGED <<commandIndex, dacMuted, attenuation, inReset, registers>>

WriteNext(d) ==
    /\ dacState = "WaitingChipSelect" /\ Left(d) = 0
    /\ LET command == Bootstrap[commandIndex + 1]
       IN \E t \in Transfer(registers, command[1], command[2]) :
        IF t.ok
        THEN /\ registers' = t.chip
             /\ commandIndex' = commandIndex + 1
             /\ dacState' = IF commandIndex' = Len(Bootstrap) THEN "ReadyMuted" ELSE "WaitingInterWrite"
             /\ wait' = IF commandIndex' = Len(Bootstrap) THEN 0 ELSE InterWrite
             /\ UNCHANGED <<dacMuted, inReset>>
        ELSE SafeFault /\ wait' = 0 /\ UNCHANGED commandIndex
    /\ UNCHANGED attenuation

PollDac(d) == PollWaits(d) \/ ReleaseReset(d) \/ SelectChip(d) \/ WriteNext(d)

----------------------------------------------------------------------------
(* set_mute, set_attenuation and configure_format, refused unless ready. *)

Ready == dacState = "ReadyMuted"

SetDacMute(m) ==
    /\ Ready
    /\ \E t \in Transfer(registers, "MuteControl", m) :
        IF t.ok THEN registers' = t.chip /\ dacMuted' = m /\ UNCHANGED <<dacState, inReset>>
                ELSE SafeFault
    /\ UNCHANGED <<wait, commandIndex, attenuation>>

(* Mutant of BothWritten: one of the two writes is enough. *)
EitherWritten(left, right) == left.ok \/ right.ok

BothWritten(left, right) == left.ok /\ right.ok

(* Both channels are written whatever the first write reports. *)
SetAttenuation(v) ==
    /\ Ready
    /\ LET db == Clamped(v, LowestVolume)
           steps == AttenuationSteps(db)
       IN \E left \in Transfer(registers, "AttenuationLeft", steps) :
          \E right \in Transfer(left.chip, "AttenuationRight", steps) :
            IF BothWritten(left, right)
            THEN /\ registers' = right.chip
                 /\ attenuation' = db
                 /\ UNCHANGED <<dacState, dacMuted, inReset>>
            ELSE SafeFault /\ UNCHANGED attenuation
    /\ UNCHANGED <<wait, commandIndex>>

(* The format register is the same for both rates. *)
ConfigureFormat ==
    /\ Ready
    /\ \E t \in Transfer(registers, "Control7", "Legacy") :
        IF t.ok THEN registers' = t.chip /\ UNCHANGED <<dacState, dacMuted, inReset>>
                ELSE SafeFault
    /\ UNCHANGED <<wait, commandIndex, attenuation>>

Refused == ~Ready /\ UNCHANGED dacVars

----------------------------------------------------------------------------
(* Whatever fails on the bus and whenever, a driver that says it is ready    *)
(* knows the chip: powered, in the mute it remembers, and attenuated on both *)
(* channels alike by its volume (dac.cpp, set_mute and set_attenuation).     *)
DriverKnowsChip ==
    Ready => /\ ~inReset /\ registers.power
             /\ registers.muted = dacMuted
             /\ registers.left = registers.right
             /\ registers.left = AttenuationSteps(attenuation)
=============================================================================
