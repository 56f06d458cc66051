-------------------------- MODULE RuntimeWindows ---------------------------
(***************************************************************************)
(* Runtime with its deadlines as the code keeps them: words of a counter   *)
(* that wraps, compared by the sign of their difference (reached). Runtime *)
(* counts the ticks left instead; here both run side by side, for the      *)
(* stage of the start and for the two windows of the maintenance requests. *)
(* The ages of those requests, which no code reads, say what the windows   *)
(* amount to.                                                              *)
(***************************************************************************)
EXTENDS Runtime

CONSTANTS
    Wrap,          \* the counter of SysTick counts modulo this, 2^32 in the code
    MaxArmAge      \* bound: where the ages saturate

ASSUME WrapAssumption ==
    /\ Wrap \in Nat \ {0}
    /\ \A w \in {RelayRelease, OscillatorSettle, DmaStartLimit, StableAudio, DacSettle, ArmWindow} :
           w + MaxElapsed < Wrap \div 2
ASSUME ArmAgeAssumption == MaxArmAge \in Nat /\ ArmWindow <= MaxArmAge

VARIABLES
    ticks,         \* now, as the pass has read it
    deadline,      \* of the stage
    armed,         \* bootloader_armed, updater_armed
    armDeadline,   \* bootloader_deadline, updater_deadline
    armAge         \* ticks since each request was last handled; MaxArmAge before the first

windowVars == <<vars, ticks, deadline, armed, armDeadline, armAge>>

Untimed == {"None", "Prefill", "Playing"}
Arms == {"BootloaderArm", "UpdaterArm"}
Window(a) == IF a = "BootloaderArm" THEN bootArm ELSE updArm
ExitOf(a) == IF a = "BootloaderArm" THEN "rom" ELSE "updater"

After(d) == (ticks + d) % Wrap

(* Mutant of WordReached: the words are compared as they are. *)
WordReachedUnsigned(word) == ticks >= word

(* static_cast<std::int32_t>(now - deadline) >= 0 *)
WordReached(word) == (ticks - word) % Wrap < Wrap \div 2

(* The steps that handle request a and that end a pass; no interrupt is one. *)
Handled(a) == pc = "drain" /\ queue # <<>> /\ Head(queue).ev = a /\ queue' = Tail(queue)
EndsPass == pc = "checks" /\ pc' = "poll"

WindowInit ==
    /\ Init
    /\ ticks = 0 /\ deadline = 0
    /\ armed = [a \in Arms |-> FALSE] /\ armDeadline = [a \in Arms |-> 0]
    /\ armAge = [a \in Arms |-> MaxArmAge]

(* now is read. *)
ReadClock(d) ==
    /\ ticks' = After(d)
    /\ armAge' = [a \in Arms |-> IF armAge[a] + d > MaxArmAge THEN MaxArmAge ELSE armAge[a] + d]
    /\ UNCHANGED <<deadline, armed, armDeadline>>

(* A stage that sets its deadline, a request that opens its window, and the  *)
(* end of a pass that closes the expired ones. A word is 0 here while        *)
(* nothing reads it: in a stage that waits for no deadline, or not armed.    *)
SetWords ==
    /\ deadline' = IF step' \in Untimed THEN 0
                  ELSE IF step' # step \/ timer' # timer THEN After(timer') ELSE deadline
    /\ armed' = [a \in Arms |-> \/ Handled(a)
                                \/ armed[a] /\ ~(EndsPass /\ WordReached(armDeadline[a]))]
    /\ armDeadline' = [a \in Arms |-> IF Handled(a) THEN After(ArmWindow)
                                     ELSE IF armed'[a] THEN armDeadline[a] ELSE 0]
    /\ armAge' = [a \in Arms |-> IF Handled(a) THEN 0 ELSE armAge[a]]
    /\ UNCHANGED ticks

WindowNext ==
    \/ \E d \in 0..MaxElapsed : PollStep(d) /\ ReadClock(d)
    \/ (HostStep \/ BodyStep \/ InterruptStep \/ Gone) /\ SetWords

WindowSpec == WindowInit /\ [][WindowNext]_windowVars

(* However often the counter has wrapped, wherever the code compares words   *)
(* of it they answer what the ticks left do, and a request that expired      *)
(* does not come back half a wrap later (main.cpp:61-63, 373-392, 402-403).  *)
DeadlinesSurviveWrap ==
    /\ pc = "start" /\ step \notin Untimed =>
           (WordReached(deadline) <=> timer = 0)
    /\ pc = "drain" =>
           \A a \in Arms : armed[a] /\ ~WordReached(armDeadline[a]) <=> Window(a) > 0

(* The application is left only when a second request of the same kind is    *)
(* handled inside the window the first one opened, however the requests of   *)
(* both kinds and lost events interleave, and it is left with the relay      *)
(* open, the engine stopped and the host told that the clock is invalid.     *)
LeavesOnlyOnSecondRequest ==
    [][InApplication /\ ~InApplication' =>
        /\ \E a \in Arms : pc' = ExitOf(a) /\ Handled(a) /\ armAge[a] < ArmWindow
        /\ ~relay' /\ dac'.muted /\ ~engine'.running /\ ~clockValid']_windowVars
=============================================================================
