--------------------------- MODULE RuntimeTiming ---------------------------
(***************************************************************************)
(* Runtime with stopwatches that no code reads: how long the relay has     *)
(* been open, the oscillator selected and the DAC unmuted. They say what   *)
(* the deadlines amount to when starts are interrupted, repeated and       *)
(* resumed.                                                                *)
(***************************************************************************)
EXTENDS Runtime

CONSTANT MaxAge        \* bound: where the stopwatches saturate

ASSUME AgeAssumption ==
    /\ MaxAge \in Nat /\ RelayRelease <= MaxAge
    /\ OscillatorSettle + StableAudio + DacSettle <= MaxAge

VARIABLES openFor, selectedFor, unmutedFor

timedVars == <<vars, openFor, selectedFor, unmutedFor>>

Older(age, d) == IF age + d > MaxAge THEN MaxAge ELSE age + d

TimedInit ==
    /\ Init
    /\ openFor = 0 /\ selectedFor = 0 /\ unmutedFor = 0

Watch(d) ==
    /\ openFor'     = IF relay' THEN 0 ELSE Older(openFor, d)
    /\ selectedFor' = IF clk'.selected # clk.selected THEN 0 ELSE Older(selectedFor, d)
    /\ unmutedFor'  = IF dac'.muted THEN 0 ELSE Older(unmutedFor, d)

TimedNext ==
    \/ \E d \in 0..MaxElapsed : PollStep(d) /\ Watch(d)
    \/ (HostStep \/ BodyStep \/ InterruptStep \/ Gone) /\ Watch(0)

TimedSpec == TimedInit /\ [][TimedNext]_timedVars

(* The oscillator is switched only with the DAC muted and the relay open for *)
(* its release time, also when rate requests, stops and mutes pile up while  *)
(* an earlier start is still under way.                                      *)
QuietSwitch ==
    [][clk'.selected # clk.selected => openFor >= RelayRelease /\ dac.muted]_timedVars

(* The relay closes only after the whole chain of waits: oscillator settle,  *)
(* stable audio and DAC settle since the last switch of the oscillator, and  *)
(* the DAC settle since the DAC was last muted.                              *)
RelayClosesSettled ==
    [][~relay /\ relay' =>
        /\ selectedFor >= OscillatorSettle + StableAudio + DacSettle
        /\ unmutedFor >= DacSettle]_timedVars
=============================================================================
