---------------------------- MODULE StreamBuffer ----------------------------
(***************************************************************************)
(* The ring of audio/stream_buffer.cpp, with every operation split where   *)
(* an interrupt could come if the InterruptGuard did not hold it off: the  *)
(* data is copied in one step and the indices move in the next. The unit   *)
(* is a sample; the overflow and underrun counters of the ring are only    *)
(* reported and left out.                                                  *)
(***************************************************************************)
EXTENDS Integers, Sequences

CONSTANTS
    Samples,       \* the values of the data
    Silence,       \* what a short pop is filled with
    Capacity       \* StreamBuffer::capacity_bytes

ASSUME SampleAssumption == Silence \notin Samples /\ Samples # {}
ASSUME CapacityAssumption == Capacity \in Nat \ {0}

VARIABLES
    storage,       \* the cells
    readIndex, writeIndex, used,
    guard          \* who runs with interrupts disabled: "none", "push", "pop"

ringVars == <<storage, readIndex, writeIndex, used>>

Cells == 0..(Capacity - 1)
At(base, i) == (base + i) % Capacity

(* Mutant of Unguarded: no operation disables the interrupts. *)
UnguardedAlways == TRUE

(* The InterruptGuard of one operation holds off every other one. *)
Unguarded == guard = "none"

RingInit ==
    /\ storage = [c \in Cells |-> Silence]
    /\ readIndex = 0 /\ writeIndex = 0 /\ used = 0
    /\ guard = "none"

----------------------------------------------------------------------------
(* push: all of a packet or nothing of it. *)

(* Mutant of Fits: one sample too many. *)
FitsOneMore(n) == n <= Capacity - used + 1

Fits(n) == n <= Capacity - used

(* The cells after the two memcpy calls. *)
Copied(p) ==
    [c \in Cells |-> LET i == At(c - writeIndex, 0) + 1
                     IN IF i \in DOMAIN p THEN p[i] ELSE storage[c]]

PushCopy(p) ==
    /\ Unguarded /\ Fits(Len(p))
    /\ guard' = "push"
    /\ storage' = Copied(p)
    /\ UNCHANGED <<readIndex, writeIndex, used>>

PushPublish(n) ==
    /\ guard' = "none"
    /\ writeIndex' = At(writeIndex, n)
    /\ used' = used + n
    /\ UNCHANGED <<storage, readIndex>>

(* pop: what there is, up to size; the rest is silence. *)
Popped(size) == IF size < used THEN size ELSE used
Output(size) ==
    [i \in 1..size |-> IF i <= Popped(size) THEN storage[At(readIndex, i - 1)] ELSE Silence]

PopPublish(count) ==
    /\ guard' = "none"
    /\ readIndex' = At(readIndex, count)
    /\ used' = used - count
    /\ UNCHANGED <<storage, writeIndex>>

(* Mutant of Emptied: one index is forgotten. *)
EmptiedWriteOnly == writeIndex' = 0 /\ used' = 0 /\ UNCHANGED <<storage, readIndex, guard>>

(* clear: the three assignments under the guard. *)
Emptied ==
    /\ readIndex' = 0 /\ writeIndex' = 0 /\ used' = 0
    /\ UNCHANGED <<storage, guard>>

----------------------------------------------------------------------------
(* What the ring holds, oldest first. *)
Held == [i \in 1..used |-> storage[At(readIndex, i - 1)]]

RingTypeOK ==
    /\ storage \in [Cells -> Samples \cup {Silence}]
    /\ readIndex \in Cells /\ writeIndex \in Cells /\ used \in 0..Capacity
    /\ guard \in {"none", "push", "pop"}

(* The three indices always describe the same ring (stream_buffer.cpp:35-66). *)
RingConsistent == writeIndex = At(readIndex, used)
=============================================================================
