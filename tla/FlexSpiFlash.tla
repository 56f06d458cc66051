---------------------------- MODULE FlexSpiFlash ----------------------------
(***************************************************************************)
(* boot/flexspi_flash.cpp: what an erase or a program of a unit of NOR     *)
(* returns and what it leaves in the chip. A unit holds one abstract       *)
(* content. The driver is a write enable, the command, polling the status  *)
(* and a read-back; each of the first three may be refused or time out,    *)
(* and the chip may do nothing although every command completed (it missed *)
(* the write enable, or the sector is protected).                          *)
(***************************************************************************)
CONSTANT FlashFails     \* whether any of that may go wrong

ASSUME FlashAssumption == FlashFails \in BOOLEAN

(* command(): done without an error flag before the timeout, or not. *)
Commands == IF FlashFails THEN BOOLEAN ELSE {TRUE}

(* wait_ready(): a status that cannot be read counts as busy (0xFF). *)
Ready == Commands

(* What the chip makes of a command to turn `old` into `new`; `cut` is     *)
(* what it leaves when it stops half way.                                  *)
Left(old, new, cut) == IF FlashFails THEN {old, cut, new} ELSE {new}

(* Mutant of Modified: what was written is not read back. *)
ModifiedUnread(old, new, cut, wanted) ==
    {[ok |-> FALSE, now |-> old] : enabled \in {e \in Commands : ~e}}
    \cup {[ok |-> done /\ ready, now |-> now] :
            done \in Commands, ready \in Ready, now \in Left(old, new, cut)}

(* write_enable, the command, wait_ready, then `wanted` is read back       *)
(* through a bus whose cached copy invalidate_ahb() dropped.               *)
Modified(old, new, cut, wanted) ==
    {[ok |-> FALSE, now |-> old] : enabled \in {e \in Commands : ~e}}
    \cup {[ok |-> done /\ ready /\ now = wanted, now |-> now] :
            done \in Commands, ready \in Ready, now \in Left(old, new, cut)}

(* erase_sector(): erased() reads the whole sector. *)
EraseSector(old, cut, blank) == Modified(old, blank, cut, blank)

(* program(): bits only go from 1 to 0, so `new` is `source` only where    *)
(* the unit allowed it; memcmp compares with the source.                   *)
Program(old, new, cut, source) == Modified(old, new, cut, source)
=============================================================================
