--------------------------- MODULE MCBootManager ---------------------------
(* The devices of the small instances of BootManager. *)
EXTENDS BootManager

(* The factory image; a board whose slot B only was programmed; a blank one. *)
Devices == {[s \in Slots |-> IF s = 0 THEN Holding("good") ELSE Blank],
            [s \in Slots |-> IF s = 1 THEN Holding("good") ELSE Blank],
            [s \in Slots |-> Blank]}

Factory == {[s \in Slots |-> IF s = 0 THEN Holding("good") ELSE Blank]}
=============================================================================
