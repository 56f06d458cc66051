--------------------------- MODULE MCControlPath ----------------------------
(* The host of the small instance of ControlPath. *)
EXTENDS ControlPath

(* Above the range of the control, and between two steps of the chip. *)
TwoVolumes == {256, -255}

(* A report that is built when it is asked for, and one that is not. *)
TwoReports == {"EventTrace", "Diagnostics"}
=============================================================================
