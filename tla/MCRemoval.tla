------------------------------- MODULE MCRemoval -------------------------------
(* A machine with the three controllers that hold more than their own output. *)
EXTENDS Removal

ThreeControllers == {BMC, Status, Reboot}
=============================================================================
