------------------------------ MODULE MCPower ------------------------------
(* Instance of Power for TLC: the bounds of each run. *)
EXTENDS Power

OverBMC ==
  [hasBMC |-> TRUE, prefersOn |-> FALSE, wipes |-> 0, installs |-> 0, powerOffs |-> 0,
   reboots |-> 0, failures |-> 0, accidents |-> 0]

ByHand == [OverBMC EXCEPT !.hasBMC = FALSE]

\* A machine with a BMC, which works or fails one call; a machine without, which may be cut off.
ProgressBounds ==
  {[OverBMC EXCEPT !.wipes = 1, !.failures = 1],
   [OverBMC EXCEPT !.prefersOn = TRUE, !.wipes = 1, !.installs = 1],
   [OverBMC EXCEPT !.prefersOn = TRUE, !.wipes = 1, !.reboots = 1],
   [OverBMC EXCEPT !.prefersOn = TRUE, !.reboots = 1, !.failures = 1],
   [ByHand EXCEPT !.wipes = 1, !.installs = 1], [ByHand EXCEPT !.wipes = 1, !.failures = 1],
   [ByHand EXCEPT !.wipes = 1, !.accidents = 1],
   [ByHand EXCEPT !.reboots = 1, !.accidents = 1]}
  \cup {[OverBMC EXCEPT !.prefersOn = on, !.powerOffs = 1, !.failures = 1] : on \in BOOLEAN}

LostWakeUpBounds == {[OverBMC EXCEPT !.prefersOn = on, !.accidents = 1] : on \in BOOLEAN}
StaleAckBounds == {[OverBMC EXCEPT !.wipes = 1, !.powerOffs = 1]}
=============================================================================
