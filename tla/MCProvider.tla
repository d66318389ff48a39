------------------------------ MODULE MCProvider ------------------------------
(* Instance of Provider for TLC: options that work, and each that departs from *)
(* them.                                                                       *)
EXTENDS Provider

Default ==
  [bootMode |-> "uefi", secureBoot |-> FALSE, localAssets |-> FALSE, assets |-> FALSE,
   testMode |-> FALSE, stateDir |-> "unset", advertised |-> FALSE, routableIPs |-> 1,
   endpoint |-> TRUE, clear |-> FALSE, tls |-> "ca", shortTTL |-> FALSE, skipVerify |-> FALSE,
   labels |-> TRUE, extraConfig |-> TRUE, bootFiles |-> TRUE, proxy |-> TRUE]

Working ==
  {Default,
   [Default EXCEPT !.tls = "off"],
   [Default EXCEPT !.tls = "files"],
   [Default EXCEPT !.clear = TRUE, !.skipVerify = TRUE]}

Refused ==
  {[Default EXCEPT !.bootMode = "bios", !.secureBoot = TRUE],
   [Default EXCEPT !.testMode = TRUE, !.clear = TRUE],
   [Default EXCEPT !.stateDir = "file"],
   [Default EXCEPT !.routableIPs = 2]}

FailLate == {[Default EXCEPT !.shortTTL = TRUE], [Default EXCEPT !.labels = FALSE]}

MCOptionSets == Working \cup Refused \cup FailLate
=============================================================================
