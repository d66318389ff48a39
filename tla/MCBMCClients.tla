---------------------------- MODULE MCBMCClients -----------------------------
(* Instance of BMCClients for TLC: machines with names, so that they and     *)
(* their callers can be told apart by a reader of a trace.                   *)
EXTENDS BMCClients

CONSTANTS m1, m2, a1, a2, poll, power
MCMachines == {m1, m2}
MCAddresses == {a1, a2}
MCCallers == {poll, power}
=============================================================================
