----------------------------- MODULE MCBMCSetup ------------------------------
(* Instance of BMCSetup for TLC: three passwords, of which two at most are in  *)
(* use when another is generated.                                             *)
EXTENDS BMCSetup

CONSTANTS p1, p2, p3
MCPasswords == {p1, p2, p3}
=============================================================================
