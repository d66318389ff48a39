--------------------------- MODULE CleanHandover ----------------------------
(***************************************************************************)
(* What wiping promises, whatever controllers, handlers and reboots carry  *)
(* it out.  A machine passes through tenancies, each named by the WipeId   *)
(* in force while it lasts.  Data on the disk is known by the tenancy that *)
(* wrote it.  A certificate names the tenancy the disk was last wiped for. *)
(*                                                                         *)
(*  - data is only ever erased while the current tenancy has no            *)
(*    certificate: no tenant loses data to a wipe nobody asked for;        *)
(*  - a certificate is only issued over a disk that holds nothing written  *)
(*    before the tenancy it names.                                         *)
(***************************************************************************)
EXTENDS Integers

CONSTANT Nil   \* no tenancy, no certificate

\* The tag of data that was on the disk before the machine was first registered.
Factory == -1

VARIABLES
  current,      \* the tenancy in force, Nil for an unknown machine
  disk,         \* the tenancies whose data is on the disk
  certificate   \* the tenancy the disk was last wiped for, or Nil

vars == <<current, disk, certificate>>

\* Nothing on the disk is older than tenancy t.
Clean(t) == \A d \in disk : d >= t

Init ==
  /\ current = Nil
  /\ certificate = Nil
  /\ disk \in {{}, {Factory}}

\* The machine is registered (t = 0), handed to the next tenancy, or removed;
\* a certificate does not outlive the registration it was issued in.
Handover ==
  /\ \/ current = Nil /\ certificate = Nil /\ current' = 0
     \/ current # Nil /\ current' = current + 1
     \/ current # Nil /\ certificate = Nil /\ current' = Nil
  /\ UNCHANGED <<disk, certificate>>

Write ==
  /\ current # Nil
  /\ disk' = disk \cup {current}
  /\ UNCHANGED <<current, certificate>>

Erase ==
  /\ current = Nil \/ certificate # current
  /\ disk' \subseteq disk
  /\ UNCHANGED <<current, certificate>>

Certify ==
  /\ current # Nil
  /\ \E t \in 0..current :
       /\ Clean(t)
       /\ certificate' = t
  /\ UNCHANGED <<current, disk>>

Revoke ==
  /\ certificate' = Nil
  /\ UNCHANGED <<current, disk>>

Next == Erase \/ Handover \/ Write \/ Certify \/ Revoke

Spec == Init /\ [][Next]_vars
=============================================================================
