----------------------------- MODULE OrderlyRemoval -----------------------------
(***************************************************************************)
(* What the controllers promise about the removal of a machine: what the   *)
(* provider keeps of a registered machine comes only of work on it, and    *)
(* goes only once the machine is removed and that work is over; the        *)
(* configuration of its BMC goes after everything else, when nobody works  *)
(* on the machine any more; and a removed machine is gone only when        *)
(* nothing of it is left, nor being made.                                  *)
(***************************************************************************)
CONSTANTS
  Kinds,  \* what is kept of a machine, each by a controller of its own
  Last    \* what is needed until the end

VARIABLES
  registration,  \* "none", "there" or "leaving"
  kept,          \* the kinds of which there is something
  working        \* the kinds whose controller is at work on the machine

vars == <<registration, kept, working>>

Init == registration = "none" /\ kept = {} /\ working = {}

Register ==
  /\ registration = "none"
  /\ registration' = "there"
  /\ UNCHANGED <<kept, working>>

\* A machine already leaving may still be worked on.
Begin ==
  /\ registration # "none"
  /\ \E k \in Kinds : working' = working \cup {k}
  /\ UNCHANGED <<registration, kept>>

\* Work yields what is kept, and ends.  On a machine that is there it may do so at once.
Keep ==
  /\ \E k \in Kinds :
       /\ k \in working \/ registration = "there"
       /\ kept' = kept \cup {k} /\ working' = working \ {k}
  /\ UNCHANGED registration

\* So does work that fails, or whose process ends, with nothing to keep.
End ==
  /\ working' \subseteq working
  /\ UNCHANGED <<registration, kept>>

Leave ==
  /\ registration = "there"
  /\ registration' = "leaving"
  /\ UNCHANGED <<kept, working>>

Drop ==
  /\ registration = "leaving"
  /\ \E k \in kept \ working :
       /\ k = Last => kept = {Last} /\ working = {}
       /\ kept' = kept \ {k}
  /\ UNCHANGED <<registration, working>>

Gone ==
  /\ registration = "leaving" /\ kept = {} /\ working = {}
  /\ registration' = "none"
  /\ UNCHANGED <<kept, working>>

Next == End \/ Register \/ Begin \/ Keep \/ Leave \/ Drop \/ Gone

Spec == Init /\ [][Next]_vars
=============================================================================
