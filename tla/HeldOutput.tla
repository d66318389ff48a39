------------------------------- MODULE HeldOutput -------------------------------
(***************************************************************************)
(* What one controller promises others whose outputs it holds, so that it  *)
(* has them still when the machine is removed.  The holder takes hold of   *)
(* an output only while it holds the machine, and of none that is being    *)
(* torn down; it lets go of it only when the machine leaves, and of the    *)
(* machine only after that.  The owner of an output may tear it down at    *)
(* any time, destroys it only when it is not held, and brings back none    *)
(* that is torn down.                                                      *)
(***************************************************************************)
CONSTANT
  Kinds  \* the outputs, each of an owner of its own

VARIABLES
  registration,  \* of the machine: "none", "there" or "leaving"
  holds,         \* whether the holder holds the machine
  held,          \* the outputs it holds
  there,         \* the outputs there are
  leaving        \* those of them that are being torn down

vars == <<registration, holds, held, there, leaving>>

Init == registration = "none" /\ holds = FALSE /\ held = {} /\ there = {} /\ leaving = {}

-----------------------------------------------------------------------------
(* Whoever registers machines. *)

Register ==
  /\ registration = "none"
  /\ registration' = "there"
  /\ UNCHANGED <<holds, held, there, leaving>>

Leave ==
  /\ registration = "there"
  /\ registration' = "leaving"
  /\ UNCHANGED <<holds, held, there, leaving>>

Gone ==
  /\ registration = "leaving" /\ ~holds
  /\ registration' = "none"
  /\ UNCHANGED <<holds, held, there, leaving>>

-----------------------------------------------------------------------------
(* The holder. *)

\* It may get to an output only later, when the machine leaves already.
Hold ==
  /\ registration = "there" \/ holds
  /\ holds' = TRUE
  /\ held \subseteq held' /\ held' \subseteq held \cup (there \ leaving)
  /\ UNCHANGED <<registration, there, leaving>>

LetGo ==
  /\ registration = "leaving"
  /\ held' \subseteq held
  /\ holds' \in {holds, FALSE} /\ (held' # {} => holds')
  /\ UNCHANGED <<registration, there, leaving>>

-----------------------------------------------------------------------------
(* The owners. *)

Create ==
  /\ \E k \in Kinds \ there : there' = there \cup {k}
  /\ UNCHANGED <<registration, holds, held, leaving>>

TearDown ==
  /\ \E k \in there : leaving' = leaving \cup {k}
  /\ UNCHANGED <<registration, holds, held, there>>

Destroy ==
  /\ \E k \in leaving \ held : there' = there \ {k} /\ leaving' = leaving \ {k}
  /\ UNCHANGED <<registration, holds, held>>

Next == Register \/ Leave \/ Gone \/ Hold \/ LetGo \/ Create \/ TearDown \/ Destroy

Spec == Init /\ [][Next]_vars
=============================================================================
