--------------------------------- MODULE Removal ---------------------------------
(***************************************************************************)
(* The registration and the removal of one machine, as the controllers go  *)
(* through them together.  Each holds the infra.Machine by a finalizer     *)
(* while it keeps an output for it; the RebootStatusController also holds  *)
(* the MachineStatus and the BMCConfiguration, which it needs to reboot    *)
(* the machine into the agent once more; and the                           *)
(* BMCConfigurationController ignores the removal until nobody else holds  *)
(* the infra.Machine.                                                      *)
(*                                                                         *)
(* A reconcile reads the infra.Machine first and acts on what it read;     *)
(* every call it makes is a step, and anything may happen between two.     *)
(* A controller never reconciles a machine twice at the same time.         *)
(***************************************************************************)
EXTENDS Naturals

CONSTANTS
  Nil,               \* what is not there
  Controllers,       \* the controllers, each named for its output
  MaxRegistrations,  \* bound: times the machine is registered
  MaxMishaps         \* bound: failed calls, restarts

BMC == "BMCConfiguration"
Status == "MachineStatus"
Reboot == "RebootStatus"
Wipe == "WipeStatus"
PowerOp == "PowerOperation"
Report == "InfraMachineStatus"

\* The outputs that wake a controller when they change; the infra.Machine wakes every one.
Inputs ==
  [c \in {BMC, Status, Reboot, Wipe, PowerOp, Report} |->
     CASE c = BMC -> {Status}
       [] c = Status -> {BMC}
       [] c = Reboot -> {Status, BMC, Wipe, PowerOp}
       [] c = Wipe -> {Status}
       [] c = PowerOp -> {BMC, Wipe, Reboot, Status}
       [] c = Report -> {Status, Reboot, Wipe, BMC, PowerOp}]

ASSUME RemovalAssumption ==
  /\ {BMC, Status, Reboot} \subseteq Controllers /\ Controllers \subseteq DOMAIN Inputs
  /\ {MaxRegistrations, MaxMishaps} \subseteq Nat

VARIABLES
  im,       \* the infra.Machine, or Nil
  out,      \* the output of each controller, or Nil
  rec,      \* the reconcile of each
  pending,  \* the controllers with a reason for another
  attempt,  \* history: what became of the reboot on removal
  held,     \* history: whether, when the removal began, what it needs was held
  registered, mishaps

histories == <<attempt, held>>
bounds == <<registered, mishaps>>
vars == <<im, out, rec, pending, attempt, held, registered, mishaps>>

Resource == [phase: {"running", "tearingDown"}, finalizers: SUBSET Controllers]

ASSUME NilIsNoResource == Nil \notin Resource

Fresh == [phase |-> "running", finalizers |-> {}]

Steps == {"idle", "adopt", "holdStatus", "holdBMC", "transform",
          "attempt", "dropStatus", "dropBMC", "teardown", "destroy", "release"}

TypeOK ==
  /\ im \in Resource \cup {Nil}
  /\ out \in [Controllers -> Resource \cup {Nil}]
  /\ rec \in [Controllers -> Steps]
  /\ pending \subseteq Controllers
  /\ attempt \in {"none", "needless", "impossible", "made"}
  /\ held \in BOOLEAN
  /\ registered \in 0..MaxRegistrations /\ mishaps \in 0..MaxMishaps

Init ==
  /\ im = Nil
  /\ out = [c \in Controllers |-> Nil]
  /\ rec = [c \in Controllers |-> "idle"]
  /\ pending = {}
  /\ attempt = "none" /\ held = FALSE
  /\ registered = 0 /\ mishaps = 0

Mishap == mishaps < MaxMishaps /\ mishaps' = mishaps + 1

Watchers(k) == {c \in Controllers : k \in Inputs[c]}

Running == im # Nil /\ im.phase = "running"

Holds(c) == im # Nil /\ c \in im.finalizers

-----------------------------------------------------------------------------
(* Omni, and what the provider learns of the machine. *)

Register ==
  /\ im = Nil /\ registered < MaxRegistrations
  /\ im' = Fresh
  /\ pending' = Controllers
  /\ attempt' = "none" /\ held' = FALSE
  /\ registered' = registered + 1
  /\ UNCHANGED <<out, rec, mishaps>>

HeldBy(c, k) == out[k] # Nil /\ c \in out[k].finalizers

Teardown ==
  /\ Running
  /\ im' = [im EXCEPT !.phase = "tearingDown"]
  /\ pending' = Controllers
  /\ held' = (HeldBy(Reboot, Status) /\ HeldBy(Reboot, BMC))
  /\ UNCHANGED <<out, rec, attempt, bounds>>

Remove ==
  /\ im # Nil /\ im.phase = "tearingDown" /\ im.finalizers = {}
  /\ im' = Nil
  /\ pending' = Controllers
  /\ UNCHANGED <<out, rec, histories, bounds>>

\* What is not there is created.
Writable(k) == out[k] # Nil => out[k].phase = "running"

\* A boot, a tunnel or a poll: the MachineStatus is created or changed, registered or not.
StatusWrite ==
  /\ Writable(Status)
  /\ out' = IF out[Status] = Nil THEN [out EXCEPT ![Status] = Fresh] ELSE out
  /\ pending' = pending \cup Watchers(Status)
  /\ UNCHANGED <<im, rec, histories, bounds>>

-----------------------------------------------------------------------------
(* A reconcile. *)

Goto(c, step) == rec' = [rec EXCEPT ![c] = step]

\* It ends in an error, and will be tried again.
Retry(c) ==
  /\ Goto(c, "idle")
  /\ pending' = pending \cup {c}

\* Mutant: nobody ignores a removal.
IgnoresTeardownNever(c) == FALSE

IgnoresTeardown(c) == c = BMC /\ im # Nil /\ im.finalizers \ {c} # {}

WorksOn(c) == Running \/ IgnoresTeardown(c)

\* A machine that is gone passes for one that is being removed.  Whether a
\* controller that has let go of the machine already goes through its duties again is for the
\* runtime to say.
Reconcile(c) ==
  /\ c \in pending /\ rec[c] = "idle"
  /\ pending' = pending \ {c}
  /\ \/ WorksOn(c) /\ Goto(c, "adopt")
     \/ ~WorksOn(c) /\ c = Reboot /\ Goto(c, "attempt")
     \/ ~WorksOn(c) /\ ~(c = Reboot /\ Holds(c)) /\ Goto(c, "teardown")
  /\ UNCHANGED <<im, out, histories, bounds>>

\* What follows the adoption of an infra.Machine.
AfterAdoption(c) ==
  CASE c = Status -> "idle"
    [] c = Reboot -> "holdStatus"
    [] OTHER -> "transform"

\* Mutant: work goes on for an infra.Machine that takes no finalizer.
AdoptAnyway(c) ==
  /\ rec[c] = "adopt"
  /\ IF Running /\ ~Holds(c)
     THEN im' = [im EXCEPT !.finalizers = @ \cup {c}] /\ pending' = Controllers
     ELSE UNCHANGED <<im, pending>>
  /\ Goto(c, AfterAdoption(c))
  /\ UNCHANGED <<out, histories, bounds>>

\* What is being torn down takes no finalizer.
Adopt(c) ==
  /\ rec[c] = "adopt"
  /\ \/ /\ Holds(c)
        /\ Goto(c, AfterAdoption(c))
        /\ UNCHANGED <<im, pending>>
     \/ /\ ~Holds(c) /\ Running
        /\ im' = [im EXCEPT !.finalizers = @ \cup {c}]
        /\ pending' = Controllers
        /\ Goto(c, AfterAdoption(c))
     \/ /\ ~Holds(c) /\ ~Running
        /\ Retry(c)
        /\ UNCHANGED im
  /\ UNCHANGED <<out, histories, bounds>>

\* The RebootStatusController holds k, if it is there.
Hold(k, here, next) ==
  /\ rec[Reboot] = here
  /\ \/ /\ out[k] = Nil \/ HeldBy(Reboot, k)
        /\ Goto(Reboot, next)
        /\ UNCHANGED <<out, pending>>
     \/ /\ out[k] # Nil /\ ~HeldBy(Reboot, k) /\ out[k].phase = "running"
        /\ out' = [out EXCEPT ![k].finalizers = @ \cup {Reboot}]
        /\ pending' = pending \cup Watchers(k)
        /\ Goto(Reboot, next)
     \/ /\ out[k] # Nil /\ ~HeldBy(Reboot, k) /\ out[k].phase = "tearingDown"
        /\ Retry(Reboot)
        /\ UNCHANGED out
  /\ UNCHANGED <<im, histories, bounds>>

HoldStatus == Hold(Status, "holdStatus", "holdBMC")

HoldBMC == Hold(BMC, "holdBMC", "transform")

\* Whatever the controller does for the machine, wiping it for hours included; it keeps, or
\* changes, its output, or skips that.
Transform(c) ==
  /\ rec[c] = "transform"
  /\ \/ UNCHANGED <<out, pending>>
     \/ /\ Writable(c)
        /\ out' = IF out[c] = Nil THEN [out EXCEPT ![c] = Fresh] ELSE out
        /\ pending' = pending \cup Watchers(c)
  /\ Goto(c, "idle")
  /\ UNCHANGED <<im, histories, bounds>>

\* The reboot on removal is made if the agent does not answer, and may fail; it is tried
\* once a reconcile.
AttemptReboot ==
  /\ rec[Reboot] = "attempt"
  /\ \E result \in IF out[BMC] = Nil \/ out[Status] = Nil THEN {"impossible"}
                   ELSE {"needless", "made"} :
       attempt' = IF attempt \in {"needless", "made"} THEN attempt ELSE result
  /\ Goto(Reboot, "dropStatus")
  /\ UNCHANGED <<im, out, pending, held, bounds>>

\* That its output is free wakes a controller, but not the MachineStatusController.
Drop(k, here, next) ==
  /\ rec[Reboot] = here
  /\ IF HeldBy(Reboot, k)
     THEN /\ out' = [out EXCEPT ![k].finalizers = @ \ {Reboot}]
          /\ pending' = pending \cup Watchers(k) \cup ({k} \ {Status})
     ELSE UNCHANGED <<out, pending>>
  /\ Goto(Reboot, next)
  /\ UNCHANGED <<im, histories, bounds>>

DropStatus == Drop(Status, "dropStatus", "dropBMC")

DropBMC == Drop(BMC, "dropBMC", "teardown")

\* Mutant: an output is destroyed whoever holds it.
TeardownOutputHeld(c) ==
  /\ rec[c] = "teardown"
  /\ \/ out[c] = Nil /\ Goto(c, "release") /\ UNCHANGED <<out, pending>>
     \/ /\ out[c] # Nil
        /\ out' = [out EXCEPT ![c].phase = "tearingDown"]
        /\ pending' = IF out' # out THEN pending \cup Watchers(c) ELSE pending
        /\ Goto(c, "destroy")
  /\ UNCHANGED <<im, histories, bounds>>

TeardownOutput(c) ==
  /\ rec[c] = "teardown"
  /\ \/ out[c] = Nil /\ Goto(c, "release") /\ UNCHANGED <<out, pending>>
     \/ /\ out[c] # Nil
        /\ out' = [out EXCEPT ![c].phase = "tearingDown"]
        /\ pending' = IF out' # out THEN pending \cup Watchers(c) ELSE pending
        /\ Goto(c, IF out[c].finalizers = {} THEN "destroy" ELSE "idle")
  /\ UNCHANGED <<im, histories, bounds>>

DestroyOutput(c) ==
  /\ rec[c] = "destroy"
  /\ out' = [out EXCEPT ![c] = Nil]
  /\ pending' = pending \cup Watchers(c)
  /\ Goto(c, "release")
  /\ UNCHANGED <<im, histories, bounds>>

\* Mutant: that a controller lets go of the machine wakes nobody.
ReleaseSilently(c) ==
  /\ rec[c] = "release"
  /\ im' = IF Holds(c) THEN [im EXCEPT !.finalizers = @ \ {c}] ELSE im
  /\ Goto(c, "idle")
  /\ UNCHANGED <<out, pending, histories, bounds>>

Release(c) ==
  /\ rec[c] = "release"
  /\ IF Holds(c)
     THEN im' = [im EXCEPT !.finalizers = @ \ {c}] /\ pending' = Controllers
     ELSE UNCHANGED <<im, pending>>
  /\ Goto(c, "idle")
  /\ UNCHANGED <<out, histories, bounds>>

ReconcileFail(c) ==
  /\ rec[c] # "idle"
  /\ Mishap
  /\ Retry(c)
  /\ UNCHANGED <<im, out, histories, registered>>

\* What there is when the controllers start is a change to each that has it as an input.
ProviderRestart ==
  /\ Mishap
  /\ rec' = [c \in Controllers |-> "idle"]
  /\ pending' = {c \in Controllers : im # Nil \/ \E k \in Inputs[c] \cap Controllers : out[k] # Nil}
  /\ UNCHANGED <<im, out, histories, registered>>

-----------------------------------------------------------------------------

Omni == Register \/ Teardown \/ Remove

Work(c) ==
  \/ Reconcile(c) \/ Adopt(c) \/ Transform(c) \/ TeardownOutput(c) \/ DestroyOutput(c)
  \/ Release(c)

RebootWork == HoldStatus \/ HoldBMC \/ AttemptReboot \/ DropStatus \/ DropBMC

Failures == (\E c \in Controllers : ReconcileFail(c)) \/ ProviderRestart

Next == Omni \/ StatusWrite \/ (\E c \in Controllers : Work(c)) \/ RebootWork \/ Failures

Spec == Init /\ [][Next]_vars

\* The runtime runs every controller that has a reason to, a call of it ends (a wipe after 24
\* hours at most), and Omni destroys what nobody holds.
Fairness ==
  /\ \A c \in Controllers : WF_vars(Work(c))
  /\ WF_vars(RebootWork) /\ WF_vars(Remove)

FairSpec == Spec /\ Fairness

-----------------------------------------------------------------------------
(* Properties. *)

\* Nothing is kept of a machine its controller does not hold: what is removed leaves nothing
\* behind.
NoOrphans == \A c \in Controllers \ {Status} : out[c] # Nil => Holds(c)

\* What the RebootStatusController holds it will come to let go.
NothingStuck == \A k \in {Status, BMC} : HeldBy(Reboot, k) => Holds(Reboot)

\* A removal never comes to a stand: as long as anybody holds the machine, one of those who do
\* is at work or has a reason to be.  A MachineStatus the RebootStatusController held is let go
\* of unnoticed, and its controller depends on what comes after (machine_status.go,
\* reconcileTearingDown; bmc_configuration.go, WithIgnoreTeardownUntil).
NeverStalls ==
  im # Nil /\ im.phase = "tearingDown" /\ im.finalizers # {} =>
    \E c \in im.finalizers : c \in pending \/ rec[c] # "idle"

RemovalInv == TypeOK /\ NoOrphans /\ NothingStuck /\ NeverStalls

\* A machine whose status and BMC configuration the RebootStatusController holds when
\* the removal begins is not let go of before it has been rebooted, or found in the agent.
RebootPrecedesRelease ==
  [][held /\ Holds(Reboot) /\ ~Holds(Reboot)' => attempt \in {"needless", "made"}]_vars

\* A removal ends.
RemovalEnds == im # Nil /\ im.phase = "tearingDown" ~> im = Nil

Promise == INSTANCE OrderlyRemoval WITH
  Kinds <- Controllers \ {Status},
  Last <- BMC,
  registration <- IF im = Nil THEN "none" ELSE IF im.phase = "running" THEN "there" ELSE "leaving",
  kept <- {c \in Controllers \ {Status} : out[c] # Nil},
  working <- {c \in Controllers \ {Status} : rec[c] \in {"holdStatus", "holdBMC", "transform"}}

\* What is kept of a machine comes of work on it only and goes only once it is removed and that
\* work is over, the configuration of its BMC last, and the machine only after that
\* (qtransform finalizers; bmc_configuration.go, WithIgnoreTeardownUntil).
IsOrderly == Promise!Spec

Protocol == INSTANCE HeldOutput WITH
  Kinds <- {Status, BMC},
  registration <- IF im = Nil THEN "none" ELSE IF im.phase = "running" THEN "there" ELSE "leaving",
  holds <- Holds(Reboot),
  held <- {k \in {Status, BMC} : HeldBy(Reboot, k)},
  there <- {k \in {Status, BMC} : out[k] # Nil},
  leaving <- {k \in {Status, BMC} : out[k] # Nil /\ out[k].phase = "tearingDown"}

\* What the RebootStatusController needs on removal it takes hold of and lets go of in turn,
\* and nobody destroys it before (reboot_status.go, transform and finalizerRemoval).
HoldsInTurn == Protocol!Spec

\* What the controllers promise about a removal, all together and two by two.
KeepsPromises == IsOrderly /\ HoldsInTurn
=============================================================================
