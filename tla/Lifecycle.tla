------------------------------ MODULE Lifecycle ------------------------------
(***************************************************************************)
(* One machine passing through Omni's tenancies: Omni writing the          *)
(* infra.Machine, the WipeStatusController wiping through the agent, the   *)
(* iPXE handler deciding what the machine boots, the                       *)
(* InfraMachineStatusController reporting back, and the machine itself.    *)
(*                                                                         *)
(* Every controller and the handler first read the infra.Machine and act   *)
(* on that snapshot later; anything may happen in between.  Whoever resets *)
(* the machine (the power and reboot controllers, a human, Omni) may do so *)
(* at any moment, and the MachineStatus may say anything about the agent:  *)
(* the modules of those controllers say when they really do.               *)
(*                                                                         *)
(* WipeId is a number, fresh (one more) at each deallocation; it also tags *)
(* the data written to the disk while it is in force.                      *)
(***************************************************************************)
EXTENDS MachineModes

CONSTANTS
  MaxWipeId,       \* bound: deallocations of one registration
  MaxInstallEvent, \* bound: install events of one registration
  MaxChanges       \* bound: deallocations and install events together

ASSUME BoundsAssumption == {MaxWipeId, MaxInstallEvent, MaxChanges} \subseteq Nat

VARIABLES
  im,         \* the infra.Machine resource
  bmc,        \* the BMCConfiguration resource, present or Nil
  ws,         \* the WipeStatus resource
  ims,        \* the infra.MachineStatus resource Omni reads
  accessible, \* MachineStatus.AgentAccessible
  wipe,       \* WipeStatusController: its step, and what it uses of the im it read
  request,    \* the iPXE handler: its step, what it read, its answer
  report,     \* InfraMachineStatusController: what it uses of the im it read, or Nil
  mode,       \* what the machine is doing
  disk,       \* the tags of the data on its disk
  jobs,       \* wipes the booted agent is carrying out
  events      \* whether an install event is on its way to Omni

omniVars == <<im, events>>
wipeVars == <<ws, wipe>>
machineVars == <<mode, disk, jobs>>
vars == <<im, bmc, ws, ims, accessible, wipe, request, report, mode, disk, jobs,
          events>>

Factory == -1   \* the tag of data from before the machine was registered

InfraMachine ==
  [phase: {"running", "tearingDown"}, acceptance: {"pending", "accepted", "rejected"},
   cordoned: BOOLEAN, allocated: BOOLEAN, wipeId: Nat, installEventId: Nat]

WipeStatus ==
  [initialWipeDone: BOOLEAN, lastWipeId: Nat, lastWipeInstallEventId: Nat]

\* wipeId is history: the WipeId of the infra.Machine the status was computed from.
InfraMachineStatus == [readyToUse: BOOLEAN, wipeId: Nat]

WipeSnapshot == [wipeId: Nat, installEventId: Nat]
ReportSnapshot == [wipeId: Nat]

WipeProgress == [step: {"idle", "read", "call", "done"}, im: WipeSnapshot \cup {Nil}]

RequestProgress ==
  [step: {"none", "machine", "bmc", "decided"}, im: InfraMachine \cup {Nil},
   bmc: {"configured", Nil}, answer: BootModes \cup {"error", Nil}]

ASSUME NilIsNoResource ==
  /\ Nil \notin InfraMachine \cup WipeStatus \cup InfraMachineStatus
  /\ Nil \notin WipeSnapshot \cup ReportSnapshot
  /\ Nil \notin BootModes \cup {"error", "configured"}

IdleWipe == [step |-> "idle", im |-> Nil]
NoRequest == [step |-> "none", im |-> Nil, bmc |-> Nil, answer |-> Nil]

TypeOK ==
  /\ im \in InfraMachine \cup {Nil}
  /\ bmc \in {"configured", Nil}
  /\ ws \in WipeStatus \cup {Nil}
  /\ ims \in InfraMachineStatus \cup {Nil}
  /\ accessible \in BOOLEAN
  /\ wipe \in WipeProgress
  /\ request \in RequestProgress
  /\ report \in ReportSnapshot \cup {Nil}
  /\ mode \in {"off", "ipxe", "agent", "talos", "disk"}
  /\ disk \in SUBSET (Nat \cup {Factory})
  /\ jobs \in SUBSET {"current", "orphan"}
  /\ events \in BOOLEAN

Init ==
  /\ im = Nil /\ bmc = Nil /\ ws = Nil /\ ims = Nil
  /\ accessible = FALSE
  /\ wipe = IdleWipe /\ request = NoRequest /\ report = Nil
  /\ mode = "off"
  /\ disk \in {{}, {Factory}}
  /\ jobs = {}
  /\ events = FALSE

-----------------------------------------------------------------------------
(* Omni.  The infra.Machine appears pending and not allocated. *)

Running == im # Nil /\ im.phase = "running"

MoreChanges == im.wipeId + im.installEventId + (IF events THEN 1 ELSE 0) < MaxChanges

OmniWrites(new) ==
  /\ im' = new
  /\ UNCHANGED <<bmc, ims, accessible, request, report, events>>
  /\ UNCHANGED <<wipeVars, machineVars>>

Register ==
  /\ im = Nil
  /\ OmniWrites([phase |-> "running", acceptance |-> "pending", cordoned |-> FALSE,
                 allocated |-> FALSE, wipeId |-> 0, installEventId |-> 0])

Accept ==
  /\ Running /\ im.acceptance = "pending"
  /\ \E a \in {"accepted", "rejected"} : OmniWrites([im EXCEPT !.acceptance = a])

Cordon ==
  /\ Running /\ im.acceptance = "accepted"
  /\ OmniWrites([im EXCEPT !.cordoned = ~@])

\* Omni does not wait for ReadyToUse here: nothing under src/ relies on it.
Allocate ==
  /\ Running /\ im.acceptance = "accepted" /\ ~im.allocated
  /\ OmniWrites([im EXCEPT !.allocated = TRUE])

\* The end of a tenancy clears ClusterTalosVersion and changes the WipeId.
Deallocate ==
  /\ Running /\ im.allocated
  /\ im.wipeId < MaxWipeId /\ MoreChanges
  /\ OmniWrites([im EXCEPT !.allocated = FALSE, !.wipeId = @ + 1])

ObserveInstall ==
  /\ events
  /\ Running
  /\ im.installEventId < MaxInstallEvent
  /\ im' = [im EXCEPT !.installEventId = @ + 1]
  /\ events' = FALSE
  /\ UNCHANGED <<bmc, ims, accessible, request, report, wipeVars, machineVars>>

Teardown ==
  /\ Running
  /\ OmniWrites([im EXCEPT !.phase = "tearingDown"])

\* The resource goes once no controller holds a finalizer on it: each removes
\* its own after destroying its output, and none does while it reconciles.
Remove ==
  /\ im # Nil /\ im.phase = "tearingDown"
  /\ bmc = Nil /\ ws = Nil /\ ims = Nil
  /\ wipe = IdleWipe /\ report = Nil
  /\ OmniWrites(Nil)

-----------------------------------------------------------------------------
(* The other controllers, as far as this module needs them. *)

\* MachineStatusController: connection events and polls, in any order, late.
UpdateMachineStatus ==
  /\ accessible' = ~accessible
  /\ UNCHANGED <<bmc, ims, request, report, omniVars, wipeVars, machineVars>>

\* BMCConfigurationController reads the power management settings off the
\* agent, or takes those the user gave once the agent is accessible.
ConfigureBMC ==
  /\ Running /\ ValidateInfraMachine(im)
  /\ accessible
  /\ bmc' = "configured"
  /\ UNCHANGED <<ims, accessible, request, report, omniVars, wipeVars, machineVars>>

\* Mutant: the removal is not ignored.
TeardownBMCAtOnce ==
  /\ im # Nil /\ im.phase = "tearingDown"
  /\ bmc' = Nil
  /\ UNCHANGED <<ims, accessible, request, report, omniVars, wipeVars, machineVars>>

\* It ignores the teardown until every other controller has let go.
TeardownBMC ==
  /\ im # Nil /\ im.phase = "tearingDown"
  /\ ws = Nil /\ ims = Nil
  /\ wipe = IdleWipe /\ report = Nil
  /\ bmc' = Nil
  /\ UNCHANGED <<ims, accessible, request, report, omniVars, wipeVars, machineVars>>

-----------------------------------------------------------------------------
(* WipeStatusController.  Its reconciles of one machine never overlap. *)

WipeReconcile ==
  /\ wipe = IdleWipe
  /\ Running /\ ValidateInfraMachine(im)
  /\ wipe' = [step |-> "read", im |-> [wipeId |-> im.wipeId, installEventId |-> im.installEventId]]
  /\ UNCHANGED <<bmc, ws, ims, accessible, request, report, omniVars, machineVars>>

\* Mutant: a reconcile that wipes whenever it can.
WipeIsDueWhenAccessible == accessible

WipeIsDue == RequiresWipe(wipe.im, ws) /\ accessible

\* The call reaches the agent only if the machine really runs it.
WipeDisks ==
  /\ wipe.step = "read"
  /\ WipeIsDue
  /\ wipe' = [wipe EXCEPT !.step = "call"]
  /\ jobs' = IF mode = "agent" THEN jobs \cup {"current"} ELSE jobs
  /\ UNCHANGED <<bmc, ws, ims, accessible, request, report, mode, disk, omniVars>>

WipeSkip ==
  /\ wipe.step = "read"
  /\ ~WipeIsDue
  /\ wipe' = IdleWipe
  /\ UNCHANGED <<bmc, ws, ims, accessible, request, report, omniVars, machineVars>>

\* An error, a timeout or the end of the provider loses the outcome; the agent
\* may go on with a wipe nobody waits for any more.
WipeFail ==
  /\ wipe.step \in {"call", "done"}
  /\ wipe' = IdleWipe
  /\ \/ jobs' = jobs \ {"current"}
     \/ "current" \in jobs /\ jobs' = {"orphan"}
  /\ UNCHANGED <<bmc, ws, ims, accessible, request, report, mode, disk, omniVars>>

\* Mutant: the wipe recorded as soon as it is asked for.
WipeCommitUnanswered ==
  /\ wipe.step \in {"call", "done"}
  /\ ws' = [initialWipeDone |-> TRUE,
            lastWipeId |-> wipe.im.wipeId,
            lastWipeInstallEventId |-> wipe.im.installEventId]
  /\ wipe' = IdleWipe
  /\ UNCHANGED <<bmc, ims, accessible, request, report, omniVars, machineVars>>

\* What is recorded comes from the infra.Machine read before the call.
WipeCommit ==
  /\ wipe.step = "done"
  /\ ws' = [initialWipeDone |-> TRUE,
            lastWipeId |-> wipe.im.wipeId,
            lastWipeInstallEventId |-> wipe.im.installEventId]
  /\ wipe' = IdleWipe
  /\ UNCHANGED <<bmc, ims, accessible, request, report, omniVars, machineVars>>

TeardownWipeStatus ==
  /\ im # Nil /\ im.phase = "tearingDown"
  /\ wipe = IdleWipe
  /\ ws' = Nil
  /\ UNCHANGED <<bmc, ims, accessible, wipe, request, report, omniVars, machineVars>>

-----------------------------------------------------------------------------
(* The agent, while the machine runs it. *)

AgentErases ==
  /\ mode = "agent" /\ jobs # {}
  /\ disk # {}
  /\ \E left \in SUBSET disk : disk' = left
  /\ UNCHANGED <<bmc, ims, accessible, request, report, mode, jobs, omniVars, wipeVars>>

\* A finished wipe answers the call that asked for it, if that is still waiting.
AgentFinishes ==
  /\ mode = "agent"
  /\ \E j \in jobs :
       /\ jobs' = jobs \ {j}
       /\ wipe' = IF j = "current" THEN [wipe EXCEPT !.step = "done"] ELSE wipe
  /\ disk' = {}
  /\ UNCHANGED <<im, bmc, ws, ims, accessible, request, report, mode, events>>

-----------------------------------------------------------------------------
(* The iPXE handler: three reads, a decision, the answer. *)

BootRequest ==
  /\ mode = "ipxe"
  /\ request = NoRequest
  /\ request' = [NoRequest EXCEPT !.step = "machine", !.im = im]
  /\ UNCHANGED <<bmc, ims, accessible, report, omniVars, wipeVars, machineVars>>

ReadBMCConfiguration ==
  /\ request.step = "machine"
  /\ request' = [request EXCEPT !.step = "bmc", !.bmc = bmc]
  /\ UNCHANGED <<bmc, ims, accessible, report, omniVars, wipeVars, machineVars>>

\* A cordoned or rejected machine is answered with an error, which also stands
\* for a failure to build the boot script.
BootDecision(m, b, w) ==
  IF m # Nil /\ (m.cordoned \/ Rejected(m)) THEN {"error"}
  ELSE {RequiredBootMode(m, b, w), "error"}

MakeBootDecision ==
  /\ request.step = "bmc"
  /\ \E a \in BootDecision(request.im, request.bmc, ws) :
       request' = [request EXCEPT !.step = "decided", !.answer = a]
  /\ UNCHANGED <<bmc, ims, accessible, report, omniVars, wipeVars, machineVars>>

-----------------------------------------------------------------------------
(* The machine. *)

\* A machine told to boot from an empty disk finds nothing to boot.
DiskBoot == IF disk = {} THEN "off" ELSE "disk"

AnswerDelivered ==
  /\ request.step = "decided"
  /\ \/ request.answer = "agent-pxe" /\ mode' = "agent"
     \/ request.answer = "talos-pxe" /\ mode' = "talos"
     \/ request.answer \in {"talos-disk", "error"} /\ mode' = DiskBoot
     \/ request.answer = "error" /\ mode' = "ipxe"
  /\ request' = NoRequest
  /\ UNCHANGED <<bmc, ims, accessible, report, disk, jobs, omniVars, wipeVars>>

\* A power cycle ends the request and every wipe the agent was carrying out.
Reset ==
  /\ mode' \in {"off", "ipxe", DiskBoot}
  /\ request' = NoRequest
  /\ jobs' = {}
  /\ UNCHANGED <<bmc, ims, accessible, report, disk, omniVars, wipeVars>>

RunsTalos == mode \in {"talos", "disk"}

\* Talos, configured by Omni for the current tenancy, writes to the disk.
TalosWrites ==
  /\ RunsTalos
  /\ im # Nil /\ im.acceptance = "accepted" /\ im.allocated
  /\ disk' = disk \cup {im.wipeId}
  /\ UNCHANGED <<bmc, ims, accessible, request, report, mode, jobs, omniVars, wipeVars>>

\* Talos, installed, tells Omni so; the event takes any time to arrive.
TalosReportsInstall ==
  /\ RunsTalos
  /\ im # Nil /\ im.allocated /\ im.wipeId \in disk
  /\ im.installEventId < MaxInstallEvent /\ MoreChanges
  /\ events' = TRUE
  /\ UNCHANGED <<im, bmc, ims, accessible, request, report, wipeVars, machineVars>>

-----------------------------------------------------------------------------
(* InfraMachineStatusController. *)

StatusReconcile ==
  /\ report = Nil
  /\ Running /\ ValidateInfraMachine(im)
  /\ report' = [wipeId |-> im.wipeId]
  /\ UNCHANGED <<bmc, ims, accessible, request, omniVars, wipeVars, machineVars>>

\* Mutant: a machine reported ready once its power management is configured.
StatusCommitUnwiped ==
  /\ report # Nil
  /\ ims' = [readyToUse |-> bmc # Nil, wipeId |-> report.wipeId]
  /\ report' = Nil
  /\ UNCHANGED <<bmc, accessible, request, omniVars, wipeVars, machineVars>>

StatusCommit ==
  /\ report # Nil
  /\ ims' = [readyToUse |-> bmc # Nil /\ ~RequiresWipe(report, ws),
             wipeId |-> report.wipeId]
  /\ report' = Nil
  /\ UNCHANGED <<bmc, accessible, request, omniVars, wipeVars, machineVars>>

TeardownStatus ==
  /\ im # Nil /\ im.phase = "tearingDown"
  /\ report = Nil
  /\ ims' = Nil
  /\ UNCHANGED <<bmc, accessible, request, report, omniVars, wipeVars, machineVars>>

\* The provider stops at any point and starts again: what the controllers and
\* the handler held in memory is gone, what they called goes on or not.
ProviderRestart ==
  /\ wipe' = IdleWipe /\ request' = NoRequest /\ report' = Nil
  /\ \/ jobs' = jobs \ {"current"}
     \/ "current" \in jobs /\ jobs' = {"orphan"}
  /\ UNCHANGED <<bmc, ws, ims, accessible, mode, disk, omniVars>>

-----------------------------------------------------------------------------

Omni == Register \/ Accept \/ Cordon \/ Allocate \/ Deallocate \/ ObserveInstall
        \/ Teardown \/ Remove

Controllers == UpdateMachineStatus \/ ConfigureBMC \/ TeardownBMC
               \/ WipeReconcile \/ WipeDisks \/ WipeSkip \/ WipeFail \/ WipeCommit
               \/ TeardownWipeStatus \/ StatusReconcile
               \/ StatusCommit \/ TeardownStatus

Handler == BootRequest \/ ReadBMCConfiguration \/ MakeBootDecision

Machine == AgentErases \/ AgentFinishes \/ AnswerDelivered \/ Reset \/ TalosWrites
           \/ TalosReportsInstall

Next == Omni \/ Controllers \/ Handler \/ Machine \/ ProviderRestart

Spec == Init /\ [][Next]_vars

-----------------------------------------------------------------------------
(* Properties. *)

\* The disk holds nothing written before tenancy t.
CleanFor(t) == \A d \in disk : d >= t

Certified == ws # Nil /\ ws.initialWipeDone

\* Every datum on the disk was written in the current registration, in tenancy
\* t or later.
SinceTenancy(t) == im # Nil /\ t <= im.wipeId /\ \A d \in disk : t <= d /\ d <= im.wipeId

\* What Omni is told is true: a machine reported ready to use for the current
\* tenancy holds data of no other (infra_machine_status.go, ReadyToUse; the
\* report and the wipe it rests on were both computed from stale snapshots).
ReadyMeansClean ==
  ims # Nil /\ ims.readyToUse /\ im # Nil /\ ims.wipeId = im.wipeId
    => disk \subseteq {im.wipeId}

\* No data is ever erased unless, when it happens, the machine is due for a
\* wipe: a wipe started for a tenancy that has ended meanwhile, restarted after
\* a crash, or left running in the agent never eats what a tenant wrote since
\* (wipe_status.go, transform; agent/client.go, WipeDisks).
NoDataLoss ==
  [][~(disk \subseteq disk') => RequiresWipe(im, ws)]_vars

\* Whenever the provider answers a machine with Talos, over the network or
\* from its disk, the disk holds nothing older than the tenancy the answer was
\* made for, although it was pieced together from three reads, and stays so
\* until the answer arrives (ipxe/handler.go, makeBootDecision).
TalosServedClean ==
  request.answer \in {"talos-pxe", "talos-disk"} => CleanFor(request.im.wipeId)

\* Why these hold whoever moves when: what the certificate, the wipe in flight,
\* the report and the answer under way each still say of the disk.
CertificateInv == Certified => SinceTenancy(ws.lastWipeId)

WipeInv ==
  /\ wipe.step = "idle" <=> wipe.im = Nil
  /\ wipe.step # "idle" =>
       /\ im # Nil /\ wipe.im.wipeId <= im.wipeId
       /\ Certified => ws.lastWipeId <= wipe.im.wipeId
  /\ wipe.step \in {"call", "done"} => RequiresWipe(wipe.im, ws)
  /\ wipe.step = "done" => SinceTenancy(wipe.im.wipeId)

\* Wipes the agent still carries out are due, or have nothing left to erase.
JobsInv ==
  /\ jobs # {} => mode = "agent" /\ (RequiresWipe(im, ws) \/ disk = {})
  /\ jobs # {} /\ wipe.step = "done" => disk = {}
  /\ "current" \in jobs => wipe.step = "call"

ReportInv ==
  /\ report # Nil => im # Nil /\ report.wipeId <= im.wipeId
  /\ ims # Nil /\ ims.readyToUse => SinceTenancy(ims.wipeId)

RequestInv ==
  /\ request.step # "none" => mode = "ipxe"
  /\ request.answer # Nil => request.step = "decided"
  /\ request.answer \in {"talos-pxe", "talos-disk"} =>
       request.im # Nil /\ CleanFor(request.im.wipeId)

LifecycleInv ==
  /\ TypeOK
  /\ CertificateInv
  /\ WipeInv
  /\ JobsInv
  /\ ReportInv
  /\ RequestInv

\* A machine just recorded as wiped does not count as installed: the install
\* events that make it so were observed after the wipe (api/specs/specs.proto,
\* last_wipe_install_event_id).  The code records the event id it read before
\* the wipe, so one observed during the wipe counts as one after it.
WipedIsNotInstalled ==
  [][ws' # ws /\ ws' # Nil => ~IsInstalled(im, ws')]_vars

\* Wiping as this system does it implements the promise.
Certificate == IF ws = Nil \/ ~ws.initialWipeDone THEN Nil ELSE ws.lastWipeId
CurrentTenancy == IF im = Nil THEN Nil ELSE im.wipeId

Promise == INSTANCE CleanHandover
             WITH current <- CurrentTenancy, certificate <- Certificate
ImplementsPromise == Promise!Spec

\* Here the finalizers are left to the guards of the actions by which outputs and machines go.
\* What they allow is what the controllers promise, finalizer by finalizer, in Removal: both
\* modules implement the same specification.
Orderly == INSTANCE OrderlyRemoval WITH
  Kinds <- {"BMCConfiguration", "WipeStatus", "InfraMachineStatus"},
  Last <- "BMCConfiguration",
  registration <- IF im = Nil THEN "none" ELSE IF Running THEN "there" ELSE "leaving",
  kept <- (IF bmc = Nil THEN {} ELSE {"BMCConfiguration"})
          \cup (IF ws = Nil THEN {} ELSE {"WipeStatus"})
          \cup (IF ims = Nil THEN {} ELSE {"InfraMachineStatus"}),
  working <- (IF wipe = IdleWipe THEN {} ELSE {"WipeStatus"})
             \cup (IF report = Nil THEN {} ELSE {"InfraMachineStatus"})

\* What is kept of a machine outlives the work on it, the configuration of its BMC outlives the
\* rest, and the machine is not gone before them, in whatever tenancy it is removed.
RemovesOrderly == Orderly!Spec
=============================================================================
