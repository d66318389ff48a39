-------------------------------- MODULE Power --------------------------------
(***************************************************************************)
(* The power of one registered machine: the PowerOperationController and   *)
(* the RebootStatusController, which command the same BMC without knowing  *)
(* of each other, the machine, and the MachineStatus that wakes them.      *)
(*                                                                         *)
(* Both controllers run when an input of theirs has changed, and only      *)
(* then: pending holds those with a change to look at.  A reconcile reads  *)
(* the infra.Machine, reads the rest and decides, tells the BMC where to   *)
(* boot from and what to do, in two calls, and records what it did;        *)
(* anything may happen between these steps.                                *)
(*                                                                         *)
(* The machine has been accepted and its power management is configured.   *)
(* What wiping does is in Lifecycle; here it is one step.  Of the disk     *)
(* there is only whether it can be booted from.                            *)
(***************************************************************************)
EXTENDS MachineModes

CONSTANTS
  MinRebootInterval, \* the --min-reboot-interval flag, in ticks
  Bounds             \* bounds: what may happen to a machine with a BMC, or with a human in its
                     \* stead, that is preferred to be on or not; a behaviour stays within one

\* How many deallocations, installs Omni hears of, power-off and reboot requests, failed calls,
\* and accidents: power failures, failed network boots, and reboots carried out but not recorded.
Budget == [hasBMC: BOOLEAN, prefersOn: BOOLEAN, wipes: Nat, installs: Nat, powerOffs: Nat, reboots: Nat,
           failures: Nat, accidents: Nat]

ASSUME PowerAssumption == MinRebootInterval \in Nat /\ Bounds \subseteq Budget

VARIABLES
  hasBMC,      \* whether the machine has a BMC
  im,          \* the infra.Machine
  ws,          \* the WipeStatus, or Nil
  po,          \* the PowerOperation
  rs,          \* the RebootStatus, or Nil once the machine is let go
  status,      \* the MachineStatus
  op,          \* the reconcile of the PowerOperationController
  rb,          \* the reconcile of the RebootStatusController
  pending,     \* the controllers an input of which has changed
  mode,        \* what the machine is doing
  pxeOnce,     \* whether its next boot is from the network
  onDisk,      \* whether there is anything on its disk to boot
  event,       \* whether Omni has yet to hear of an install
  sincePowerOn, sinceReboot, \* time since what PowerOperation, RebootStatus recorded
  failures,    \* how many calls or reconciles have failed
  accidents,   \* how many boots and power supplies have
  requestedIn  \* history: the WipeId in force at the last power-off request

omniVars == <<hasBMC, im, event, requestedIn>>
powerVars == <<po, op, sincePowerOn>>
rebootVars == <<rs, rb, sinceReboot>>
machineVars == <<mode, pxeOnce, onDisk>>
mishaps == <<failures, accidents>>
vars == <<hasBMC, im, ws, po, rs, status, op, rb, pending, mode, pxeOnce, onDisk, event,
          sincePowerOn, sinceReboot, failures, accidents, requestedIn>>

Controllers == {"PowerOperation", "RebootStatus"}
Configured == "configured"   \* the BMCConfiguration of the machine

IdleOp == [step |-> "idle"]
IdleRb == [step |-> "idle"]
Commands == {"none", "on", "off"}

InfraMachine ==
  [phase: {"running", "tearingDown"}, acceptance: {"accepted"}, cordoned: BOOLEAN,
   allocated: BOOLEAN, wipeId: Nat, installEventId: Nat,
   powerOffRequestId: Nat, requestedRebootId: Nat,
   prefersOn: BOOLEAN]

WipeStatus == [initialWipeDone: {TRUE}, lastWipeId: Nat, lastWipeInstallEventId: Nat]

\* What a PowerOperation says of power-off requests.
PowerOperation == [lastPowerOffId: Nat, wipeIdAtPowerOff: Nat]

ASSUME NilIsNoResource == Nil \notin InfraMachine \cup PowerOperation

OpProgress ==
  {IdleOp} \cup [step: {"read"}, im: InfraMachine]
           \cup [step: {"pxe", "command", "commit"}, po: PowerOperation, command: Commands]

RbProgress ==
  {IdleRb} \cup [step: {"read"}, im: InfraMachine]
           \cup [step: {"pxe", "command", "commit"}, rebootId: Nat,
                 accessible: BOOLEAN, removal: BOOLEAN]

Ages == 0..MinRebootInterval

TypeOK ==
  /\ hasBMC \in BOOLEAN
  /\ im \in InfraMachine
  /\ ws \in WipeStatus \cup {Nil}
  /\ po \in PowerOperation
  /\ rs \in [lastRebootId: Nat] \cup {Nil}
  /\ status \in [power: {"unknown", "off", "on"}, accessible: BOOLEAN]
  /\ op \in OpProgress
  /\ rb \in RbProgress
  /\ pending \subseteq Controllers
  /\ mode \in {"off", "booting", "searching", "agent", "talos"}
  /\ pxeOnce \in BOOLEAN /\ onDisk \in BOOLEAN /\ event \in BOOLEAN
  /\ sincePowerOn \in Ages /\ sinceReboot \in Ages
  /\ failures \in Nat /\ accidents \in Nat
  /\ requestedIn \in Nat

Init ==
  /\ \E b \in Bounds :
       /\ hasBMC = b.hasBMC
       /\ im = [phase |-> "running", acceptance |-> "accepted", cordoned |-> FALSE,
                allocated |-> FALSE, wipeId |-> 0, installEventId |-> 0,
                powerOffRequestId |-> 0, requestedRebootId |-> 0, prefersOn |-> b.prefersOn]
  /\ ws = Nil
  /\ po = [lastPowerOffId |-> 0, wipeIdAtPowerOff |-> 0]
  /\ rs = [lastRebootId |-> 0]
  /\ status = [power |-> "unknown", accessible |-> TRUE]
  /\ op = IdleOp /\ rb = IdleRb
  /\ pending = Controllers
  /\ mode = "agent"
  /\ pxeOnce = FALSE /\ onDisk = TRUE /\ event = FALSE
  /\ sincePowerOn = MinRebootInterval /\ sinceReboot = MinRebootInterval
  /\ failures = 0 /\ accidents = 0
  /\ requestedIn = 0

Wake(controllers) == pending' = pending \cup controllers

Running == im.phase = "running"

\* The controllers only work on such a machine.
Managed == Running /\ ValidateInfraMachine(im)

Used ==
  [wipes |-> im.wipeId, installs |-> im.installEventId + (IF event THEN 1 ELSE 0),
   powerOffs |-> im.powerOffRequestId, reboots |-> im.requestedRebootId,
   failures |-> failures, accidents |-> accidents]

Within(used) ==
  \E b \in Bounds :
    /\ b.hasBMC = hasBMC /\ b.prefersOn = im.prefersOn
    /\ \A k \in DOMAIN used : used[k] <= b[k]

Fails ==
  /\ Within([Used EXCEPT !.failures = @ + 1])
  /\ failures' = failures + 1
  /\ UNCHANGED accidents

Accident ==
  /\ Within([Used EXCEPT !.accidents = @ + 1])
  /\ accidents' = accidents + 1
  /\ UNCHANGED failures

-----------------------------------------------------------------------------
(* Omni. *)

OmniWrites(new) ==
  /\ Running
  /\ im' = new
  /\ Wake(Controllers)
  /\ UNCHANGED <<hasBMC, ws, status, mishaps, powerVars, rebootVars, machineVars>>

Cordon == OmniWrites([im EXCEPT !.cordoned = ~@]) /\ UNCHANGED <<event, requestedIn>>

Allocate ==
  /\ ~im.allocated
  /\ OmniWrites([im EXCEPT !.allocated = TRUE])
  /\ UNCHANGED <<event, requestedIn>>

Deallocate ==
  /\ im.allocated /\ Within([Used EXCEPT !.wipes = @ + 1])
  /\ OmniWrites([im EXCEPT !.allocated = FALSE, !.wipeId = @ + 1])
  /\ UNCHANGED <<event, requestedIn>>

RequestPowerOff ==
  /\ Within([Used EXCEPT !.powerOffs = @ + 1])
  /\ OmniWrites([im EXCEPT !.powerOffRequestId = @ + 1])
  /\ requestedIn' = im.wipeId
  /\ UNCHANGED event

RequestReboot ==
  /\ Within([Used EXCEPT !.reboots = @ + 1])
  /\ OmniWrites([im EXCEPT !.requestedRebootId = @ + 1])
  /\ UNCHANGED <<event, requestedIn>>

ObserveInstall ==
  /\ event /\ event' = FALSE
  /\ OmniWrites([im EXCEPT !.installEventId = @ + 1])
  /\ UNCHANGED requestedIn

Teardown == OmniWrites([im EXCEPT !.phase = "tearingDown"]) /\ UNCHANGED <<event, requestedIn>>

-----------------------------------------------------------------------------
(* PowerOperationController. *)

OpRead ==
  /\ "PowerOperation" \in pending /\ op = IdleOp
  /\ Running
  /\ pending' = pending \ {"PowerOperation"}
  /\ op' = IF Managed THEN [step |-> "read", im |-> im] ELSE IdleOp
  /\ UNCHANGED <<ws, po, status, sincePowerOn, mishaps, omniVars, rebootVars, machineVars>>

\* A new power-off request is acknowledged for the WipeId it is found with.
Acknowledge(m) ==
  IF m.powerOffRequestId # 0 /\ m.powerOffRequestId # po.lastPowerOffId
  THEN [lastPowerOffId |-> m.powerOffRequestId, wipeIdAtPowerOff |-> m.wipeId]
  ELSE po

\* Mutant: what the machine is needed for goes before an acknowledged power-off.
MustPowerOnWhenNeeded(m, acked) ==
  RequiresPowerOn(m, ws) \/ (m.prefersOn /\ ~IsPowerOffActive(m, acked))

\* Mutant: only the preference of the user powers a machine on.
MustPowerOnIfPreferred(m, acked) == ~IsPowerOffActive(m, acked) /\ m.prefersOn

MustPowerOn(m, acked) ==
  /\ ~IsPowerOffActive(m, acked)
  /\ RequiresPowerOn(m, ws) \/ m.prefersOn

MustPowerOff(m) == ~RequiresPowerOn(m, ws) /\ ~m.prefersOn

Command(m, acked) ==
  IF mode = "off" /\ MustPowerOn(m, acked) THEN "on"
  ELSE IF mode # "off" /\ MustPowerOff(m) THEN "off"
  ELSE "none"

InCooldown == sincePowerOn < MinRebootInterval \/ sinceReboot < MinRebootInterval

\* A machine that is powered on is pointed at the network first, if that is what it must boot.
CommandStep(m, command) ==
  IF command = "none" THEN "commit"
  ELSE IF command = "on" /\ RequiresPXEBoot(RequiredBootMode(m, Configured, ws)) THEN "pxe"
  ELSE "command"

\* With no BMC the reconcile ends here, and so does the acknowledgement.
OpDecide ==
  /\ op.step = "read"
  /\ LET acked == Acknowledge(op.im)
         command == Command(op.im, acked)
     IN  \/ /\ ~hasBMC
            /\ op' = IdleOp
            /\ UNCHANGED <<po, pending>>
         \/ /\ hasBMC
            /\ command = "off" /\ InCooldown
            /\ op' = IdleOp
            /\ Wake({"PowerOperation"})   \* requeued
            /\ po' \in {po, acked}
         \/ /\ hasBMC
            /\ ~(command = "off" /\ InCooldown)
            /\ op' = [step |-> CommandStep(op.im, command), po |-> acked, command |-> command]
            /\ UNCHANGED <<po, pending>>
  /\ UNCHANGED <<ws, status, sincePowerOn, mishaps, omniVars, rebootVars, machineVars>>

OpSetPXEBootOnce ==
  /\ op.step = "pxe"
  /\ pxeOnce' = TRUE
  /\ op' = [op EXCEPT !.step = "command"]
  /\ UNCHANGED <<ws, po, status, mode, onDisk, pending, sincePowerOn, mishaps, omniVars, rebootVars>>

OpCommand ==
  /\ op.step = "command"
  /\ \/ op.command = "on" /\ mode' = IF mode = "off" THEN "booting" ELSE mode
     \/ op.command = "off" /\ mode' = "off"
  /\ op' = [op EXCEPT !.step = "commit"]
  /\ UNCHANGED <<ws, po, status, pxeOnce, onDisk, pending, sincePowerOn, mishaps, omniVars, rebootVars>>

\* The RebootStatusController has the PowerOperation as an input: it is woken
\* when this one changes.
OpCommit ==
  /\ op.step = "commit"
  /\ po' = op.po
  /\ sincePowerOn' = IF op.command = "on" THEN 0 ELSE sincePowerOn
  /\ IF op.command # "none" \/ op.po # po THEN Wake({"RebootStatus"}) ELSE UNCHANGED pending
  /\ op' = IdleOp
  /\ UNCHANGED <<ws, status, mishaps, omniVars, rebootVars, machineVars>>

\* Mutant: a reconcile that fails is not run again.
OpFailForGood ==
  /\ op # IdleOp
  /\ Fails
  /\ op' = IdleOp
  /\ UNCHANGED <<ws, po, status, pending, sincePowerOn, omniVars, rebootVars, machineVars>>

\* A call fails, is executed and its answer lost, or the provider restarts: nothing is
\* recorded, and the reconcile runs again.
OpFail ==
  /\ op # IdleOp
  /\ Fails
  /\ op' = IdleOp
  /\ Wake({"PowerOperation"})
  /\ UNCHANGED <<ws, po, status, sincePowerOn, omniVars, rebootVars, machineVars>>

DestroyPowerOperation ==
  /\ ~Running
  /\ op = IdleOp
  /\ po' = [lastPowerOffId |-> 0, wipeIdAtPowerOff |-> 0]
  /\ sincePowerOn' = MinRebootInterval
  /\ Wake({"RebootStatus"})
  /\ UNCHANGED <<ws, op, status, mishaps, omniVars, rebootVars, machineVars>>

-----------------------------------------------------------------------------
(* RebootStatusController. *)

RbRead ==
  /\ "RebootStatus" \in pending /\ rb = IdleRb
  /\ Running
  /\ pending' = pending \ {"RebootStatus"}
  /\ rb' = IF Managed THEN [step |-> "read", im |-> im] ELSE IdleRb
  /\ UNCHANGED <<ws, rs, status, sinceReboot, mishaps, omniVars, powerVars, machineVars>>

\* Mutants: one of the two mismatches is overlooked.
ModeMismatchInAgent(bootMode) == bootMode = "talos-pxe" /\ status.accessible
ModeMismatchInTalos(bootMode) == bootMode = "agent-pxe" /\ ~status.accessible

ModeMismatch(bootMode) ==
  \/ bootMode = "agent-pxe" /\ ~status.accessible
  \/ bootMode = "talos-pxe" /\ status.accessible

\* Mutant: what the user asks for is left to Omni.
RebootIsDueByNeed(m) ==
  RequiresPowerOn(m, ws) /\ ModeMismatch(RequiredBootMode(m, Configured, ws))

RebootIsDue(m) ==
  \/ RequiresPowerOn(m, ws) /\ ModeMismatch(RequiredBootMode(m, Configured, ws))
  \/ rs.lastRebootId # m.requestedRebootId

RebootStep(bootMode) == IF hasBMC /\ RequiresPXEBoot(bootMode) THEN "pxe" ELSE "command"

\* Mutant: a reboot that is put off is not taken up again.
RbDecideOnce ==
  /\ rb.step = "read"
  /\ rb' = IF RebootIsDue(rb.im) /\ ~InCooldown
           THEN [step |-> RebootStep(RequiredBootMode(rb.im, Configured, ws)),
                 rebootId |-> rb.im.requestedRebootId, accessible |-> status.accessible,
                 removal |-> FALSE]
           ELSE IdleRb
  /\ UNCHANGED <<ws, rs, status, pending, sinceReboot, mishaps, omniVars, powerVars, machineVars>>

\* Mutant: a reboot takes no account of the one before.
RbDecideAtOnce ==
  /\ rb.step = "read"
  /\ rb' = IF RebootIsDue(rb.im) /\ sincePowerOn = MinRebootInterval
           THEN [step |-> RebootStep(RequiredBootMode(rb.im, Configured, ws)),
                 rebootId |-> rb.im.requestedRebootId, accessible |-> status.accessible,
                 removal |-> FALSE]
           ELSE IdleRb
  /\ Wake(IF RebootIsDue(rb.im) /\ InCooldown THEN {"RebootStatus"} ELSE {})
  /\ UNCHANGED <<ws, rs, status, sinceReboot, mishaps, omniVars, powerVars, machineVars>>

RbDecide ==
  /\ rb.step = "read"
  /\ \/ /\ ~RebootIsDue(rb.im)
        /\ rb' = IdleRb
        /\ UNCHANGED pending
     \/ /\ RebootIsDue(rb.im) /\ InCooldown
        /\ rb' = IdleRb
        /\ Wake({"RebootStatus"})   \* requeued
     \/ /\ RebootIsDue(rb.im) /\ ~InCooldown
        /\ rb' = [step |-> RebootStep(RequiredBootMode(rb.im, Configured, ws)),
                  rebootId |-> rb.im.requestedRebootId, accessible |-> status.accessible,
                  removal |-> FALSE]
        /\ UNCHANGED pending
  /\ UNCHANGED <<ws, rs, status, sinceReboot, mishaps, omniVars, powerVars, machineVars>>

RbSetPXEBootOnce ==
  /\ rb.step = "pxe"
  /\ pxeOnce' = TRUE
  /\ rb' = [rb EXCEPT !.step = "command"]
  /\ UNCHANGED <<ws, rs, status, mode, onDisk, pending, sinceReboot, mishaps, omniVars, powerVars>>

\* What becomes of a machine that is off when it is told to reboot depends on its BMC.
RebootOverBMC ==
  /\ hasBMC
  /\ mode' \in (IF mode = "off" THEN {"off", "booting"} ELSE {"booting"})

RebootOverAgent ==
  /\ ~hasBMC /\ rb.accessible
  /\ mode = "agent"
  /\ mode' = "booting"

RbCommand ==
  /\ rb.step = "command"
  /\ RebootOverBMC \/ RebootOverAgent
  /\ rb' = [rb EXCEPT !.step = "commit"]
  /\ UNCHANGED <<ws, rs, status, pxeOnce, onDisk, pending, sinceReboot, mishaps, omniVars, powerVars>>

\* Nobody but a human can reboot the machine now: the reconcile ends, recording nothing.
RbLeftToHuman ==
  /\ rb.step = "command"
  /\ ~hasBMC /\ ~rb.accessible
  /\ rb' = IF rb.removal THEN [rb EXCEPT !.step = "commit"] ELSE IdleRb
  /\ UNCHANGED <<ws, rs, status, pending, sinceReboot, mishaps, omniVars, powerVars, machineVars>>

\* The agent thought accessible does not answer: the reconcile runs again.
RbUnanswered ==
  /\ rb.step = "command"
  /\ ~hasBMC /\ rb.accessible /\ mode # "agent"
  /\ rb' = IdleRb
  /\ Wake({"RebootStatus"})
  /\ UNCHANGED <<ws, rs, status, sinceReboot, mishaps, omniVars, powerVars, machineVars>>

\* Mutant: a reboot is not recorded.
RbCommitNothing ==
  /\ rb.step = "commit"
  /\ rs' = IF rb.removal THEN Nil ELSE rs
  /\ rb' = IdleRb
  /\ UNCHANGED <<ws, status, pending, sinceReboot, mishaps, omniVars, powerVars, machineVars>>

RbCommit ==
  /\ rb.step = "commit"
  /\ IF rb.removal
     THEN rs' = Nil /\ UNCHANGED <<sinceReboot, pending>>
     ELSE /\ rs' = [lastRebootId |-> rb.rebootId]
          /\ sinceReboot' = 0
          /\ Wake({"PowerOperation"})
  /\ rb' = IdleRb
  /\ UNCHANGED <<ws, status, mishaps, omniVars, powerVars, machineVars>>

\* A failed reboot of a removed machine is logged, and that is all.
RbFail ==
  /\ rb # IdleRb
  /\ IF rb.step = "commit" THEN Accident ELSE Fails
  /\ rb' \in {IdleRb} \cup (IF rb.step \in {"pxe", "command"} /\ rb.removal
                            THEN {[rb EXCEPT !.step = "commit"]} ELSE {})
  /\ Wake({"RebootStatus"})
  /\ UNCHANGED <<ws, rs, status, sinceReboot, omniVars, powerVars, machineVars>>

\* A machine that is removed is rebooted unless it runs the agent already: once, with no
\* regard to the cooldown.
RbRemove ==
  /\ ~Running
  /\ rb = IdleRb /\ rs # Nil
  /\ rb' = [step |-> IF status.accessible THEN "commit" ELSE RebootStep("agent-pxe"),
            rebootId |-> 0, accessible |-> FALSE, removal |-> TRUE]
  /\ UNCHANGED <<ws, rs, status, pending, sinceReboot, mishaps, omniVars, powerVars, machineVars>>

-----------------------------------------------------------------------------
(* The machine, and what is seen of it. *)

\* A machine without a BMC is set up to boot from the network first.  Another one
\* follows its own boot order unless told otherwise.  One that is sent to its disk and finds
\* nothing there goes on with its boot order, and comes back.
NetworkBoot ==
  /\ mode \in {"booting", "searching"}
  /\ LET bootMode == RequiredBootMode(im, Configured, ws)
     IN  \/ bootMode = "agent-pxe" /\ mode' = "agent"
         \/ bootMode = "talos-pxe" /\ mode' = "talos"
         \/ bootMode = "talos-disk" /\ mode' = IF onDisk THEN "talos" ELSE "searching"
  /\ pxeOnce' = FALSE
  /\ UNCHANGED <<ws, status, onDisk, pending, mishaps, omniVars, powerVars, rebootVars>>

\* What is on the disk runs.
DiskBoot ==
  /\ mode = "booting" /\ onDisk
  /\ mode' = "talos"
  /\ pxeOnce' = FALSE
  /\ IF hasBMC /\ ~pxeOnce THEN UNCHANGED mishaps ELSE Accident
  /\ UNCHANGED <<ws, status, onDisk, pending, omniVars, powerVars, rebootVars>>

\* Talos installs itself on an empty disk; Omni hears of it in its time, or never.
TalosInstalls ==
  /\ mode = "talos" /\ im.allocated /\ ~RequiresWipe(im, ws) /\ ~onDisk
  /\ Within([Used EXCEPT !.installs = @ + 1])
  /\ onDisk' = TRUE /\ event' = TRUE
  /\ UNCHANGED <<hasBMC, im, requestedIn, ws, status, pending, mode, pxeOnce, mishaps,
                 powerVars, rebootVars>>

\* Omni shuts Talos down when it asks, in the tenancy in force, for the machine to be off.
TalosShutsDown ==
  /\ mode = "talos"
  /\ im.powerOffRequestId # 0 /\ requestedIn = im.wipeId
  /\ mode' = "off"
  /\ UNCHANGED <<ws, status, pending, pxeOnce, onDisk, mishaps, omniVars, powerVars, rebootVars>>

PowerFailure ==
  /\ mode # "off"
  /\ Accident
  /\ mode' \in {"off", "booting"}
  /\ UNCHANGED <<ws, status, pending, pxeOnce, onDisk, omniVars, powerVars, rebootVars>>

\* A human follows the advice both controllers leave in the log.
HumanPowerCycles ==
  /\ ~hasBMC
  /\ Managed
  /\ RequiresPowerOn(im, ws)
  /\ \/ mode = "off" /\ ~IsPowerOffActive(im, Acknowledge(im))
     \/ mode = "talos" /\ RequiredBootMode(im, Configured, ws) = "agent-pxe"
  /\ mode' = "booting"
  /\ UNCHANGED <<ws, status, pending, pxeOnce, onDisk, mishaps, omniVars, powerVars, rebootVars>>

\* The install events recorded are those in the infra.Machine read before: one that arrives
\* while the disks are wiped counts as one that arrives afterwards.
WipeDisks ==
  /\ Managed
  /\ RequiresWipe(im, ws)
  /\ status.accessible /\ mode = "agent"
  /\ ws' = [initialWipeDone |-> TRUE, lastWipeId |-> im.wipeId,
            lastWipeInstallEventId |-> im.installEventId]
  /\ onDisk' = FALSE
  /\ Wake(Controllers)
  /\ UNCHANGED <<status, mode, pxeOnce, mishaps, omniVars, powerVars, rebootVars>>

SeenPower ==
  IF hasBMC THEN IF mode = "off" THEN "off" ELSE "on"
  ELSE IF mode = "agent" THEN "on" ELSE "unknown"

StatusChanges(new) ==
  /\ status # new
  /\ status' = new
  /\ Wake(Controllers)
  /\ UNCHANGED <<ws, mishaps, omniVars, powerVars, rebootVars, machineVars>>

Poll == StatusChanges([power |-> SeenPower, accessible |-> mode = "agent"])

\* The agent opens or closes its tunnel.
AgentConnectionEvent == StatusChanges([status EXCEPT !.accessible = (mode = "agent")])

Tick ==
  /\ InCooldown
  /\ sincePowerOn' = IF sincePowerOn < MinRebootInterval THEN sincePowerOn + 1 ELSE sincePowerOn
  /\ sinceReboot' = IF sinceReboot < MinRebootInterval THEN sinceReboot + 1 ELSE sinceReboot
  /\ UNCHANGED <<ws, po, rs, status, op, rb, pending, mishaps, omniVars, machineVars>>

-----------------------------------------------------------------------------

Omni == Cordon \/ Allocate \/ Deallocate \/ RequestPowerOff \/ RequestReboot
        \/ ObserveInstall \/ Teardown

PowerOperationSteps == OpRead \/ OpDecide \/ OpSetPXEBootOnce \/ OpCommand \/ OpCommit
                       \/ DestroyPowerOperation

RebootStatusSteps == RbRead \/ RbDecide \/ RbSetPXEBootOnce \/ RbCommand \/ RbLeftToHuman
                     \/ RbUnanswered \/ RbCommit \/ RbRemove

Machine == NetworkBoot \/ DiskBoot \/ TalosInstalls \/ TalosShutsDown \/ HumanPowerCycles

Failures == OpFail \/ RbFail \/ PowerFailure

Observe == Poll \/ AgentConnectionEvent

Actions == Omni \/ PowerOperationSteps \/ RebootStatusSteps \/ Machine \/ Failures
           \/ WipeDisks \/ Observe

Next == Actions \/ Tick

\* A machine boots, and its agent is heard of, within one tick: an interval shorter than
\* that defeats its purpose.
Settled == mode # "booting" /\ status.accessible = (mode = "agent")
TimelyTick == Settled /\ Tick

Spec == Init /\ [][Next]_vars

\* The runtime runs every controller that has work, the poll is periodic, time
\* passes, and a machine that boots ends up somewhere.
Fairness ==
  /\ WF_vars(PowerOperationSteps) /\ WF_vars(RebootStatusSteps)
  /\ WF_vars(NetworkBoot) /\ WF_vars(HumanPowerCycles)
  /\ WF_vars(WipeDisks) /\ WF_vars(Poll) /\ WF_vars(TimelyTick)

FairSpec == Init /\ [][Actions \/ TimelyTick]_vars /\ Fairness

-----------------------------------------------------------------------------
(* Properties. *)

\* The PowerOperationController never powers on a machine under a power-off request
\* acknowledged in the tenancy in force, although it decides on an infra.Machine read
\* earlier (power_operation.go, transform; machine.go, IsPowerOffActive).
PowerOffHonoured ==
  [][OpCommand /\ op.command = "on" => ~IsPowerOffActive(im, po)]_vars

\* Why it does not: what has been acknowledged is of the past of the infra.Machine, as read or
\* as it is, and no change of an infra.Machine brings its past back.
NotNewer(acked, m) ==
  acked.lastPowerOffId <= m.powerOffRequestId /\ acked.wipeIdAtPowerOff <= m.wipeId

PastInv ==
  /\ NotNewer(po, im)
  /\ op.step = "read" =>
       /\ NotNewer(po, op.im)
       /\ op.im.powerOffRequestId <= im.powerOffRequestId /\ op.im.wipeId <= im.wipeId
  /\ op.step \in {"pxe", "command", "commit"} => NotNewer(op.po, im)

PowerOnInv ==
  op.step \in {"pxe", "command"} /\ op.command = "on" => ~IsPowerOffActive(im, po)

PowerInv == TypeOK /\ PastInv /\ PowerOnInv

\* A power-off request is honoured only in the tenancy it was made in (CHANGELOG.md,
\* Machine Power-Off Support): it is not, if it is acknowledged only afterwards.
PowerOffOfItsTenancy == IsPowerOffActive(im, po) => requestedIn = im.wipeId

\* With a BMC, a power-off or a reboot request is never forgotten, although Omni may make
\* another while a reconcile works on an older one, and a reconcile may fail or be put off
\* by the cooldown: as long as one is not recorded, its controller is at work or has a change
\* to look at (power_operation.go and reboot_status.go, transform: what is returned as an
\* error is run again).
NoRequestForgotten ==
  hasBMC /\ Managed =>
    /\ op = IdleOp /\ "PowerOperation" \notin pending
         => po.lastPowerOffId = im.powerOffRequestId
    /\ rb = IdleRb /\ "RebootStatus" \notin pending /\ rs # Nil
         => rs.lastRebootId = im.requestedRebootId

\* Each controller waits out the interval since what it has last recorded itself, although
\* others act between its decision and its command (reboot_status.go, reboot;
\* power_operation.go, transform).  Since what the other one has recorded it may not: both may
\* decide before either records.  Nor does the reboot of a machine that is removed wait.
IntervalIsKept ==
  [][/\ RbCommand /\ ~rb.removal => sinceReboot = MinRebootInterval
     /\ OpCommand /\ op.command = "off" => sincePowerOn = MinRebootInterval]_vars

\* No command undoes what was acknowledged, or follows the last one too soon.
CommandsAreDue == PowerOffHonoured /\ IntervalIsKept

Served == Managed /\ ~IsPowerOffActive(im, po)

\* A machine left to the provider gets wiped in the end, whatever it was running, and
\* whether it was on (reboot_status.go, power_operation.go, transform), one with a BMC as long as
\* there is no accident: when a reboot leads back to where the MachineStatus says that the machine
\* is, because the network boot fails, or because the reboot has not been recorded and the boot it
\* causes uses up the override of the next, nobody is woken to try again.
WipeIsDone == <>[]Served => <>[](~RequiresWipe(im, ws))

\* A machine with a BMC that must be on is on in the end (power_operation.go, "to bring the machine
\* again to the desired power state"), as long as nothing goes wrong: when its power fails
\* between a reconcile that finds it on and the next poll, and the poll before had found
\* it off, the MachineStatus does not change and neither controller ever runs again.
NeededIsOn ==
  <>[](hasBMC /\ Served /\ (RequiresPowerOn(im, ws) \/ im.prefersOn)) => <>[](mode # "off")

\* A machine that counts as installed is: the event of its install has not come so late that the
\* wipe after it missed it.
InstallIsReal == IsInstalled(im, ws) => onDisk

\* A machine that has been given to a tenant runs Talos in the end, over the network or from
\* its disk (reboot_status.go, transform), unless it was wiped and counts as installed all the same
\* (Lifecycle, WipedIsNotInstalled): then it is to boot from a disk with nothing on it, and one
\* that runs the agent is not even rebooted.  One with a BMC, as WipeIsDone, without an accident.
TenantGetsTalos == <>[](Served /\ im.allocated /\ InstallIsReal) => <>[](mode = "talos")

\* A reboot the user asks for is carried out over the BMC, or another one stands for it.
RebootIsServed ==
  <>[](hasBMC /\ Managed) => <>[](rs # Nil /\ rs.lastRebootId = im.requestedRebootId)

\* Every power-off request is acknowledged in the end (CHANGELOG.md, Machine Power-Off
\* Support), if the machine has a BMC.
PowerOffIsAcknowledged ==
  <>[](hasBMC /\ Managed) => <>[](po.lastPowerOffId = im.powerOffRequestId)

\* The provider does not reboot the machine for ever (reboot_status.go, "we avoid reboot
\* loops").
NoRebootLoop == <>[]Managed => <>[][~RbCommand]_vars
=============================================================================
