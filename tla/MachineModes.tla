---------------------------- MODULE MachineModes ----------------------------
(***************************************************************************)
(* What the provider decides from the resources of one machine: package    *)
(* internal/provider/machine, and the checks the controllers share.        *)
(*                                                                         *)
(* A resource is a record with the fields of its specification that some   *)
(* decision reads, or Nil when it does not exist: im is the infra.Machine  *)
(* Omni writes, bmc the BMCConfiguration, ws the WipeStatus, po the        *)
(* PowerOperation.  Identifiers the code only compares for equality        *)
(* (WipeId, request ids) are numbers, and 0 stands for the empty string.   *)
(***************************************************************************)
EXTENDS Integers

CONSTANTS
  Nil,            \* a resource that does not exist
  AlwaysNetboot   \* BootOptions.AlwaysNetboot, the --always-netboot flag

ASSUME NilAssumption == Nil \notin Int
ASSUME NetbootAssumption == AlwaysNetboot \in BOOLEAN

\* The zero value of WipeStatus, which is what a WipeStatus that has never
\* been written counts as.
LastWipeInstallEventId(ws) == IF ws = Nil THEN 0 ELSE ws.lastWipeInstallEventId

IsInstalled(im, ws) ==
  /\ im # Nil
  /\ im.installEventId > LastWipeInstallEventId(ws)

RequiresWipe(im, ws) ==
  im # Nil /\ ws # Nil /\ ws.initialWipeDone => im.wipeId # ws.lastWipeId

BootModes == {"agent-pxe", "talos-pxe", "talos-disk"}

Rejected(im) == im # Nil /\ im.acceptance = "rejected"

\* Mutant: a boot decision that does not ask whether the machine was wiped.
BootIntoAgentModeUnlessWipeDue(im, bmc, ws) ==
  \/ im = Nil
  \/ im.phase = "tearingDown"
  \/ im.acceptance = "pending"
  \/ ~im.allocated
  \/ bmc = Nil

\* An unknown machine counts as pending, running and not allocated.
BootIntoAgentMode(im, bmc, ws) ==
  \/ im = Nil
  \/ im.phase = "tearingDown"
  \/ im.acceptance = "pending"
  \/ ~im.allocated
  \/ bmc = Nil
  \/ RequiresWipe(im, ws)

RequiredBootMode(im, bmc, ws) ==
  IF Rejected(im) THEN "talos-disk"
  ELSE IF BootIntoAgentMode(im, bmc, ws) THEN "agent-pxe"
  ELSE IF IsInstalled(im, ws) /\ ~AlwaysNetboot THEN "talos-disk"
  ELSE "talos-pxe"

RequiresPXEBoot(bootMode) == bootMode \in {"agent-pxe", "talos-pxe"}

RequiresPowerOn(im, ws) ==
  \/ im.allocated
  \/ IsInstalled(im, ws)
  \/ RequiresWipe(im, ws)

IsPowerOffActive(im, po) ==
  /\ im # Nil
  /\ po # Nil
  /\ po.lastPowerOffId # 0
  /\ po.lastPowerOffId = im.powerOffRequestId
  /\ po.wipeIdAtPowerOff = im.wipeId

\* The controllers leave every machine alone that is not accepted, or is
\* cordoned: validateInfraMachine makes the reconcile a skip.
ValidateInfraMachine(im) == im.acceptance = "accepted" /\ ~im.cordoned
=============================================================================
