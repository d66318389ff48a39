# A verification development of the Omni bare-metal infra provider

The provider manages bare-metal machines for Omni. It answers their network boots, wipes them
between tenants, powers them on and off, reboots them, and reports to Omni what they do. This
directory holds TLA+ models of that, the TLC configurations that check them, and proofs checked
by TLAPS. Paths below are relative to the repository (`src/` in `PROJECT.json`).

## 1. Inventory

### Components, their state and their operations

The provider is a COSI controller runtime around a resource state, with a few servers beside it.
Omni writes one `infra.Machine` per machine (its desired state) and reads one
`infra.MachineStatus`. Every controller below is a `QTransformController`: it runs when the
`infra.Machine` or another input of one machine changes, never twice at the same time for the same
machine, and writes one output resource; on the removal of the `infra.Machine` it destroys its
output and releases its finalizer. Different controllers, the poller and the HTTP handlers run
concurrently on the same machine.

| Component | Source | State | Operations |
|---|---|---|---|
| Boot and power decisions | `internal/provider/machine/machine.go` | none | `IsInstalled`, `RequiresWipe`, `RequiredBootMode`, `RequiresPowerOn`, `IsPowerOffActive` |
| WipeStatusController | `controllers/wipe_status.go` | `WipeStatus`: whether, and for which WipeId, the machine was wiped last | wipe through the agent (up to 24 h), record, teardown |
| InfraMachineStatusController | `controllers/infra_machine_status.go` | `infra.MachineStatus` | compute `ReadyToUse`, power state, reboot id, labels |
| iPXE handler | `ipxe/handler.go` | none; a channel of PXE boot events | three reads, boot decision, boot script |
| PowerOperationController | `controllers/power_operation.go` | `PowerOperation`: last power-on time, acknowledged power-off request | acknowledge, power on or off, requeue, teardown |
| RebootStatusController | `controllers/reboot_status.go` | `RebootStatus`: last reboot id and time | reboot by need, on request, on removal; over BMC or agent |
| MachineStatusController | `controllers/machine_status.go` | `MachineStatus`: power state, agent accessible, initialized | poll, connection events, PXE boot events, teardown |
| Agent client | `agent/client.go` | reverse gRPC tunnels, one per connected machine | wipe, reboot, power management, list of connected machines |
| BMCConfigurationController | `controllers/bmc_configuration.go` | `BMCConfiguration` | settings by the user, by the BMC API, IPMI through the agent, manual; teardown last |
| BMC clients | `bmc/` | cache of Redfish availability | choose a client; power on, off, cycle, PXE boot once, read power |
| DHCP proxy | `dhcp/proxy.go` | none | answer PXE discovery with a boot file |
| TFTP, patched iPXE, firmware | `tftp/`, `ipxe/patch.go`, `rpi/` | immutable files | read |
| TLS certificates | `tls/tls.go` | `TLSConfig`: CA; served certificate | load or create, renew |
| HTTP and gRPC server | `server/`, `config/` | none | routes |
| Start-up and shutdown | `provider.go`, `options.go` | none | validate options, clear state, run components together |
| Image factory, machine config | `imagefactory/`, `machineconfig/` | none | ensure schematic, build documents |
| QEMU machines, virtual BMC | `internal/qemu/` | development tooling | power, boot override |

### How they interact

- By resources. A reconcile reads the `infra.Machine` once and works on that snapshot to its end,
  reads the other resources when it needs them, and writes its output last. Anything may change
  between these points. Changes wake the controllers that have the changed kind as an input, and
  nothing else does, but for requeues.
- By the BMC. The power and the reboot controller command the same machine; neither locks.
- By the agent. A wipe or a reboot is a call over the tunnel the agent opened. A call that times
  out says nothing about what the agent goes on doing.
- By the machine. A reset leads to a network boot and so to a boot decision; what boots decides
  whether an agent connects, which is what the controllers compare with what they want.
- By tenancy. Omni changes the WipeId at each deallocation: it is the identity of a tenancy, which
  every stale snapshot, record and request can confuse with the next.

### What is hard, and what must hold

The list, each item at its line with the properties about it, is `hazards` in `PROJECT.json`. Per
component, what makes it correct:

- *Decisions, wiping, boot and report together*: data written in a tenancy is not erased before it
  ends; nothing of a tenancy survives into a next one that passes for wiped; Talos is only served
  over a disk wiped for its tenancy; `ReadyToUse` is true when it says so. Hard, because all four
  parties act on snapshots, wipes last hours, and calls, machines and the provider fail midway.
- *Power and reboot*: an acknowledged power-off is honoured within its tenancy and only there;
  every request is acknowledged; a machine that must be on, wiped or in Talos gets there though
  controllers run on changes only; reboots end; the cooldown separates commands.
- *MachineStatus and agent tunnels*: the status converges to the truth whatever order open, close
  and poll results come in; nothing is created for a machine being torn down.
- *BMC configuration*: the source with precedence wins; a password set is the password stored; it
  outlives the reboot on removal. *Finalizers*: every removal completes.
- *BMC clients*: Redfish is spoken where it is known to work, by all who use a BMC or by none; one
  slow BMC does not stop the others for ever.
- *Booting from the network (DHCP proxy, TFTP, iPXE scripts)*: a machine is offered what fits it and what
  is served, and gets to what it is to run through lost packets, retries and restarts.
- *Certificates*: what is served is always valid and is from the stored CA.
- *Start-up and shutdown*: one failed component stops the others, and the process ends.

## 2. The modules

| Module | Models | Status |
|---|---|---|
| `MachineModes` | package `machine`, `validateInfraMachine` | done |
| `CleanHandover` | abstract: what wiping promises | done |
| `Lifecycle` | wiping, boot decisions, readiness, machine and Omni composed; implements `CleanHandover` | done |
| `LifecycleProofs` | theorems about `Lifecycle` | done |
| `Power` | power and reboot controllers, machine, poll and wake-ups composed | done |
| `PowerProofs` | theorems about `Power` | done |
| `BMCSetup` | sources of a BMC configuration, their precedence, the IPMI password, the choice of a client | done |
| `BMCSetupProofs` | theorems about `BMCSetup` | done |
| `AgentLink` | tunnels, connection events, polls over stale lists, PXE events, the reconcile: the life of a `MachineStatus` | done |
| `AgentLinkProofs` | theorems about `AgentLink` | done |
| `BMCClients` | choice of a client, the cache of Redfish availability, its lock, sessions | done |
| `BMCClientsProofs` | theorems about `BMCClients` | done |
| `BootChain` | proxy DHCP, files over TFTP and HTTP, embedded and boot scripts, against all kinds of machines | done |
| `BootChainProofs` | theorems about `BootChain` | done |
| `OrderlyRemoval` | abstract: what the controllers promise about the removal of a machine | done |
| `HeldOutput` | abstract: what a controller and the owners of the outputs it holds promise one another | done |
| `Removal` | finalizers and teardown of all controllers composed; implements `OrderlyRemoval` and `HeldOutput` | done |
| `RemovalProofs` | theorems about `Removal` | done |
| `Provider` | options, clearing of state, certificates, components and their end, the next start, an agent that connects | done |
| `ProviderProofs` | theorems about `Provider` | done |
| `MCLifecycle`, `MCPower`, `MCBMCSetup`, `MCAgentLink`, `MCBMCClients`, `MCBootChain`, `MCRemoval`, `MCProvider` | instances for TLC | done |

The order follows what is lost when it goes wrong: a tenant's data first, then a machine left in
the wrong state, then a machine that cannot be managed, then the provider itself. No module uses
RECURSIVE operators, so all can be proved about.

### `MachineModes`

One operator per function of `machine.go`, over resources written as records of the fields that
are read; an absent resource is `Nil`. WipeId and request ids are numbers, and 0 stands for the
empty string; only equality is used of them by the code.

### `Lifecycle`

One machine. State: the resources (`im`, `bmc`, `ws`, `ims`), the one field of `MachineStatus` that
matters (`accessible`), the progress of each reconcile or request with the snapshot it holds
(`wipe`, `request`, `report`), and the machine (`mode`, the tenancies whose data is on `disk`, the
wipes its agent is carrying out, `jobs`). A wipe whose call is still waiting is `current`; one whose
caller gave up (timeout, error, provider restart) is an `orphan`, and the agent goes on with it or
not.

| Actions | Code |
|---|---|
| `Register` ... `Remove` | Omni, external; `Remove` waits for the outputs the controllers' finalizers protect |
| `WipeReconcile`, `WipeDisks`, `WipeSkip`, `WipeFail`, `WipeCommit`, `TeardownWipeStatus` | `wipe_status.go`, `transform`, one action per point where others may intervene |
| `BootRequest`, `ReadBMCConfiguration`, `MakeBootDecision` | `handler.go`, `makeBootDecision`: its three reads |
| `StatusReconcile`, `StatusCommit`, `TeardownStatus` | `infra_machine_status.go` |
| `ConfigureBMC`, `TeardownBMC`, `UpdateMachineStatus` | the neighbours, as weakly as this module needs them: the status may say anything at any time |
| `AgentErases`, `AgentFinishes` | the agent, external: a wipe erases the disk bit by bit, then answers |
| `AnswerDelivered`, `Reset`, `TalosWrites`, `TalosReportsInstall` | the machine, external; it may be reset at any time by anyone |
| `ProviderRestart` | everything in memory is lost, at any point |

`Lifecycle` is deliberately generous: resets, status updates and reconciles come at any moment, so
what holds here holds whatever the power and reboot controllers do. It says nothing of progress;
that is for `Power`.

### `CleanHandover`

The promise, in three variables: the tenancy in force, the tenancies on the disk, and the
certificate (the tenancy for which the disk was last wiped). Data is only erased when the tenancy in
force has no certificate; a certificate is only issued over a disk with nothing older than what it
names. `Lifecycle` implements it with `certificate` mapped to `WipeStatus.LastWipeId` (if
`InitialWipeDone`), `current` to `infra.Machine.WipeId` and `disk` to itself.

### `Power`

One registered, accepted machine. `pending` is the set of controllers an input of which has changed: a
reconcile starts by taking its controller out of it, and a write of an input, a requeue or an error puts
it back in. Reconciles are split into read, decide, the two calls to the BMC (where to boot from, then
what to do) and commit (`OpRead`, `OpDecide`, `OpSetPXEBootOnce`, `OpCommand`, `OpCommit`; `RbRead`,
`RbDecide`, `RbSetPXEBootOnce`, `RbCommand`, `RbCommit`, with `RbRemove` for the removal), and may fail at
each (`OpFail`, `RbFail`). The override one controller has set may be used up by a boot the other one
causes. `RbLeftToHuman` and `RbUnanswered` are the machine without a BMC (`hasBMC`, fixed from the start).
`Poll` and `AgentConnectionEvent` write the `MachineStatus` when it changes, and only then, which is what
wakes the controllers. Wiping is a single step, `WipeDisks`, which empties the disk (`onDisk`).
`TalosInstalls` fills it again, and Omni hears of it later or never (`event`, `ObserveInstall`): so a
machine may boot from its disk, be sent to one that is empty, from which it comes back to ask again (`mode
= "searching"`), and count as installed though it was wiped since, if Omni hears of the install only then.
Time is counted in ticks since the last recorded power on and reboot, up to `MinRebootInterval`, beyond
which the code tells no ages apart.

Whether a requeue keeps the acknowledgement made before it (`OpDecide`, `po' \in {po, acked}`)
depends on the runtime, which is not in the repository; both are allowed.

### `BMCSetup`

One machine, its user and its agent. A login is a pair of who gave it and a number: that of the user's
configuration, or the password the provider generated. A reconcile of the BMCConfigurationController is
cut where others can intervene: `Read`; `Skip` or `Decide`; the two calls `GetPowerManagement` and
`SetPowerManagement`, or `Unavailable` without a tunnel; `Commit`; and it may `Fail` at any of these
points, a restart of the provider included. A password takes effect when it is set, whether its answer
arrives or not. An answer of the agent is a set of interfaces or an error, of which only what
`isNoBMCError` looks at is kept: whether it is Internal and whether it mentions IPMI. A BMC that is there
is taken never to produce the error that means there is none; every other error may happen at any call.
`Client` is the choice of `bmc.go`; whether an IPMI login is used over Redfish is left to `BMCClients`.
The user's configuration may name both interfaces, one or none (`Empty`), or be missing from the resource
(`Unset`), which alone is an error: one that names none is stored, and makes what was recorded before the
user's own. `emptied` remembers that there has been one. A generated password is one that is neither set
nor recorded: 16 random characters do not repeat. A call that takes effect after its successor is not
modelled.

### `AgentLink`

One machine, its `MachineStatus`, and the goroutine that writes it. `RunHook` does one thing at a
time: `run` is what it is doing, and while it does it nothing else is received. A poll is cut into
the list of connected machines it takes at its beginning (`PollAll`), the ping (`PollSingle`) and the
write (`WriteStatus`), so that events, removals and reconnections come between. A tunnel is
`opening` until its event is received, `open`, `closing` from when the library has forgotten it until
its event is received, and `closed`; in `ended` its context is done, and no event is sent any more.
The agent answers on the last tunnel it opened: a ping over another one of the machine's fails. The
reconcile (`ReconcileRunning`; `ReconcileTearingDown`, `TeardownStatus`, `DestroyStatus`, `Release`)
runs beside it. Of the RebootStatusController there are only the finalizers on the infra.Machine and
on the status (`RebootHolds`, `RebootLetsGo`). Power states are left to `Power`: a machine that is off
is one whose ping has no answer. The queue of PXE boot events is that of all machines: an event of this one
may be dropped at any time, for the events of others (`BootRequest`).

### `BMCClients`

Callers (the two controllers, the poll) that get a client for a machine, use it and close it. `call` is
what each is doing, with the configuration it read; `cache` and `lock` are `redfishAvailabilityCache`
and its mutex, `sessions` the callers with an IPMI session.

| Actions | Code |
|---|---|
| `GetClient` | `bmc.go`, `GetClient`: manual before API before IPMI or Redfish, by the flags |
| `CacheHit`, `BeginProbe` | `redfishAvailable`: takes the lock, looks the answer up, or asks the BMC with the lock held |
| `ProbeSucceeds`, `ProbeFails` | the answer, remembered and the lock let go; any error is a no |
| `Connect`, `ConnectFails` | `ipmi.go`, `NewClient` |
| `UseRedfish`, `UseIpmi`, `UseApi`, `UseManual`, `Close` | the four clients; what a command does to the machine is in `Power` |
| `Reconfigure`, `ProviderRestart` | another configuration at any time; all in memory is lost |

Where Redfish is spoken does not change. The calls made on one client are one step: they do not touch
what the module is about.

### `BootChain`

One machine of some kind and a provider with some options, both fixed; what the machine is to run is
`decision`, which may change at any time (`Lifecycle` says how). `program` is what runs: the firmware,
U-Boot on a Raspberry Pi, iPXE, or what was to be booted.

| Actions | Code |
|---|---|
| `Ask`, `TakeReply`, `TimeOut` | the firmware, external: it asks on port 67 or 4011, takes a reply it understands, and begins again. What it wants in a reply is what the comments of `proxy.go` say of strict PXE, iPXE and HTTP boot, U-Boot and Raspberry Pi firmware |
| `HandlePacket` | `proxy.go`, `handlePacket` with `isBootDHCP`, `validateDHCP` and `OfferDHCP` |
| `Fetch` | `tftp_server.go`, `handleRead`; `server.go`, `filesHandler`; the files of `patch.go` and `rpi/firmware.go` |
| `InterfaceFails`, `RequestFails`, `ChainToScript`, `BootFromDisk`, `Exhausted` | the script embedded in iPXE (`patch.go`, `bootTemplate`) and the answers of `handler.go` |
| `Refuse` | the firmware, external: it does not run an iPXE built for another, and begins again |
| `BootKernel`, `BootFails` | the boot script (`handler.go`) |
| `ProviderStarts`, `ProviderStops` | `provider.go`: a start fails on incomplete files |
| `Reset`, `Decide`, `LinkBreaks` | what goes on meanwhile |

A file is a directory and a name. A packet says nothing but the message type, the architectures, whether
the MAC address is a Raspberry Pi's and the user class; a reply is the file named in the options and in
the header, what the vendor options say, and whether there is a server identifier. What a machine is
(`runs` of `Machine`: a BIOS, or EFI of some architecture) need not be what it says: there is 32-bit EFI,
EFI that names a BIOS along with itself, first or last, and a Raspberry Pi that boots over a USB adapter.
`BuildOf` is what each iPXE binary is built for. Malformed machine
GUIDs, TLS and a provider without the proxy are left out.

### `Removal`

One machine and its controllers, each named for its output. `im` and `out` have of the resources the
phase and the finalizers; `rec` is where each reconcile is, `pending` who has a reason for another.

| Actions | Code |
|---|---|
| `Register`, `Teardown`, `Remove` | Omni, external; `Remove` waits for the last finalizer |
| `StatusWrite` | `machine_status.go`, `RunHook`: a boot, a tunnel or a poll creates or changes a status at any time, whether the machine is registered or not |
| `Reconcile`, `Adopt`, `Transform`, `TeardownOutput`, `DestroyOutput`, `Release` | the runtime's `QTransformController`, external, with what each controller gives it: its inputs, its transform and its options |
| `IgnoresTeardown` | `bmc_configuration.go`: the removal is ignored while others hold the infra.Machine |
| `HoldStatus`, `HoldBMC` | `reboot_status.go`, `transform`: finalizers on the status and the BMC configuration before anything else |
| `AttemptReboot`, `DropStatus`, `DropBMC` | `reboot_status.go`, the finalizer removal: one attempt, whose error is logged, then both are let go of |
| `ReconcileFail`, `ProviderRestart` | a call fails at any point; everything in memory is lost |

Of the runtime it is assumed that a controller holds a running infra.Machine before it transforms, that
what is being torn down takes no finalizer and no write, and that an output is destroyed when nobody holds
it. Whether a controller that has let go of a machine goes through its finalizer removal again is left
open. What `Transform` does for the machine is in the modules above; here it keeps an output or not.

### `OrderlyRemoval`

The promise, in three variables: whether the machine is registered, the kinds of which something is
kept, and the kinds whose controller is at work on the machine. What is kept of a registered machine
comes of work on it, and goes only once the machine is removed and that work is over; the BMC
configuration goes last, when nobody works on the machine any more; and the registration ends after that.

Two modules implement it. In `Removal` the order comes of finalizers, which each controller takes and
releases on its own: `kept` is mapped to the outputs that are there, `working` to the controllers whose
reconcile has got to `Transform` or to what leads there, the MachineStatus left aside, which `RunHook` may
create of any machine that answers. `Lifecycle` has no finalizers: there the order is in the guards of
`TeardownBMC`, `TeardownWipeStatus`, `TeardownStatus` and `Remove`. That both implement one
specification is what justifies these guards by the code of all the controllers.

### `HeldOutput`

What the RebootStatusController, which needs the MachineStatus and the BMC configuration on removal, and
their owners promise one another. The holder takes hold of the machine first, then of outputs not being
torn down; it lets go of an output only when the machine leaves, and of the machine only after every
output. The owner of an output may tear it down at any time, and does not destroy it while it is held.
The machine is gone only when the holder has let go of it.

Two modules implement it. In `Removal` the holder is a reconcile of eight steps, which read, fail and are
overtaken, and there are two outputs. `AgentLink` has the status alone, with all that `RunHook` does to it, and
two actions for the holder, `RebootHolds` and `RebootLetsGo`. That both implement one specification is
what justifies these two by the code of the RebootStatusController.

### `Provider`

The process, what outlives it in Omni, and one machine whose agent connects with what it was given when it
booted. `phase` is how far the start is, `up` and `draining` what runs of the components.

| Actions | Code |
|---|---|
| `Validate` | `options.go`, `validateOptions`; `provider.go`, `Run`: boot mode, local assets, advertised address, endpoint |
| `ListState`, `Destroy`, `StateCleared` | `provider.go`, `clearState`: lists everything, destroys what nobody holds, tries all and fails if one failed |
| `EnsureProviderStatus`, `Build`, `StartFails` | `provider.go`, `Run`: the registration; labels, machine config, boot files |
| `LoadCerts`, `InitCA` | `tls.go`: certificates from files, or a stored CA, made when there is none or it has expired |
| `ComponentFails`, `ComponentStops`, `Exit` | `provider.go`, the error group: the first error ends all |
| `ServeFails`, `ShutdownOnCancel`, `Drained`, `ShutdownTimesOut` | `server.go`, `Run`: two listeners, and five seconds for their shutdown |
| `GetCertificate`, `Handshake` | `tls.go`, `GetCertificate`, against an agent that verifies what it is shown |
| `BootAgent`, `Connect` | `provider.go` and `handler.go`: the address and the CA an agent is given |
| `Signal`, `Start`, `Crash` | `cmd/provider/main.go` and what happens around it |
| `RunControllers`, `Tick`, `Expire`, `Reset`, `TunnelEnds` | what goes on meanwhile |

Of options there is what decides a start. A certificate is what is left of its life in ticks; a CA, which
lives for decades, expires at any time or never. Two providers that overlap, for one another's state, are
not modelled. That the library notices dead connections is a matter of `AgentLink`.

## 3. The runs

| Run | Bounds | Checks |
|---|---|---|
| `handover` | 1 deallocation or 1 install event | `LifecycleInv`, `ReadyMeansClean`, `TalosServedClean`, `NoDataLoss`, `ImplementsPromise`, `RemovesOrderly` |
| `installevent` | 1 deallocation and 1 install event | finds `WipedIsNotInstalled` violated |
| `progress` | with a BMC: 1 deallocation and 1 failed call, reboot request or install, or 1 failed call and 1 power-off or reboot request; with a human: 1 deallocation and 1 install, failed call or accident, or 1 reboot request and 1 accident; fair | `PowerInv`, `NoRequestForgotten`, `CommandsAreDue`, `PowerOffIsAcknowledged`, `WipeIsDone`, `NeededIsOn`, `TenantGetsTalos`, `RebootIsServed`, `NoRebootLoop` |
| `lostwakeup` | BMC, 1 accident; fair | finds `NeededIsOn` violated |
| `staleack` | 1 deallocation, 1 power-off | finds `PowerOffOfItsTenancy` violated |
| `setup` | 3 configurations of the user, 2 mishaps; fair | `SetupInv`, `StaysManageable`, `RestsWhenDone`, `EndsConfigured` |
| `link` | 2 tunnels, 1 network boot, 1 registration, 1 mishap, a queue of 1; fair | `LinkInv`, `TeardownIsOrderly`, `RemovalCompletes`, `StatusIsRight`, `Discovered` |
| `clients` | 2 machines, 2 addresses, 2 callers, 1 reconfiguration, 1 mishap, Redfish when available; fair | `ClientsInv`, `ProtocolIsRight`, `AnswersStand`, `CallsEnd` |
| `boot` | 14 kinds of machines, 11 sets of options, 2 interfaces, 2 mishaps; fair | `BootInv`, `OffersAreSound`, `GetsBooted` |
| `notfound` | a PC, `http-404`, no mishap; fair | finds `NotFoundBootsFromDisk` violated |
| `removal` | 3 controllers, 2 registrations, 1 mishap; fair | `RemovalInv`, `RebootPrecedesRelease`, `KeepsPromises`, `RemovalEnds` |
| `provider` | 10 sets of options (4 that work, 4 refused, 2 that fail late), 1 kind of resource, certificates of 11 ticks, a clock 1 tick behind; fair | `ProviderInv`, `RefusedUntouched`, `TrustSurvives`, `EndsTogether`, `AgentGetsThrough` |

Some of these are conjunctions of properties that the next section names one by one: `CommandsAreDue` of
`PowerOffHonoured` and `IntervalIsKept`; `StaysManageable` of `PasswordWorks`, `WorksAgain` and
`KeepsItsBMC`, and `EndsConfigured` of `GetsConfigured` and `UserConfigIsStored`; `TeardownIsOrderly` of
`TornDownStays`, `StatusOutlivesReboot` and the refinement of `HeldOutput`; `KeepsPromises` of those of
`OrderlyRemoval` (`IsOrderly`) and of `HeldOutput` (`HoldsInTurn`); `ProtocolIsRight` of `RedfishIsSpoken`
and `OneProtocol`; `OffersAreSound` of `OfferIsKept` and `OffersAreUnderstood`. `RemovalInv`, `LinkInv`
and `ProviderInv` each include that nothing stands still half done: `NeverStalls`, `RemovalNeverStalls`
and `WholeOrEnding`.

*Why the bounds are enough.* A hazard of `Lifecycle` needs two tenancies, the old and the new, and a
registration can end and begin again without bound, so one deallocation per registration shows every pair;
the proofs cover all others. Install events and deallocations are bounded together too (`MaxChanges`):
with one of each the 13 million states take too long for routine use (they were explored once, with no
error), and the proofs cover the combination. In `Power` (`Bounds`) a power-off request, a deallocation,
an install, a failure (of a call or a reconcile) and an accident (of the power supply, of a network boot,
or of the record of a reboot that has been carried out) give each race one occasion, alone or with the one
that matters to it: an install of which Omni hears before, during or after the wipe, or never. A machine
with a BMC is preferred on across an install or a reboot request, which leaves it in the agent between
tenancies, and off across a failure, which has it powered on and off; preferred off, the half million
states of each of the former two were explored once, with no error. The safety properties are proved for
any number of all of them. A `MinRebootInterval` of one tick distinguishes inside from outside the
cooldown, which is all the code does. In `BMCSetup` each configuration of the user can name either, both
or no interface, so one can leave fields of another, or of the agent, behind, and a third can come after
such a one has been withdrawn or replaced; two mishaps lose two passwords in a row, and three passwords
suffice for a new one beside the one set and the one recorded. In `AgentLink` two tunnels are a connection
and the one made while the first is not known to be dead, which is where their events can cross; one
mishap loses one event, one poll or all tunnels. With two network boots, of which the second may come
after the event of the first was dropped, the 0.96 million states were explored once, with no error. In
`BMCClients` two callers of one machine race for one answer, and of two machines wait for each other; a
machine moves to the address of another, or changes its login or kind, once; one mishap is one probe or
connection lost, or a restart. In `BootChain` each kind of firmware `proxy.go` tells apart is there, two
that it does not answer, the four that it mistakes, the default options, and for each option of
consequence one set that departs from them, valid or not; the ten attempts of the script are the code's
own; two interfaces have one fail and another work; and two mishaps combine, say, a broken link and a
restart. In `Removal` the second registration meets what the first has left, a reconcile still going on
included; the BMC, status and reboot controllers are those that hold more than their own output, or wait
for others to let go. With the WipeStatusController as a fourth and one registration, the 4.8 million
states with a mishap were explored once, with no error, and the proofs cover all six. In `Provider` 11
ticks put the renewal, at less than a tenth of the life, one tick before the end; a clock one tick behind
tells a certificate made now from one made before, and makes an agent wait for it; one kind of resource,
which may be held, is destroyed or is not, beside the CA. Deadlock is not checked: a machine that has been
removed, or is where it should be, stays there.

*Violations found.* Three disagreements with a doc and one defect, each a finding in `PROJECT.json`:

- an install event observed during a wipe counts as one after it (`installevent`): the next tenant's
  machine is sent to an empty disk, or left in the agent, where `reboot_status.go:147-148` sees no mismatch.
  `TenantGetsTalos` excepts such a machine (`InstallIsReal`), and fails without the exception;
- a power-off first seen after a deallocation is honoured in the next tenancy (`staleack`);
- a machine that loses its power between a reconcile and a poll, when the poll before saw it off,
  wakes nobody and stays off (`lostwakeup`);
- the 404 of `--boot-from-disk-method=http-404` is a failure to the script embedded in the provider's own
  iPXE, which retries and reboots, so that the machine never boots from its disk (`notfound`).

More are visible in `Power` and have no run of their own: a machine without a BMC never has its power-off
acknowledged (`OpDecide`, against `CHANGELOG.md:943`); the reboot on removal skips the cooldown
(`RbRemove`); a reboot can follow a power on at once, as each controller reads the other's time stamp
before it commands (`RbRead`); and a reboot that leads back to where the status says the machine is wakes
nobody to try again (`RbCommit`): a machine that is due for the agent, but whose network boot fails, stays
where it was, and so it may if a reboot is carried out and not recorded, as the boot it causes can use up
the override of the one that repeats it. With a BMC, `WipeIsDone` and `TenantGetsTalos` are claimed without
such an accident, and fail with one. Two gaps of `AgentLink` come with a second registration (`MaxRegistrations
= 2`): a machine registered again while its agent stays connected has no status until its next network
boot, and a reconcile that read the infra.Machine as gone destroys the status of its successor. In
`BMCSetup`, an API login the user gave, and has withdrawn, goes on being used before the IPMI login of the
agent (`StoreAgentProvided`, against `bmc_configuration_test.go:95`). There too, a configuration of the
user that names no interface is stored (`StoreUserProvided`) and turns the agent's login into the user's;
once it is withdrawn, the agent is asked again and sets another password while the old one is in use, and
until that is recorded, which a lost answer may put off, nobody can log in (`PasswordWorks` excepts it,
`WorksAgain` says that it passes). In `Provider`, labels, the extra machine config, boot files and a
certificate life too short are refused only after the state has been cleared and the provider registered
(`Build`, `InitCA`), clearing fails as long as a resource is held by a finalizer (`Destroy`), and a CA is
looked at on start only, so that one that expires later is not replaced before the next (`InitCA`). In
`Removal`, a removal during a wipe waits for it, up to 24 hours. In `BMCClients`, one failed probe has
Redfish taken for unavailable until a restart. In `BootChain`, `Supported` leaves out what the code does
not handle: over IPv6 the URL in the embedded script lacks its brackets; the kernel named by the
`config.txt` of a Raspberry Pi and the device tree of the board are not checked at start
(`UncheckedFiles`; `hack/rpi/README.md:17-18`); 32-bit EFI is handed the iPXE for amd64, and EFI that
names a BIOS last that of a BIOS (`Misloaded`; `proxy.go`, `validateDHCP`); and a Raspberry Pi on a USB
adapter is not recognised, so that it drops the offer (`Unrecognised`; `proxy.go:450`,
`hack/rpi/README.md:29`). `LoaderInv` and `OffersAreUnderstood` state the last two as equivalences: so it
goes with these machines, and with no others. They are hazards in `PROJECT.json` with a note.

### Fairness

`FairSpec` of `Power` assumes:

- each controller takes its next step when it has one (weak fairness per controller): the runtime
  runs every queued item, and requeues errors;
- `Poll` happens: the poller is a ticker (30 s, `machine_status.go`);
- a machine that boots ends up somewhere (`NetworkBoot`), and wipes end (`WipeDisks`);
- a human power-cycles a machine without a BMC when the log asks for it (`HumanPowerCycles`);
- `TimelyTick`: time passes, but one tick of `MinRebootInterval` is longer than it takes to boot and
  be seen by the poll. The default is 15 minutes (`options.go`). Without this the controller reboots
  a machine that is still booting, again and again, and `NoRebootLoop` does fail: an interval
  shorter than a boot defeats it.

`FairSpec` of `BMCSetup` assumes that the controller takes its next step while it has one (`Reconcile`).

`FairSpec` of `AgentLink` assumes:

- the controller and the RebootStatusController's removal take their next step, and Omni destroys an
  infra.Machine without finalizers (`Controller`, `RebootLetsGo`, `Remove`);
- `RunHook` finishes what it has begun (`Handle`): its calls have timeouts;
- polls go on (`PollAll`), which is a ticker, and a queued PXE boot event is received at last
  (`ReceivePXEBootEvent`, strong fairness): `select` chooses at random among the channels that are
  ready, so none of them is passed over for ever;
- the end of a dead connection is noticed and its tunnel forgotten (`TunnelEnds`, `TunnelDies`), by the
  TCP keep-alive of `http.Server`. No tunnel event is assumed ever to be received.

`FairSpec` of `BMCClients` assumes that whoever waits for the lock gets it in the end (`TakeLock`, strong
fairness: a `sync.Mutex` is handed to a waiter that has starved for a millisecond), and that calls over
the network end, by an answer or a timeout (`Proceed`: 10 s for Redfish, 30 s for IPMI, 5 s for the API).

`FairSpec` of `BootChain` assumes that a machine goes on with what it does (`PowerOn`, `TakeReply`,
`TimeOut`, `Script`), and that packets and downloads asked for again and again get through at last (`Ask`,
`HandlePacket`, `Fetch`, strong fairness). Nothing is assumed of the provider's start, of decisions or of
failures: `GetsBooted` is about what happens once the provider stays up and of one mind.

`FairSpec` of `Removal` assumes that the runtime runs every controller that has a reason to, again after an
error, and that its calls end, which of a wipe is after 24 hours at most (`Work`, `RebootWork`), and that
Omni destroys what nobody holds (`Remove`).

`FairSpec` of `Provider` assumes:

- a start that was told to end gets on (`signalled /\ StartUp`): the signal cancels the context of every
  call it waits for. Nothing is assumed of a start that was not;
- an end that has begun goes on (`Ending`): the components watch their context, and `Shutdown` has a timeout;
- an agent goes on trying (`Connect`, `Handshake`), at least once in a tick of the certificate's life
  (`TimelyTick`), which by default is over two hours.

No fairness is assumed of Omni but for `Remove`, of the user, of failures, or of connection events,
which may be lost. The liveness properties of `Power` and `BMCSetup` are conditional on Omni leaving the
machine managed from some time on, `StatusIsRight` on the status staying.

## 4. The proofs

`LifecycleProofs` proves, for every value of the bounds, either setting of `AlwaysNetboot`, and from
the assumptions `NilAssumption`, `NetbootAssumption`, `BoundsAssumption` and `NilIsNoResource` (the
absent resource is none of the resources):

| Theorem | States |
|---|---|
| `Invariance` | `Spec => []LifecycleInv` |
| `TypeCorrect` | `Spec => []TypeOK` |
| `ReadyIsClean` | `Spec => []ReadyMeansClean` |
| `TalosIsServedClean` | `Spec => []TalosServedClean` |
| `NothingLost` | `Spec => NoDataLoss` |
| `KeepsPromise` | `Spec => ImplementsPromise` |
| `RemovalIsOrderly` | `Spec => RemovesOrderly` |
| `RemovesAllThatMayGo` | what `OrderlyRemoval` lets go, `Lifecycle` lets go |
| `DecisionsAgree`, `WipeSettlesDecisions` | what the decisions of package `machine` have to do with each other |

*The argument.* None of the properties is inductive: each must say what every party holding an old
snapshot can still do. `LifecycleInv` says it, one conjunct per party:

- `CertificateInv`: a recorded wipe says nothing on the disk is older than the tenancy it names, nor
  newer than the one in force;
- `WipeInv`: the snapshot of the wipe in flight is no newer than the infra.Machine and no older than
  the certificate. Once the call is made a wipe was due by that snapshot, and stays due by it, as
  only this controller writes the WipeStatus; once the agent has answered, the disk holds nothing
  older than the snapshot, though Talos may have written to it since;
- `JobsInv`: a wipe the agent carries out, orphaned or not, runs on a machine still in agent mode, and
  either a wipe is still due or the disk is empty. A reset kills it, so none can reach Talos;
- `ReportInv`: a report of readiness still tells the truth of the tenancy it was computed for;
- `RequestInv`: an answer not delivered belongs to a machine still waiting for it, which runs
  nothing that could write to the disk.

`LifecycleStep` shows each step preserves the conjunction, one lemma per conjunct (`TypeStep` and
those after it), over three facts about steps: the WipeId never goes back within a registration, the
disk only loses data or gains the tag of the tenancy in force, and the tenancies a certificate
speaks of stay clean. The refinement follows because a step of `Lifecycle` that changes
the disk is `Write` or `Erase`, one that changes the WipeStatus is `Certify` or `Revoke`, one that
changes the WipeId is `Handover`, and all others stutter.

The removal is proved both ways. `RemovalIsOrderly` says that the guards of `Lifecycle`, which stand for
finalizers, allow no more than `OrderlyRemoval`, which the controllers of `Removal` keep. But
guards that allow less would leave removals out of everything proved here, and `RemovesAllThatMayGo`
says they do not: in a state of the types, each step of a removal that the promise allows is a step of
`Lifecycle`.

The decisions of package `machine` are taken by several controllers, each on its own reading.
`DecisionsAgree`, over any resources, says that on the same reading they do not contradict each other: Talos
is only booted on a machine that is configured, stays, needs no wipe and is to be on; a machine that needs a
wipe is to be on and on the network; one that boots from its disk has been installed since the last wipe.
`WipeSettlesDecisions` says that what `WipeCommit` records is enough: it undoes every reason for a wipe.

`PowerProofs` proves, for every value of the bounds and of `MinRebootInterval`, with or without a BMC,
from `PowerAssumption` and `NilIsNoResource`:

| Theorem | States |
|---|---|
| `PowerInvariance` | `Spec => []PowerInv` |
| `PowerOffIsHonoured` | `Spec => PowerOffHonoured` |
| `RequestsAreKept` | `Spec => [](KeepsUpInv /\ NoRequestForgotten)` |
| `EachKeepsItsInterval` | `Spec => IntervalIsKept` |
| `CommandsAreAlwaysDue` | `Spec => CommandsAreDue` |
| `FairIsSafe` | all of it of `FairSpec` |

*The argument.* A power on is decided on an infra.Machine read earlier, and carried out against the
one in force. What keeps it from undoing a power-off is that ids and WipeIds only grow: what is
acknowledged, recorded or about to be, is of the past of the infra.Machine, as it was read and as it
is (`PastInv`), so if it did not apply to what was read, it does not apply to what followed
(`InactiveStays`, `ChangeStaysInactive`). `PowerOnInv` carries that from the decision to the command.

`NoRequestForgotten` speaks of controllers at rest, and to be inductive has to say what one at work will
record. `KeepsUpInv` does: unless its controller has been woken since, and so will run again, a reconcile
works on the infra.Machine there is (`op.step = "read"`), and later on the requests that are in
force (`OpKeepsUp`, `RbKeepsUp`). That nothing is lost between is then one fact of every other step: it leaves
what the controller goes by alone, or wakes it (`OperationsLeave`, `RebootsLeave`, `OmniWakes`, `WorldLeaves`).
`IntervalInv` carries the end of the interval from the decision to the command: only the controller's own
record starts another, and it makes none in between.

`BMCSetupProofs` proves, for any set of passwords, any number of configurations and mishaps, and either
setting of `AllowMachinesWithoutBMC`, from `BMCAssumption` and `NilIsNothing`:

| Theorem | States |
|---|---|
| `SetupInvariance` | `Spec => []SetupInv` |
| `PasswordAlwaysWorks` | `Spec => []PasswordWorks` |
| `BMCIsKept` | `Spec => []KeepsItsBMC` |
| `MachineStaysManageable` | `Spec => []StaysManageable` |
| `NothingIsLeftUndone` | `Spec => []RestsWhenDone` |
| `FairIsSafe` | all of it of `FairSpec` |

*The argument.* A password can be set and not recorded, so `PasswordWorks` is not inductive: what makes it
hold is that no password is set while one of the provider's own is in use. `LoginWorks` says that of a
configuration, for the one recorded and the one about to be (`rec.step = "commit"`): an agent's IPMI login
that nothing takes precedence over is not `manuallyConfigured`, hence `AlreadyInitialized`, hence no run
gets to `SetPowerManagement`; or it is, and there has been a configuration that names no interface
(`EmptyIsKnown`), which is the exception. That this ends (`WorksAgain`) takes `RestsWhenDone`: with
nothing given by the user a controller at rest leaves nothing that is `manuallyConfigured`. A run that got
there before cannot have been overtaken, as nobody else writes the configuration. With an API login
recorded the IPMI one may go stale, and is not used. `KeepsItsBMC` follows from the last conjunct: for a
machine with a BMC, `HasNoBMC` is true of no answer.

`RestsWhenDone` is strengthened to `WorkInv`, by step of the run: unless something has changed since, what
was read is current, the agent is only asked when the user is silent, and what is about to be recorded
settles what the user gives. `StoringSettles` is about the operators alone: whatever was recorded before, to
store what the user gives, or that there is no BMC, settles it.

`AgentLinkProofs` proves, for any number of tunnels, boots, registrations and mishaps, and any length of
the queue, from `LinkAssumption` and `NilIsNoResource`:

| Theorem | States |
|---|---|
| `StatusInvariance` | `Spec => []StatusInv` |
| `NothingIsResurrected` | `Spec => TornDownStays` |
| `HeldIsKept` | `Spec => StatusOutlivesReboot` |
| `HoldsInTurn` | `AgentLink` implements `HeldOutput` |
| `StatusIsTornDownOnce` | `Spec => TeardownIsOrderly` |
| `NoRemovalStalls` | `Spec => [](HeldInv /\ RemovalNeverStalls)` |
| `LinkInvariance` | `Spec => []LinkInv` |
| `FairIsSafe` | all of it of `FairSpec` |

*The argument.* That a status is destroyed only when nobody holds it is not inductive, as the reconcile
looks first and destroys later. `DestroyInv` bridges the two: between `TeardownStatus` and `DestroyStatus`
the status stays being torn down, which no write of `RunHook` undoes (`WritesAreTyped`), and a finalizer
cannot be added to what is being torn down (`RebootHolds`). `StepsOfStatus` sorts all steps by what they
can make of the status and of the reconcile; the first three theorems read off it. `HoldsInTurn` takes the
actions one by one; a write of `RunHook` creates a status or, to the contract, does nothing.
`NoRemovalStalls` needs `HeldInv`: the reconcile that finds the status held ends, and is run again only by
a change of the infra.Machine. The status is held only as long as the infra.Machine is, so such a change
is to come.

`BMCClientsProofs` proves, for any machines, addresses and callers, either setting of both flags, and any
number of reconfigurations and mishaps, from `ClientsAssumption`:

| Theorem | States |
|---|---|
| `ClientsInvariance` | `Spec => []ClientsInv` |
| `RedfishIsOnlySpokenWhereKnown` | `Spec => []RedfishIsSpoken` |
| `ProtocolIsOne` | `Spec => []OneProtocol` |
| `ProtocolIsAlwaysRight` | `Spec => []ProtocolIsRight` |
| `AnswersAreFinal` | `Spec => AnswersStand` |
| `FairIsSafe` | all of it of `FairSpec` |

*The argument.* Two callers could decide differently only if the answer they went by had changed between
them. `LockInv` rules that out: a caller that probes holds the lock, so the answer it is about to write is
still unknown, and an answer once known is never written again until a restart, which ends all calls. So
`DecisionInv` holds of every caller of the same machine and address, and `OneProtocol` follows from it;
`RedfishIsSpoken` follows from it and `CacheInv`. `AnswersStand` is the same fact of the lock, read off each
step: only a caller that holds it writes, and only what is unknown.

`BootChainProofs` proves, for any of the kinds of machines, any sets of options, and any number of
interfaces and mishaps, from `ChainAssumption` and `NilIsNoFile`:

| Theorem | States |
|---|---|
| `BootInvariance` | `Spec => []BootInv` |
| `OffersAreKept` | `Spec => []OfferIsKept` |
| `OffersAreTaken` | `Spec => []OffersAreUnderstood` |
| `OffersAreAlwaysSound` | `Spec => []OffersAreSound` |
| `FairIsSafe` | all of it of `FairSpec` |

*The argument.* A file asked for is one that was offered earlier, to a packet sent earlier still, so
`OfferInv` says of everything in flight, the packet, the reply and the files yet to fetch, that it is what
the proxy makes of the program that runs now: a program that ends takes all of it along. `Firmwares` is
`validateDHCP` worked out by kind of machine, for the firmware and for iPXE; `Offers` follows each of its
rows through `OfferDHCP` to what the firmware reads, and finds it served, and built for the machine or, of
those in `Misloaded`, for another, which they do not run. The steps are then left with little to show.
`OffersUnderstood` takes the ways to read a reply one by one: the menu a Raspberry Pi wants, the server
identifier of strict PXE, the file in the header or in the options.

`RemovalProofs` proves, for any of the sets of controllers with the three that hold more than their own
output, and any number of registrations and mishaps, from `RemovalAssumption` and `NilIsNoResource`:

| Theorem | States |
|---|---|
| `RebootIsAttempted` | `Spec => RebootPrecedesRelease` |
| `RemovalNeverStalls` | `Spec => []NeverStalls` |
| `RemovalInvariance` | `Spec => []RemovalInv` |
| `RemovalIsOrderly` | `Spec => IsOrderly` |
| `HoldsWhatItNeeds` | `Spec => HoldsInTurn` |
| `PromisesAreKept` | `Spec => KeepsPromises` |
| `FairIsSafe` | all of it of `FairSpec` |

*The argument.* A reconcile acts on what it read before the removal began, or before the machine was
registered again, so nothing of this is inductive. `IndInv` adds what each reconcile in flight may still
do: where it may write an output its controller holds the infra.Machine (`StepInv`); where it may
destroy the BMC configuration nobody else holds it, and nobody can any more (`LastInv`); past the drops
the RebootStatusController holds nothing (`DropInv`); and past its attempt, with what it needs held when
the removal began, the attempt was one (`AttemptInv`). One lemma per action shows it kept (`OmniKeeps`
to `FailureKeeps`); the refinement of `OrderlyRemoval` has one step per action over it, as only `Transform` and
`DestroyOutput` change what is kept.

That of `HeldOutput` has one lemma for each who acts: Omni, those who take hold of the machine, the owners, the
RebootStatusController. A reconcile that goes on with what it read may do so because of the same
invariant: it takes hold of an output only while it holds the machine (`StepInv`), lets go of one only
when the machine leaves (`NothingStuck`, `StepInv`) and of the machine when it holds nothing (`DropInv`).

`NeverStalls` says that somebody is awake, of which nothing follows for anybody in particular. `AwakeInv`
says of everybody who holds the machine that he is awake or waits for somebody who does: the
MachineStatusController for the RebootStatusController, whose release is what wakes it, the
BMCConfigurationController for all others, the last of whom wakes it. `HoldersInv` says that nobody else
holds an output. `SomebodyIsAwake` is the end of it: these waits make no circle.

`ProviderProofs` proves, for any sets of options, any kinds of resources, and any life of a certificate
and lag of a clock, from `ProviderAssumption` and `NilIsNothing`:

| Theorem | States |
|---|---|
| `ProcessInvariance` | `Spec => []ProcessInv` |
| `RefusedIsUntouched` | `Spec => RefusedUntouched` |
| `TrustIsKept` | `Spec => TrustSurvives` |
| `RunsWholeOrEnds` | `Spec => []WholeOrEnding` |
| `ProviderInvariance` | `Spec => []ProviderInv` |
| `FairIsSafe` | all of it of `FairSpec` |

*The argument.* `ProcessInv` is inductive as it stands: it says in which phase which part is there, that a
start gets past its checks only with options that passed them, and that an agent trusts a CA as current
only while there is one. `RefusedIsUntouched` and `TrustIsKept` follow from it, one case per action. For
`RunsWholeOrEnds` it takes `CleanStart`: no start goes on with a failure behind it, but for the clearing of
state, which tries all and ends the process then, so that what begins to run is whole.

## 5. Only model-checked

Liveness is out of the prover's reach, which does not handle fairness or ENABLED. It is checked for the
bounds above, and only there. Of most of it a safety half is proved for any bounds, which says that the work
that is left has somebody to do it; what remains to TLC is that he is let run and gets it done:

| Only checked | Safety half proved |
|---|---|
| `PowerOffIsAcknowledged`, `RebootIsServed` | `NoRequestForgotten`: what is not recorded has its controller at work or woken |
| `NoRebootLoop` | `IntervalIsKept`: no reboot before the interval since the last one |
| `RemovalEnds` | `NeverStalls`: of those who hold the machine, one is at work or woken |
| `RemovalCompletes` | `RemovalNeverStalls`: the same of the one controller of `AgentLink` |
| `GetsConfigured`, `UserConfigIsStored` | `RestsWhenDone`: the controller does not rest before |
| `CallsEnd` | `LockInv`, of `ClientsInv`: who holds the lock is in the middle of a probe |
| `GetsBooted` | `OfferIsKept`, `OffersAreUnderstood`: what is offered is understood and served |
| `EndsTogether` | `WholeOrEnding`: what has lost a part has been told to end |
| `WipeIsDone`, `NeededIsOn`, `TenantGetsTalos`, `StatusIsRight`, `Discovered`, `AgentGetsThrough` | none |

The last ones have no such half. Of the first three, whether anything is due is for the next poll to find
out: a controller may rest with the machine in the wrong mode, as the status it goes by is old
(`lostwakeup` is where that ends badly). `StatusIsRight` and `Discovered` rest on polls and events alone, and
`AgentGetsThrough` on time.

The violations are counterexamples and need no proof.

## 6. Not modelled, and why

- The runtime itself, Omni, the agent's own code, Talos and BMC firmware are not in the repository.
  They are external parts of the modules, as weak as the code's use of them allows.
- The optional resource cache (`EnableResourceCache`, `provider.go`, off by default) makes reads of
  `BMCConfiguration`, `MachineStatus`, `PowerOperation`, `RebootStatus`, `TLSConfig` and
  `WipeStatus` lag behind. The models read these as stored. With the cache on, the wait between
  "read" and "decide" would have to be split once more.
- Labels, kernel arguments, schematics, the byte patching of iPXE images and the bodies of files decide
  nothing the properties are about.
- `WipeStatus.WipedNodeUniqueToken` is recorded exactly as the WipeId is, and left out.
- Two providers at once. `Provider` starts the next when the last has ended; two that overlap could each
  make a CA, or clear what the other keeps. Nothing in the code guards against it or speaks of it.
- The parsing of flags and the documents of the image factory and of the machine config are inputs: that
  building them can fail is in `Provider`, what is in them is formatting.
- Development tooling (`internal/qemu`, `cmd/qemu-up`): it runs on a developer's machine, in no provider.
- Labels, reboot and power fields which InfraMachineStatusController copies to Omni (the component is
  `partly` for that), and the script for chainloading by hand.

## 7. Running it

    tlc -config MCLifecycle_handover.cfg MCLifecycle
    tlc -config MCPower_progress.cfg MCPower
    tlc -config MCBMCSetup_setup.cfg MCBMCSetup
    tlc -config MCAgentLink_link.cfg MCAgentLink
    tlc -config MCBMCClients_clients.cfg MCBMCClients
    tlc -config MCBootChain_boot.cfg MCBootChain
    tlc -config MCRemoval_removal.cfg MCRemoval
    tlc -config MCProvider_provider.cfg MCProvider
    tlapm LifecycleProofs.tla
    tlapm PowerProofs.tla
    tlapm BMCSetupProofs.tla
    tlapm AgentLinkProofs.tla
    tlapm BMCClientsProofs.tla
    tlapm BootChainProofs.tla
    tlapm RemovalProofs.tla
    tlapm ProviderProofs.tla

`PROJECT.json` lists every run with the properties it checks, for each property a mutant of the model
that breaks it, the source lines of every definition, the hazards, the findings and the theorems.
