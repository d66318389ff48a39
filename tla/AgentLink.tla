------------------------------ MODULE AgentLink ------------------------------
(***************************************************************************)
(* How the provider keeps the MachineStatus of one machine: the tunnels    *)
(* its agent opens, the events about them, the PXE boot events, the poll,  *)
(* all handled by the one goroutine of the MachineStatusController         *)
(* (RunHook), and its reconcile, which adopts the infra.Machine and        *)
(* destroys the status on removal.                                         *)
(*                                                                         *)
(* A machine may have several tunnels: its agent reconnects before the     *)
(* provider has noticed that the connection before is dead.  Events go     *)
(* over a channel without a buffer, so those who send them wait for        *)
(* RunHook, which may be busy with a poll of slow BMCs.                    *)
(***************************************************************************)
EXTENDS Naturals

CONSTANTS
  Nil,               \* what is not there
  PXEBuffer,         \* PXE boot events that may be queued, of this machine and all others
  MaxTunnels,        \* bound: tunnels the agent opens
  MaxBoots,          \* bound: network boots
  MaxRegistrations,  \* bound: times the machine is registered
  MaxMishaps         \* bound: failed calls and writes, restarts

ASSUME LinkAssumption ==
  {PXEBuffer, MaxTunnels, MaxBoots, MaxRegistrations, MaxMishaps} \subseteq Nat

VARIABLES
  im,        \* the infra.Machine, or Nil
  status,    \* the MachineStatus, or Nil
  rec,       \* the reconcile
  pending,   \* whether there is a reason for another
  run,       \* what RunHook is doing
  boots,     \* PXE boot events in the queue
  tunnels,   \* what the provider makes of each tunnel
  ended,     \* the tunnels whose context is done
  agent,     \* the tunnel on which the agent answers, or 0
  booted, registered, mishaps

resources == <<im, status>>
hookVars == <<run, boots>>
linkVars == <<tunnels, ended, agent>>
bounds == <<booted, registered, mishaps>>
vars == <<im, status, rec, pending, run, boots, tunnels, ended, agent, booted,
          registered, mishaps>>

Tunnels == 1..MaxTunnels

InfraMachine ==
  [phase: {"running", "tearingDown"}, finalizers: SUBSET {"MachineStatus", "RebootStatus"}]

\* held: whether it has the finalizer of the RebootStatusController.
MachineStatus ==
  [phase: {"running", "tearingDown"}, held: BOOLEAN, initialized: BOOLEAN,
   accessible: BOOLEAN]

NewStatus ==
  [phase |-> "running", held |-> FALSE, initialized |-> FALSE,
   accessible |-> FALSE]

ASSUME NilIsNoResource == Nil \notin InfraMachine \cup MachineStatus

Waiting == [step |-> "select"]

Progress ==
  {Waiting} \cup [step: {"event"}, connected: BOOLEAN]
            \cup [step: {"boot"}]
            \cup [step: {"poll"}, connected: BOOLEAN]
            \cup [step: {"write"}, accessible: BOOLEAN]

TypeOK ==
  /\ im \in InfraMachine \cup {Nil}
  /\ status \in MachineStatus \cup {Nil}
  /\ rec \in {"idle", "removed", "destroy", "release"}
  /\ pending \in BOOLEAN
  /\ run \in Progress
  /\ boots \in 0..PXEBuffer
  /\ tunnels \in [Tunnels -> {"unused", "opening", "open", "closing", "closed"}]
  /\ ended \in SUBSET Tunnels
  /\ agent \in Tunnels \cup {0}
  /\ booted \in 0..MaxBoots /\ registered \in 0..MaxRegistrations /\ mishaps \in 0..MaxMishaps

Init ==
  /\ im = Nil /\ status = Nil
  /\ rec = "idle" /\ pending = FALSE
  /\ run = Waiting /\ boots = 0
  /\ tunnels = [t \in Tunnels |-> "unused"]
  /\ ended = {}
  /\ agent = 0
  /\ booted = 0 /\ registered = 0 /\ mishaps = 0

Mishap == mishaps < MaxMishaps /\ mishaps' = mishaps + 1

Wake == pending' = TRUE

-----------------------------------------------------------------------------
(* Omni and the controllers beside this one. *)

Running == im # Nil /\ im.phase = "running"

Register ==
  /\ im = Nil
  /\ registered < MaxRegistrations
  /\ im' = [phase |-> "running", finalizers |-> {}]
  /\ registered' = registered + 1
  /\ Wake
  /\ UNCHANGED <<status, rec, booted, mishaps, hookVars, linkVars>>

Teardown ==
  /\ Running
  /\ im' = [im EXCEPT !.phase = "tearingDown"]
  /\ Wake
  /\ UNCHANGED <<status, rec, bounds, hookVars, linkVars>>

Remove ==
  /\ im # Nil /\ im.phase = "tearingDown" /\ im.finalizers = {}
  /\ im' = Nil
  /\ Wake
  /\ UNCHANGED <<status, rec, bounds, hookVars, linkVars>>

\* The RebootStatusController holds both until it has rebooted the machine on removal.  A
\* reconcile of it that began before the removal may get to the status after it.
RebootHolds ==
  /\ im # Nil
  /\ Running \/ "RebootStatus" \in im.finalizers
  /\ im' = [im EXCEPT !.finalizers = @ \cup {"RebootStatus"}]
  /\ status' = IF status # Nil /\ status.phase = "running"
               THEN [status EXCEPT !.held = TRUE] ELSE status
  /\ im' # im \/ status' # status
  /\ Wake
  /\ UNCHANGED <<rec, bounds, hookVars, linkVars>>

RebootLetsGo ==
  /\ im # Nil /\ im.phase = "tearingDown" /\ "RebootStatus" \in im.finalizers
  /\ im' = [im EXCEPT !.finalizers = @ \ {"RebootStatus"}]
  /\ status' = IF status # Nil THEN [status EXCEPT !.held = FALSE] ELSE Nil
  /\ Wake
  /\ UNCHANGED <<rec, bounds, hookVars, linkVars>>

-----------------------------------------------------------------------------
(* The reconcile of the MachineStatusController. *)

\* The finalizer is only added to an infra.Machine that is not being torn down; that it has
\* been added is a change of it.
ReconcileRunning ==
  /\ pending /\ rec = "idle"
  /\ Running
  /\ pending' = ("MachineStatus" \notin im.finalizers)
  /\ im' = [im EXCEPT !.finalizers = @ \cup {"MachineStatus"}]
  /\ UNCHANGED <<status, rec, bounds, hookVars, linkVars>>

\* An infra.Machine that is gone passes for one torn down.
ReconcileTearingDown ==
  /\ pending /\ rec = "idle"
  /\ ~Running
  /\ pending' = FALSE
  /\ rec' = "removed"
  /\ UNCHANGED <<resources, bounds, hookVars, linkVars>>

\* Mutant: it does not wait for those who hold the status.
TeardownStatusHeld ==
  /\ rec = "removed"
  /\ rec' = IF status = Nil THEN "release" ELSE "destroy"
  /\ status' = IF status = Nil THEN Nil ELSE [status EXCEPT !.phase = "tearingDown"]
  /\ UNCHANGED <<im, pending, bounds, hookVars, linkVars>>

\* Mutant: a status that is not there has not been removed.
TeardownStatusExisting ==
  /\ rec = "removed"
  /\ rec' = IF status = Nil THEN "idle" ELSE IF status.held THEN "idle" ELSE "destroy"
  /\ status' = IF status = Nil THEN Nil ELSE [status EXCEPT !.phase = "tearingDown"]
  /\ UNCHANGED <<im, pending, bounds, hookVars, linkVars>>

TeardownStatus ==
  /\ rec = "removed"
  /\ \/ status = Nil /\ rec' = "release" /\ UNCHANGED status
     \/ /\ status # Nil
        /\ status' = [status EXCEPT !.phase = "tearingDown"]
        /\ rec' = IF status.held THEN "idle" ELSE "destroy"
  /\ UNCHANGED <<im, pending, bounds, hookVars, linkVars>>

DestroyStatus ==
  /\ rec = "destroy"
  /\ status' = Nil
  /\ rec' = "release"
  /\ UNCHANGED <<im, pending, bounds, hookVars, linkVars>>

Release ==
  /\ rec = "release"
  /\ rec' = "idle"
  /\ IF im # Nil /\ "MachineStatus" \in im.finalizers
     THEN /\ im' = [im EXCEPT !.finalizers = @ \ {"MachineStatus"}]
          /\ Wake
     ELSE UNCHANGED <<im, pending>>
  /\ UNCHANGED <<status, bounds, hookVars, linkVars>>

ReconcileFail ==
  /\ rec # "idle"
  /\ Mishap
  /\ rec' = "idle"
  /\ Wake
  /\ UNCHANGED <<resources, booted, registered, hookVars, linkVars>>

-----------------------------------------------------------------------------
(* RunHook. *)

\* What a write finds; it creates a status that is not there.
Found == IF status = Nil THEN NewStatus ELSE status

\* Mutant: a status being torn down is written like any other.
ModifyAnyPhase(new) == status' = new

Modify(new) ==
  status' = IF status # Nil /\ status.phase = "tearingDown" THEN status ELSE new

\* The tunnels of the machine the provider knows.
Connected == {t \in Tunnels : tunnels[t] \in {"opening", "open"}}

PollAll ==
  /\ run = Waiting
  /\ status # Nil /\ status.phase = "running"
  /\ run' = [step |-> "poll", connected |-> Connected # {}]
  /\ UNCHANGED <<resources, rec, pending, boots, bounds, linkVars>>

Pinged(answer) == [step |-> "write", accessible |-> answer]

\* A machine that is off, or whose ping has no answer in time, is not accessible.  The ping
\* goes over any tunnel of the machine, and one at most has an agent at its end.
PollSingle ==
  /\ run.step = "poll"
  /\ \/ /\ ~run.connected \/ Connected = {}
        /\ run' = Pinged(FALSE)
        /\ UNCHANGED mishaps
     \/ /\ run.connected
        /\ \E t \in Connected : run' = Pinged(t = agent)
        /\ UNCHANGED mishaps
     \/ run.connected /\ Mishap /\ run' = Pinged(FALSE)
  /\ UNCHANGED <<resources, rec, pending, boots, booted, registered, linkVars>>

\* Mutant: the poll only adds, an agent that has gone is left to the events.
WriteStatusIfAccessible ==
  /\ run.step = "write"
  /\ IF run.accessible THEN Modify([Found EXCEPT !.accessible = TRUE]) ELSE UNCHANGED status
  /\ run' = Waiting
  /\ UNCHANGED <<im, rec, pending, boots, bounds, linkVars>>

WriteStatus ==
  /\ run.step = "write"
  /\ Modify([Found EXCEPT !.accessible = run.accessible])
  /\ run' = Waiting
  /\ UNCHANGED <<im, rec, pending, boots, bounds, linkVars>>

HandleAgentConnectionEvent ==
  /\ run.step = "event"
  /\ Modify([Found EXCEPT !.accessible = run.connected])
  /\ run' = Waiting
  /\ UNCHANGED <<im, rec, pending, boots, bounds, linkVars>>

ReceivePXEBootEvent ==
  /\ run = Waiting
  /\ boots > 0
  /\ boots' = boots - 1
  /\ run' = [step |-> "boot"]
  /\ UNCHANGED <<resources, rec, pending, bounds, linkVars>>

\* Mutant: a machine without a status is not known yet.
HandlePXEBootEventKnown ==
  /\ run.step = "boot"
  /\ IF status = Nil THEN UNCHANGED status ELSE Modify([Found EXCEPT !.initialized = TRUE])
  /\ run' = Waiting
  /\ UNCHANGED <<im, rec, pending, boots, bounds, linkVars>>

\* The status of a machine that boots for the first time is polled at once.
HandlePXEBootEvent ==
  /\ run.step = "boot"
  /\ Modify([Found EXCEPT !.initialized = TRUE])
  /\ run' = IF Found.phase = "running" /\ ~Found.initialized
            THEN [step |-> "poll", connected |-> Connected # {}]
            ELSE Waiting
  /\ UNCHANGED <<im, rec, pending, boots, bounds, linkVars>>

\* A failed write of a poll is logged; after that of an event the hook is run again.  Either
\* way what was to be written is lost.
RunFail ==
  /\ run.step \in {"event", "boot", "poll", "write"}
  /\ Mishap
  /\ run' = Waiting
  /\ UNCHANGED <<resources, rec, pending, boots, booted, registered, linkVars>>

-----------------------------------------------------------------------------
(* The iPXE handler and the tunnels. *)

\* All machines share the queue, so that the event is dropped if there is no place left in it,
\* be it that others have taken them all.
BootRequest ==
  /\ agent = 0
  /\ booted < MaxBoots
  /\ booted' = booted + 1
  /\ \/ boots < PXEBuffer /\ boots' = boots + 1
     \/ UNCHANGED boots
  /\ UNCHANGED <<resources, rec, pending, run, registered, mishaps, linkVars>>

\* The agent starts, or has lost its connection and makes another.
AgentConnects ==
  /\ \E t \in Tunnels :
       /\ \A u \in Tunnels : tunnels[u] = "unused" <=> u >= t
       /\ tunnels' = [tunnels EXCEPT ![t] = "opening"]
       /\ agent' = t
  /\ UNCHANGED <<resources, rec, pending, ended, bounds, hookVars>>

AgentGoes ==
  /\ agent # 0
  /\ agent' = 0
  /\ UNCHANGED <<resources, rec, pending, tunnels, ended, bounds, hookVars>>

\* The provider notices that a connection is dead.
TunnelEnds ==
  /\ \E t \in Tunnels \ (ended \cup {agent}) :
       /\ tunnels[t] \in {"opening", "open", "closing"}
       /\ ended' = ended \cup {t}
  /\ UNCHANGED <<resources, rec, pending, tunnels, agent, bounds, hookVars>>

\* handleTunnelEvent waits for RunHook, ...
SendEvent(t, connected) ==
  /\ t \notin ended
  /\ run = Waiting
  /\ run' = [step |-> "event", connected |-> connected]

TunnelOpens ==
  /\ \E t \in Tunnels :
       /\ tunnels[t] = "opening"
       /\ SendEvent(t, TRUE)
       /\ tunnels' = [tunnels EXCEPT ![t] = "open"]
  /\ UNCHANGED <<resources, rec, pending, boots, ended, agent, bounds>>

\* ... but once the context is done it gives up, and sends nothing when the tunnel is forgotten.
TunnelDies ==
  /\ \E t \in ended :
       /\ tunnels' = [tunnels EXCEPT ![t] = "closed"]
       /\ ended' = ended \ {t}
  /\ UNCHANGED <<resources, rec, pending, agent, bounds, hookVars>>

\* The agent closes it: it is forgotten before the event is sent.
TunnelUnregisters ==
  /\ \E t \in Tunnels \ (ended \cup {agent}) :
       /\ tunnels[t] = "open"
       /\ tunnels' = [tunnels EXCEPT ![t] = "closing"]
  /\ UNCHANGED <<resources, rec, pending, ended, agent, bounds, hookVars>>

TunnelCloses ==
  /\ \E t \in Tunnels :
       /\ tunnels[t] = "closing"
       /\ SendEvent(t, FALSE)
       /\ tunnels' = [tunnels EXCEPT ![t] = "closed"]
  /\ UNCHANGED <<resources, rec, pending, boots, ended, agent, bounds>>

\* Everything in memory is lost, the tunnels included; what is registered is reconciled again.
ProviderRestart ==
  /\ Mishap
  /\ rec' = "idle" /\ pending' = (im # Nil)
  /\ run' = Waiting /\ boots' = 0
  /\ tunnels' = [t \in Tunnels |-> IF tunnels[t] = "unused" THEN "unused" ELSE "closed"]
  /\ ended' = {} /\ agent' = 0
  /\ UNCHANGED <<resources, booted, registered>>

-----------------------------------------------------------------------------

Omni == Register \/ Teardown \/ Remove
Others == RebootHolds \/ RebootLetsGo
Controller == ReconcileRunning \/ ReconcileTearingDown \/ TeardownStatus \/ DestroyStatus \/ Release
Handle == PollSingle \/ WriteStatus \/ HandleAgentConnectionEvent \/ HandlePXEBootEvent
Machine == BootRequest \/ AgentConnects \/ AgentGoes
Tunnel == TunnelEnds \/ TunnelOpens \/ TunnelDies \/ TunnelUnregisters \/ TunnelCloses
Failures == ReconcileFail \/ RunFail \/ ProviderRestart

Next == Omni \/ Others \/ Controller \/ Handle \/ PollAll \/ ReceivePXEBootEvent
        \/ Machine \/ Tunnel \/ Failures

Spec == Init /\ [][Next]_vars

\* Controllers run while they have a reason to.  RunHook selects any of the channels that are
\* ready, so none is left out for ever, the ticker neither.  A dead connection is noticed by
\* the keep-alive of the server, and its tunnel forgotten.
Fairness ==
  /\ WF_vars(Controller) /\ WF_vars(RebootLetsGo) /\ WF_vars(Remove)
  /\ WF_vars(Handle) /\ WF_vars(PollAll)
  /\ SF_vars(ReceivePXEBootEvent)
  /\ WF_vars(TunnelEnds) /\ WF_vars(TunnelDies)

FairSpec == Spec /\ Fairness

-----------------------------------------------------------------------------
(* Properties. *)

\* Once the status is being torn down nothing written to it changes it, whatever poll or event
\* was under way (machine_status.go, pollSingle, handleAgentConnectionEvent,
\* handlePXEBootEvent).
TornDownStays ==
  [][status # Nil /\ status.phase = "tearingDown"
       => status' \in {Nil, status, [status EXCEPT !.held = FALSE]}]_vars

\* The status is there as long as the RebootStatusController needs it to tell whether to
\* reboot the machine on its removal (reconcileTearingDown; reboot_status.go, transform).
StatusOutlivesReboot == [][status # Nil /\ status' = Nil => ~status.held]_vars

\* Between the two controllers the finalizers are taken and released in turn, as they are in
\* Removal, where there is more of the one and less of the other.
Protocol == INSTANCE HeldOutput WITH
  Kinds <- {"MachineStatus"},
  registration <- IF im = Nil THEN "none" ELSE IF Running THEN "there" ELSE "leaving",
  holds <- im # Nil /\ "RebootStatus" \in im.finalizers,
  held <- IF status # Nil /\ status.held THEN {"MachineStatus"} ELSE {},
  there <- IF status # Nil THEN {"MachineStatus"} ELSE {},
  leaving <- IF status # Nil /\ status.phase = "tearingDown" THEN {"MachineStatus"} ELSE {}

\* A status that is torn down goes without a change, and only when nobody holds it, who has
\* held the machine as long.
TeardownIsOrderly == TornDownStays /\ StatusOutlivesReboot /\ Protocol!Spec

\* Why it does: nobody holds a status that is about to be destroyed.
DestroyInv ==
  rec = "destroy" => status # Nil /\ status.phase = "tearingDown" /\ ~status.held

StatusInv == TypeOK /\ DestroyInv

\* A machine being removed never waits for this controller in vain: while it is held for the
\* status, the controller is at work, has a reason to be, or waits in its turn for the reboot
\* on removal, whose end it will notice (reconcileTearingDown, and its inputs).
RemovalNeverStalls ==
  im # Nil /\ im.phase = "tearingDown" /\ "MachineStatus" \in im.finalizers
    => pending \/ rec # "idle" \/ "RebootStatus" \in im.finalizers

LinkInv == StatusInv /\ RemovalNeverStalls

\* A removal ends, whoever holds what when it begins (reconcileTearingDown).
RemovalCompletes == im # Nil /\ im.phase = "tearingDown" ~> im = Nil

\* A status that stays says in the end whether the agent is there, whatever order tunnels
\* opened and closed in, and which of their events were lost (pollSingle; agent/client.go,
\* handleTunnelEvent).
Exists == status # Nil /\ status.phase = "running"
StatusIsRight ==
  /\ <>[](Exists /\ agent # 0) => <>[](status # Nil /\ status.accessible)
  /\ <>[](Exists /\ agent = 0) => <>[](status # Nil /\ ~status.accessible)

\* A machine the provider has served a network boot gets a status (handlePXEBootEvent), if
\* nothing fails from then on, and the event of that boot, or of a later one, was not dropped.
Discovered ==
  boots > 0 /\ Running /\ mishaps = MaxMishaps ~> Exists \/ ~Running
=============================================================================
