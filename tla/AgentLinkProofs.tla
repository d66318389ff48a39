--------------------------- MODULE AgentLinkProofs ---------------------------
(***************************************************************************)
(* Proofs about AgentLink, for any number of tunnels, boots, registrations *)
(* and mishaps, and any length of the queue.                               *)
(***************************************************************************)
EXTENDS AgentLink, TLAPS

\* What a write makes of the status: nothing, once it is being torn down.
LEMMA ModifyIsTyped ==
  ASSUME status \in MachineStatus \cup {Nil},
         NEW new \in MachineStatus, new.phase = Found.phase, new.held = Found.held,
         Modify(new)
  PROVE  /\ status' \in MachineStatus
         /\ status # Nil => status'.phase = status.phase /\ status'.held = status.held
         /\ status = Nil => status'.phase = "running" /\ ~status'.held
         /\ status # Nil /\ status.phase = "tearingDown" => status' = status
BY NilIsNoResource DEF Modify, Found, NewStatus

\* What a write finds is a status.
LEMMA FoundIsTyped ==
  ASSUME status \in MachineStatus \cup {Nil}
  PROVE  Found \in MachineStatus /\ (status # Nil => Found = status)
BY DEF Found, NewStatus, MachineStatus

\* The three handlers that write: what they make of the status.
Handled ==
  /\ status' \in MachineStatus
  /\ status # Nil => status'.phase = status.phase /\ status'.held = status.held
  /\ status = Nil => status'.phase = "running" /\ ~status'.held
  /\ status # Nil /\ status.phase = "tearingDown" => status' = status

LEMMA WritesAreTyped ==
  ASSUME TypeOK, WriteStatus \/ HandleAgentConnectionEvent \/ HandlePXEBootEvent
  PROVE  Handled
<1>1. Found \in MachineStatus
  BY FoundIsTyped DEF TypeOK
<1>2. run.step = "write" => run.accessible \in BOOLEAN
  BY DEF TypeOK, Progress, Waiting
<1>3. run.step = "event" => run.connected \in BOOLEAN
  BY DEF TypeOK, Progress, Waiting
<1>4. CASE WriteStatus
  <2> DEFINE new == [Found EXCEPT !.accessible = run.accessible]
  <2>1. new \in MachineStatus /\ new.phase = Found.phase /\ new.held = Found.held
    BY <1>1, <1>2, <1>4 DEF MachineStatus, WriteStatus
  <2>2. Modify(new)
    BY <1>4 DEF WriteStatus
  <2> HIDE DEF new
  <2> QED BY <2>1, <2>2, ModifyIsTyped DEF Handled, TypeOK
<1>5. CASE HandleAgentConnectionEvent
  <2> DEFINE new == [Found EXCEPT !.accessible = run.connected]
  <2>1. new \in MachineStatus /\ new.phase = Found.phase /\ new.held = Found.held
    BY <1>1, <1>3, <1>5 DEF MachineStatus, HandleAgentConnectionEvent
  <2>2. Modify(new)
    BY <1>5 DEF HandleAgentConnectionEvent
  <2> HIDE DEF new
  <2> QED BY <2>1, <2>2, ModifyIsTyped DEF Handled, TypeOK
<1>6. CASE HandlePXEBootEvent
  <2> DEFINE new == [Found EXCEPT !.initialized = TRUE]
  <2>1. new \in MachineStatus /\ new.phase = Found.phase /\ new.held = Found.held
    BY <1>1 DEF MachineStatus
  <2>2. Modify(new)
    BY <1>6 DEF HandlePXEBootEvent
  <2> HIDE DEF new
  <2> QED BY <2>1, <2>2, ModifyIsTyped DEF Handled, TypeOK
<1> QED BY <1>4, <1>5, <1>6

-----------------------------------------------------------------------------
LEMMA InitInv == Init => StatusInv
<1> SUFFICES ASSUME Init PROVE StatusInv
  OBVIOUS
<1>1. \A n \in {PXEBuffer, MaxBoots, MaxRegistrations, MaxMishaps} : 0 \in 0..n
  BY LinkAssumption
<1>2. TypeOK
  BY <1>1 DEF Init, TypeOK, Progress, Waiting
<1> QED BY <1>2 DEF Init, StatusInv, DestroyInv

LEMMA TypeStep == StatusInv /\ [Next]_vars => TypeOK'
<1> SUFFICES ASSUME StatusInv, [Next]_vars PROVE TypeOK'
  OBVIOUS
<1> USE LinkAssumption DEF StatusInv, TypeOK, resources, hookVars, linkVars, bounds, Wake
<1>m. Mishap => mishaps' \in 0..MaxMishaps
  BY DEF Mishap
<1>w. Waiting \in Progress
  BY DEF Progress
<1>p. \A c \in BOOLEAN : /\ [step |-> "poll", connected |-> c] \in Progress
                         /\ [step |-> "event", connected |-> c] \in Progress
                         /\ [step |-> "write", accessible |-> c] \in Progress
  BY DEF Progress
<1>b. [step |-> "boot"] \in Progress
  BY DEF Progress
<1>1. CASE Omni
  <2>1. CASE Register
    <3>1. registered' \in 0..MaxRegistrations
      BY <2>1 DEF Register
    <3> QED BY <2>1, <3>1 DEF Register, InfraMachine
  <2>2. CASE Teardown
    BY <2>2 DEF Teardown, Running, InfraMachine
  <2>3. CASE Remove
    BY <2>3 DEF Remove
  <2> QED BY <1>1, <2>1, <2>2, <2>3 DEF Omni
<1>2. CASE RebootHolds
  BY <1>2 DEF RebootHolds, InfraMachine, MachineStatus
<1>3. CASE RebootLetsGo
  BY <1>3 DEF RebootLetsGo, InfraMachine, MachineStatus
<1>4. CASE Controller
  <2>1. CASE ReconcileTearingDown
    BY <2>1 DEF ReconcileTearingDown
  <2>2. CASE ReconcileRunning
    BY <2>2 DEF ReconcileRunning, Running, InfraMachine
  <2>3. CASE TeardownStatus
    BY <2>3 DEF TeardownStatus, MachineStatus
  <2>4. CASE DestroyStatus
    BY <2>4 DEF DestroyStatus
  <2>5. CASE Release
    <3>1. im' \in InfraMachine \cup {Nil}
      BY <2>5 DEF Release, InfraMachine
    <3>2. pending' \in BOOLEAN
      BY <2>5 DEF Release
    <3> QED BY <2>5, <3>1, <3>2 DEF Release
  <2> QED BY <1>4, <2>1, <2>2, <2>3, <2>4, <2>5 DEF Controller
<1>5. CASE PollSingle
  <2>1. run' \in Progress
    BY <1>5, <1>p DEF PollSingle, Pinged
  <2>2. mishaps' \in 0..MaxMishaps
    BY <1>5, <1>m DEF PollSingle
  <2> QED BY <1>5, <2>1, <2>2 DEF PollSingle
<1>6. CASE WriteStatus \/ HandleAgentConnectionEvent \/ HandlePXEBootEvent
  <2>1. status' \in MachineStatus
    BY <1>6, WritesAreTyped DEF Handled
  <2>2. run' \in Progress
    BY <1>6, <1>w, <1>p DEF WriteStatus, HandleAgentConnectionEvent, HandlePXEBootEvent
  <2> QED BY <1>6, <2>1, <2>2 DEF WriteStatus, HandleAgentConnectionEvent, HandlePXEBootEvent
<1>7. CASE PollAll
  BY <1>7, <1>p DEF PollAll
<1>8. CASE ReceivePXEBootEvent
  BY <1>8, <1>b DEF ReceivePXEBootEvent
<1>9. CASE Machine
  <2>1. CASE BootRequest
    <3>1. booted' \in 0..MaxBoots
      BY <2>1 DEF BootRequest
    <3>2. boots' \in 0..PXEBuffer
      BY <2>1 DEF BootRequest
    <3> QED BY <2>1, <3>1, <3>2 DEF BootRequest
  <2>2. CASE AgentConnects
    BY <2>2 DEF AgentConnects
  <2>3. CASE AgentGoes
    BY <2>3 DEF AgentGoes
  <2> QED BY <1>9, <2>1, <2>2, <2>3 DEF Machine
<1>10. CASE Tunnel
  <2>1. CASE TunnelEnds
    BY <2>1 DEF TunnelEnds
  <2>2. CASE TunnelOpens
    BY <2>2, <1>p DEF TunnelOpens, SendEvent
  <2>3. CASE TunnelDies
    BY <2>3 DEF TunnelDies
  <2>4. CASE TunnelUnregisters
    BY <2>4 DEF TunnelUnregisters
  <2>5. CASE TunnelCloses
    BY <2>5, <1>p DEF TunnelCloses, SendEvent
  <2> QED BY <1>10, <2>1, <2>2, <2>3, <2>4, <2>5 DEF Tunnel
<1>11. CASE Failures
  <2>1. CASE ReconcileFail
    BY <2>1, <1>m DEF ReconcileFail
  <2>2. CASE RunFail
    BY <2>2, <1>m, <1>w DEF RunFail
  <2>3. CASE ProviderRestart
    BY <2>3, <1>m, <1>w DEF ProviderRestart
  <2> QED BY <1>11, <2>1, <2>2, <2>3 DEF Failures
<1>12. CASE UNCHANGED vars
  BY <1>12 DEF vars
<1> QED BY <1>1, <1>2, <1>3, <1>4, <1>5, <1>6, <1>7, <1>8, <1>9, <1>10, <1>11, <1>12
        DEF Next, Others, Handle

\* What a step can make of the status, and whether it starts or ends its destruction.
StatusStep ==
  \/ UNCHANGED <<status, rec>>
  \/ UNCHANGED status /\ rec # "destroy" /\ rec' # "destroy"
  \/ UNCHANGED status /\ rec' = "idle"
  \/ Handled /\ UNCHANGED rec
  \/ RebootHolds \/ RebootLetsGo \/ TeardownStatus \/ DestroyStatus

LEMMA StepsOfStatus == StatusInv /\ [Next]_vars => StatusStep
<1> SUFFICES ASSUME StatusInv, [Next]_vars PROVE StatusStep
  OBVIOUS
<1> USE DEF StatusStep, resources
<1>1. CASE Omni \/ PollAll \/ ReceivePXEBootEvent \/ Machine \/ Tunnel \/ PollSingle
  BY <1>1 DEF Omni, Register, Teardown, Remove, PollAll, ReceivePXEBootEvent, Machine,
     BootRequest, AgentConnects, AgentGoes, Tunnel, TunnelEnds, TunnelOpens, TunnelDies,
     TunnelUnregisters, TunnelCloses, PollSingle
<1>2. CASE ReconcileRunning \/ ReconcileTearingDown \/ Release
  BY <1>2 DEF ReconcileRunning, ReconcileTearingDown, Release
<1>3. CASE Failures
  BY <1>3 DEF Failures, ReconcileFail, RunFail, ProviderRestart
<1>4. CASE WriteStatus \/ HandleAgentConnectionEvent \/ HandlePXEBootEvent
  <2>1. Handled
    BY <1>4, WritesAreTyped DEF StatusInv
  <2> QED BY <1>4, <2>1 DEF WriteStatus, HandleAgentConnectionEvent, HandlePXEBootEvent
<1>5. CASE UNCHANGED vars
  BY <1>5 DEF vars
<1> QED BY <1>1, <1>2, <1>3, <1>4, <1>5 DEF Next, Others, Controller, Handle

LEMMA DestroyStep == StatusInv /\ [Next]_vars => DestroyInv'
<1> SUFFICES ASSUME StatusInv, [Next]_vars PROVE DestroyInv'
  OBVIOUS
<1>1. StatusStep
  BY StepsOfStatus
<1> USE NilIsNoResource DEF StatusInv, DestroyInv, TypeOK, MachineStatus
<1>2. CASE Handled /\ UNCHANGED rec
  BY <1>2 DEF Handled
<1>3. CASE RebootHolds
  BY <1>3 DEF RebootHolds
<1>4. CASE RebootLetsGo
  BY <1>4 DEF RebootLetsGo
<1>5. CASE TeardownStatus
  BY <1>5 DEF TeardownStatus
<1>6. CASE DestroyStatus
  BY <1>6 DEF DestroyStatus
<1> QED BY <1>1, <1>2, <1>3, <1>4, <1>5, <1>6 DEF StatusStep

-----------------------------------------------------------------------------
\* StatusInv is an invariant: nobody holds a status that is about to be destroyed.
THEOREM StatusInvariance == Spec => []StatusInv
<1>1. Init => StatusInv
  BY InitInv
<1>2. StatusInv /\ [Next]_vars => StatusInv'
  BY TypeStep, DestroyStep DEF StatusInv
<1> QED BY <1>1, <1>2, PTL DEF Spec

\* No poll or event changes a status that is being torn down, however late it comes.
THEOREM NothingIsResurrected == Spec => TornDownStays
<1> DEFINE Stays == status # Nil /\ status.phase = "tearingDown"
                      => status' \in {Nil, status, [status EXCEPT !.held = FALSE]}
<1>1. StatusInv /\ [Next]_vars => [Stays]_vars
  <2> SUFFICES ASSUME StatusInv, [Next]_vars, status # Nil, status.phase = "tearingDown"
               PROVE  status' \in {Nil, status, [status EXCEPT !.held = FALSE]}
    OBVIOUS
  <2>1. StatusStep
    BY StepsOfStatus
  <2>2. [status EXCEPT !.phase = "tearingDown"] = status
    BY DEF StatusInv, TypeOK, MachineStatus
  <2> QED BY <2>1, <2>2 DEF StatusStep, Handled, RebootHolds, RebootLetsGo, TeardownStatus, DestroyStatus
<1> QED BY <1>1, StatusInvariance, PTL DEF Spec, TornDownStays

\* A status is only destroyed once the RebootStatusController does not hold it.
THEOREM HeldIsKept == Spec => StatusOutlivesReboot
<1> DEFINE Kept == status # Nil /\ status' = Nil => ~status.held
<1>1. StatusInv /\ [Next]_vars => [Kept]_vars
  <2> SUFFICES ASSUME StatusInv, [Next]_vars, status # Nil, status' = Nil PROVE ~status.held
    OBVIOUS
  <2>1. StatusStep /\ TypeOK'
    BY StepsOfStatus, TypeStep
  <2>2. DestroyStatus
    BY <2>1, NilIsNoResource DEF StatusStep, Handled, RebootHolds, RebootLetsGo, TeardownStatus,
       StatusInv, TypeOK, MachineStatus
  <2> QED BY <2>2 DEF DestroyStatus, StatusInv, DestroyInv
<1> QED BY <1>1, StatusInvariance, PTL DEF Spec, StatusOutlivesReboot

-----------------------------------------------------------------------------
(* A removal never stalls.  Who waits for the reboot on removal waits for a finalizer of the  *)
(* infra.Machine, whose going is a change of an input: the status is only held along with it. *)
HeldInv == status # Nil /\ status.held => im # Nil /\ "RebootStatus" \in im.finalizers

LEMMA HeldStep == StatusInv /\ HeldInv /\ [Next]_vars => HeldInv'
<1> SUFFICES ASSUME StatusInv, HeldInv, [Next]_vars PROVE HeldInv'
  OBVIOUS
<1> USE NilIsNoResource DEF HeldInv, StatusInv, TypeOK, InfraMachine, MachineStatus, resources
<1>1. CASE Omni
  BY <1>1 DEF Omni, Register, Teardown, Remove, Running
<1>2. CASE Others
  BY <1>2 DEF Others, RebootHolds, RebootLetsGo
<1>3. CASE Controller
  <2>1. CASE ReconcileRunning \/ ReconcileTearingDown
    BY <2>1 DEF ReconcileRunning, ReconcileTearingDown, Running
  <2>2. CASE TeardownStatus \/ DestroyStatus \/ Release
    BY <2>2 DEF TeardownStatus, DestroyStatus, Release
  <2> QED BY <1>3, <2>1, <2>2 DEF Controller
<1>4. CASE Handle
  <2>1. CASE PollSingle
    BY <2>1 DEF PollSingle
  <2>2. CASE WriteStatus \/ HandleAgentConnectionEvent \/ HandlePXEBootEvent
    <3>1. UNCHANGED im
      BY <2>2 DEF WriteStatus, HandleAgentConnectionEvent, HandlePXEBootEvent
    \* A status that is created is held by nobody.
    <3>2. status = Nil => status' = Nil \/ ~status'.held
      <4> SUFFICES ASSUME status = Nil PROVE status' = Nil \/ ~status'.held
        OBVIOUS
      <4> QED BY <2>2 DEF WriteStatus, HandleAgentConnectionEvent, HandlePXEBootEvent, Modify, Found, NewStatus
    <3>3. status # Nil => status'.held = status.held
      BY <2>2, WritesAreTyped DEF Handled
    <3> QED BY <3>1, <3>2, <3>3
  <2> QED BY <1>4, <2>1, <2>2 DEF Handle
<1>5. CASE PollAll \/ ReceivePXEBootEvent \/ Machine \/ Tunnel
  BY <1>5 DEF PollAll, ReceivePXEBootEvent, Machine, BootRequest, AgentConnects, AgentGoes, Tunnel,
     TunnelEnds, TunnelOpens, TunnelDies, TunnelUnregisters, TunnelCloses
<1>6. CASE Failures
  BY <1>6 DEF Failures, ReconcileFail, RunFail, ProviderRestart
<1>7. CASE UNCHANGED vars
  BY <1>7 DEF vars
<1> QED BY <1>1, <1>2, <1>3, <1>4, <1>5, <1>6, <1>7 DEF Next

LEMMA AwakeStep == StatusInv /\ HeldInv /\ RemovalNeverStalls /\ [Next]_vars => RemovalNeverStalls'
<1> SUFFICES ASSUME StatusInv, HeldInv, RemovalNeverStalls, [Next]_vars PROVE RemovalNeverStalls'
  OBVIOUS
<1> USE NilIsNoResource DEF RemovalNeverStalls, StatusInv, TypeOK, InfraMachine, resources, Wake
<1>1. CASE Omni \/ Others
  BY <1>1 DEF Omni, Register, Teardown, Remove, Others, RebootHolds, RebootLetsGo
<1>2. CASE Controller
  <2>1. CASE ReconcileRunning \/ ReconcileTearingDown
    BY <2>1 DEF ReconcileRunning, ReconcileTearingDown, Running
  \* It stops short of the release only for a status that is held.
  <2>2. CASE TeardownStatus
    BY <2>2 DEF TeardownStatus, HeldInv
  <2>3. CASE DestroyStatus \/ Release
    BY <2>3 DEF DestroyStatus, Release
  <2> QED BY <1>2, <2>1, <2>2, <2>3 DEF Controller
<1>3. CASE Handle \/ PollAll \/ ReceivePXEBootEvent \/ Machine \/ Tunnel
  BY <1>3 DEF Handle, PollSingle, WriteStatus, HandleAgentConnectionEvent, HandlePXEBootEvent, PollAll,
     ReceivePXEBootEvent, Machine, BootRequest, AgentConnects, AgentGoes, Tunnel, TunnelEnds,
     TunnelOpens, TunnelDies, TunnelUnregisters, TunnelCloses
<1>4. CASE Failures
  BY <1>4 DEF Failures, ReconcileFail, RunFail, ProviderRestart
<1>5. CASE UNCHANGED vars
  BY <1>5 DEF vars
<1> QED BY <1>1, <1>2, <1>3, <1>4, <1>5 DEF Next

\* A machine being removed is never left waiting for this controller: the safety half of
\* RemovalCompletes.
THEOREM NoRemovalStalls == Spec => [](HeldInv /\ RemovalNeverStalls)
<1>1. Init => HeldInv /\ RemovalNeverStalls
  BY DEF Init, HeldInv, RemovalNeverStalls
<1> QED BY <1>1, HeldStep, AwakeStep, StatusInvariance, PTL DEF Spec

\* Nobody holds a status that is about to be destroyed, and no removal waits in vain.
THEOREM LinkInvariance == Spec => []LinkInv
<1>1. StatusInv /\ RemovalNeverStalls => LinkInv
  BY DEF LinkInv
<1> QED BY <1>1, StatusInvariance, NoRemovalStalls, PTL

-----------------------------------------------------------------------------
(* The two controllers keep to HeldOutput. *)

\* All but the steps of the three that matter leave everything of it as it is.
LEMMA ProtocolStep == StatusInv /\ [Next]_vars => [Protocol!Next]_(Protocol!vars)
<1> SUFFICES ASSUME StatusInv, [Next]_vars
             PROVE  Protocol!Next \/ UNCHANGED Protocol!vars
  OBVIOUS
<1> USE NilIsNoResource DEF StatusInv, TypeOK, InfraMachine, MachineStatus, Running, resources
<1>1. CASE Register
  BY <1>1 DEF Register, Protocol!Next, Protocol!Register
<1>2. CASE Teardown
  BY <1>2 DEF Teardown, Protocol!Next, Protocol!Leave
<1>3. CASE Remove
  BY <1>3 DEF Remove, Protocol!Next, Protocol!Gone
<1>4. CASE RebootHolds
  <2>1. /\ im' # Nil /\ im'.phase = im.phase /\ "RebootStatus" \in im'.finalizers
        /\ im # Nil /\ (im.phase = "running" \/ "RebootStatus" \in im.finalizers)
    BY <1>4 DEF RebootHolds
  <2>2. /\ status' # Nil <=> status # Nil
        /\ status # Nil => status'.phase = status.phase /\ (status.held => status'.held)
        /\ status # Nil /\ status'.held => status.held \/ status.phase = "running"
    BY <1>4 DEF RebootHolds
  <2> QED BY <2>1, <2>2 DEF Protocol!Next, Protocol!Hold
<1>5. CASE RebootLetsGo
  <2>1. /\ im # Nil /\ im.phase = "tearingDown"
        /\ im' # Nil /\ im'.phase = "tearingDown" /\ "RebootStatus" \notin im'.finalizers
    BY <1>5 DEF RebootLetsGo
  <2>2. /\ status' # Nil <=> status # Nil
        /\ status # Nil => status'.phase = status.phase /\ ~status'.held
    BY <1>5 DEF RebootLetsGo
  <2>3. (im # Nil /\ "RebootStatus" \in im.finalizers)' = FALSE
    BY <2>1
  <2>4. (IF status # Nil /\ status.held THEN {"MachineStatus"} ELSE {})' = {}
    BY <2>2
  <2> QED BY <2>1, <2>2, <2>3, <2>4 DEF Protocol!Next, Protocol!LetGo
<1>6. CASE ReconcileRunning \/ Release
  <2>1. /\ status' = status
        /\ im' = Nil <=> im = Nil
        /\ im # Nil => /\ im'.phase = im.phase
                       /\ "RebootStatus" \in im'.finalizers <=> "RebootStatus" \in im.finalizers
    BY <1>6 DEF ReconcileRunning, Release
  <2>2. UNCHANGED <<IF im = Nil THEN "none" ELSE IF Running THEN "there" ELSE "leaving",
                    im # Nil /\ "RebootStatus" \in im.finalizers>>
    BY <2>1
  <2> QED BY <2>1, <2>2 DEF Protocol!vars
<1>7. CASE TeardownStatus
  <2>1. CASE status = Nil \/ status.phase = "tearingDown"
    BY <1>7, <2>1 DEF TeardownStatus, Protocol!vars
  <2>2. CASE status # Nil /\ status.phase = "running"
    BY <1>7, <2>2 DEF TeardownStatus, Protocol!Next, Protocol!TearDown
  <2> QED BY <2>1, <2>2
<1>8. CASE DestroyStatus
  BY <1>8 DEF DestroyStatus, DestroyInv, Protocol!Next, Protocol!Destroy
<1>9. CASE WriteStatus \/ HandleAgentConnectionEvent \/ HandlePXEBootEvent
  <2>1. Handled /\ im' = im
    BY <1>9, WritesAreTyped DEF WriteStatus, HandleAgentConnectionEvent, HandlePXEBootEvent
  <2>2. CASE status = Nil
    BY <2>1, <2>2 DEF Handled, Protocol!Next, Protocol!Create
  <2>3. CASE status # Nil
    BY <2>1, <2>3 DEF Handled, Protocol!vars
  <2> QED BY <2>2, <2>3
<1>10. CASE UNCHANGED resources
  BY <1>10 DEF Protocol!vars
<1>11. CASE ReconcileTearingDown \/ PollSingle \/ PollAll \/ ReceivePXEBootEvent \/ Machine \/ Tunnel
            \/ Failures \/ UNCHANGED vars
  BY <1>10, <1>11 DEF ReconcileTearingDown, PollSingle, PollAll, ReceivePXEBootEvent, Machine,
     BootRequest, AgentConnects, AgentGoes, Tunnel, TunnelEnds, TunnelOpens, TunnelDies,
     TunnelUnregisters, TunnelCloses, Failures, ReconcileFail, RunFail, ProviderRestart, vars
<1> QED BY <1>1, <1>2, <1>3, <1>4, <1>5, <1>6, <1>7, <1>8, <1>9, <1>11
        DEF Next, Omni, Others, Controller, Handle

\* The finalizers of the infra.Machine and of the status are taken and released as HeldOutput
\* says, whatever RunHook and the reconcile do to the status (reconcileTearingDown;
\* reboot_status.go, transform and finalizerRemoval).
THEOREM HoldsInTurn == Spec => Protocol!Spec
<1>1. Init => Protocol!Init
  BY DEF Init, Protocol!Init
<1> QED BY <1>1, ProtocolStep, StatusInvariance, PTL DEF Spec, Protocol!Spec

\* What is torn down stays as it is until nobody holds it, and then goes.
THEOREM StatusIsTornDownOnce == Spec => TeardownIsOrderly
BY NothingIsResurrected, HeldIsKept, HoldsInTurn DEF TeardownIsOrderly

\* All of it holds of the specification with fairness, which the run checks.
THEOREM FairIsSafe ==
  FairSpec => []LinkInv /\ TeardownIsOrderly
<1>1. FairSpec => Spec
  BY PTL DEF FairSpec
<1> QED BY <1>1, LinkInvariance, StatusIsTornDownOnce
=============================================================================
