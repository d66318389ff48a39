--------------------------- MODULE LifecycleProofs ---------------------------
(***************************************************************************)
(* Proofs about Lifecycle, for any bounds and either boot option.          *)
(***************************************************************************)
EXTENDS Lifecycle, TLAPS

\* A machine that has been wiped for the tenancy in force is not due for a
\* wipe, and one whose WipeId has moved on since is.
LEMMA WipeDueIffTenancyMoved ==
  ASSUME NEW m \in InfraMachine, NEW w \in WipeStatus, w.initialWipeDone
  PROVE  RequiresWipe(m, w) <=> m.wipeId # w.lastWipeId
BY NilIsNoResource DEF RequiresWipe, InfraMachine, WipeStatus

LEMMA TypeStep == TypeOK /\ WipeInv /\ [Next]_vars => TypeOK'
<1> SUFFICES ASSUME TypeOK, WipeInv, [Next]_vars PROVE TypeOK'
  OBVIOUS
<1> USE DEF TypeOK, omniVars, wipeVars, machineVars
<1>1. CASE Omni
  <2> USE DEF OmniWrites, Running
  <2>1. im' \in InfraMachine \cup {Nil}
    <3>1. CASE Register
      BY <3>1, 0 \in Nat, Zenon DEF Register, InfraMachine
    <3>2. CASE Accept \/ Cordon \/ Teardown
      BY <3>2 DEF Accept, Cordon, Teardown, InfraMachine
    <3>3. CASE Allocate
      BY <3>3, im \in InfraMachine, Zenon DEF Allocate, InfraMachine
    <3>4. CASE Deallocate
      <4>1. im \in InfraMachine /\ im.wipeId + 1 \in Nat
        BY <3>4 DEF Deallocate, InfraMachine
      <4> QED BY <3>4, <4>1, Zenon DEF Deallocate, InfraMachine
    <3>5. CASE ObserveInstall
      <4>1. im \in InfraMachine /\ im.installEventId + 1 \in Nat
        BY <3>5 DEF ObserveInstall, InfraMachine
      <4> QED BY <3>5, <4>1, Zenon DEF ObserveInstall, InfraMachine
    <3>6. CASE Remove
      BY <3>6 DEF Remove
    <3> QED BY <1>1, <3>1, <3>2, <3>3, <3>4, <3>5, <3>6 DEF Omni
  <2> QED BY <1>1, <2>1 DEF Omni, Register, Accept, Cordon, Allocate, Deallocate,
                           ObserveInstall, Teardown, Remove
<1>2. CASE Controllers
  <2>1. CASE UpdateMachineStatus \/ ConfigureBMC \/ TeardownBMC
    BY <2>1 DEF UpdateMachineStatus, ConfigureBMC, TeardownBMC
  <2>2. CASE WipeReconcile \/ WipeDisks \/ WipeSkip \/ WipeFail
    <3>1. wipe' \in WipeProgress
      BY <2>2 DEF WipeReconcile, WipeDisks, WipeSkip, WipeFail, Running, InfraMachine,
                  WipeSnapshot, WipeProgress, IdleWipe
    <3> QED BY <2>2, <3>1 DEF WipeReconcile, WipeDisks, WipeSkip, WipeFail
  <2>3. CASE WipeCommit
    <3>1. wipe.im \in WipeSnapshot
      BY <2>3 DEF WipeCommit, WipeInv, WipeProgress
    <3>2. ws' \in WipeStatus
      BY <2>3, <3>1, Zenon DEF WipeCommit, WipeStatus, WipeSnapshot
    <3>3. wipe' \in WipeProgress
      BY <2>3 DEF WipeCommit, IdleWipe, WipeProgress
    <3> QED BY <2>3, <3>2, <3>3 DEF WipeCommit
  <2>4. CASE TeardownWipeStatus \/ TeardownStatus
    BY <2>4 DEF TeardownWipeStatus, TeardownStatus
  <2>5. CASE StatusReconcile
    BY <2>5 DEF StatusReconcile, Running, InfraMachine, ReportSnapshot
  <2>6. CASE StatusCommit
    BY <2>6 DEF StatusCommit, InfraMachineStatus, ReportSnapshot, RequiresWipe
  <2> QED BY <1>2, <2>1, <2>2, <2>3, <2>4, <2>5, <2>6 DEF Controllers
<1>3. CASE Handler
  <2>1. request' \in RequestProgress
    <3>1. CASE BootRequest
      BY <3>1, Zenon DEF BootRequest, NoRequest, RequestProgress
    <3>2. CASE ReadBMCConfiguration
      BY <3>2, Zenon DEF ReadBMCConfiguration, RequestProgress
    <3>3. CASE MakeBootDecision
      <4>1. PICK a \in BootDecision(request.im, request.bmc, ws) :
              request' = [request EXCEPT !.step = "decided", !.answer = a]
        BY <3>3, Zenon DEF MakeBootDecision
      <4>2. a \in BootModes \cup {"error", Nil}
        BY <4>1 DEF BootDecision, RequiredBootMode, BootModes
      <4> QED BY <4>1, <4>2, Zenon DEF RequestProgress
    <3> QED BY <1>3, <3>1, <3>2, <3>3 DEF Handler
  <2> QED BY <1>3, <2>1 DEF Handler, BootRequest, ReadBMCConfiguration, MakeBootDecision
<1>4. CASE Machine
  <2>1. CASE AgentErases
    BY <2>1 DEF AgentErases
  <2>2. CASE AgentFinishes
    <3>1. wipe' \in WipeProgress
      BY <2>2 DEF AgentFinishes, WipeProgress
    <3> QED BY <2>2, <3>1 DEF AgentFinishes
  <2>3. CASE AnswerDelivered \/ Reset
    <3>1. request' \in RequestProgress
      BY <2>3 DEF AnswerDelivered, Reset, NoRequest, RequestProgress
    <3> QED BY <2>3, <3>1 DEF AnswerDelivered, Reset, DiskBoot
  <2>4. CASE TalosWrites \/ TalosReportsInstall
    BY <2>4 DEF TalosWrites, TalosReportsInstall, InfraMachine
  <2> QED BY <1>4, <2>1, <2>2, <2>3, <2>4 DEF Machine
<1>5. CASE ProviderRestart
  <2>1. wipe' \in WipeProgress /\ request' \in RequestProgress
    BY <1>5 DEF ProviderRestart, IdleWipe, NoRequest, WipeProgress, RequestProgress
  <2> QED BY <1>5, <2>1 DEF ProviderRestart
<1>6. CASE UNCHANGED vars
  BY <1>6 DEF vars
<1> QED BY <1>1, <1>2, <1>3, <1>4, <1>5, <1>6 DEF Next

-----------------------------------------------------------------------------
(* What a step does to the two things every claim about the disk rests on. *)

\* While a machine stays registered its WipeId never goes back, and nobody but
\* Omni changes it.
LEMMA WipeIdStep ==
  ASSUME TypeOK, [Next]_vars, im # Nil, im' # Nil
  PROVE  im.wipeId <= im'.wipeId
<1> USE DEF TypeOK, InfraMachine, OmniWrites, Running
<1>1. CASE im' = im
  BY <1>1
<1>2. CASE Deallocate
  BY <1>2 DEF Deallocate
<1>3. CASE Omni /\ ~Deallocate
  <2>1. im \in InfraMachine
    OBVIOUS
  <2>2. im'.wipeId = im.wipeId
    BY <1>3, <2>1, Zenon DEF Omni, Register, Accept, Cordon, Allocate, ObserveInstall,
                             Teardown, Remove
  <2> QED BY <2>1, <2>2
<1> QED BY <1>1, <1>2, <1>3 DEF Next, Controllers, UpdateMachineStatus, ConfigureBMC, TeardownBMC,
           WipeReconcile, WipeDisks, WipeSkip, WipeFail, WipeCommit, TeardownWipeStatus,
           StatusReconcile, StatusCommit, TeardownStatus, Handler, BootRequest,
           ReadBMCConfiguration, MakeBootDecision, Machine, AgentErases, AgentFinishes,
           AnswerDelivered, Reset, TalosWrites, TalosReportsInstall, ProviderRestart,
           vars, omniVars

\* The disk loses data, or gains the tag of the tenancy in force, or stays.
LEMMA DiskStep ==
  ASSUME TypeOK, [Next]_vars
  PROVE  \/ disk' \subseteq disk
         \/ im # Nil /\ im' = im /\ disk' = disk \cup {im.wipeId}
<1>1. CASE Omni
  BY <1>1 DEF Omni, Register, Accept, Cordon, Allocate, Deallocate, ObserveInstall,
              Teardown, Remove, OmniWrites, machineVars
<1>2. CASE Controllers
  BY <1>2 DEF Controllers, UpdateMachineStatus, ConfigureBMC, TeardownBMC,
              WipeReconcile, WipeDisks, WipeSkip, WipeFail, WipeCommit, TeardownWipeStatus,
              StatusReconcile, StatusCommit, TeardownStatus, machineVars
<1>3. CASE Handler \/ ProviderRestart
  BY <1>3 DEF Handler, BootRequest, ReadBMCConfiguration, MakeBootDecision,
              ProviderRestart, machineVars
<1>4. CASE Machine
  BY <1>4 DEF Machine, AgentErases, AgentFinishes, AnswerDelivered, Reset, TalosWrites,
              TalosReportsInstall, machineVars, omniVars
<1>5. CASE UNCHANGED vars
  BY <1>5 DEF vars
<1> QED BY <1>1, <1>2, <1>3, <1>4, <1>5 DEF Next

\* A disk known to hold nothing older than tenancy t stays so while the machine
\* is registered.
LEMMA SinceTenancyStep ==
  ASSUME TypeOK, TypeOK', [Next]_vars, im' # Nil, NEW t \in Nat, SinceTenancy(t)
  PROVE  SinceTenancy(t)'
<1>1. im # Nil /\ im \in InfraMachine /\ im' \in InfraMachine
  BY DEF TypeOK, SinceTenancy
<1>2. im.wipeId \in Nat /\ im'.wipeId \in Nat /\ im.wipeId <= im'.wipeId
  BY <1>1, WipeIdStep DEF InfraMachine
<1>3. disk \subseteq Int /\ disk' \subseteq Int
  BY DEF TypeOK, Factory
<1>4. CASE disk' \subseteq disk
  BY <1>1, <1>2, <1>3, <1>4 DEF SinceTenancy
<1>5. CASE im' = im /\ disk' = disk \cup {im.wipeId}
  BY <1>1, <1>2, <1>3, <1>5 DEF SinceTenancy
<1> QED BY DiskStep, <1>4, <1>5
\* Which actions touch what.
LEMMA Frames ==
  ASSUME [Next]_vars
  PROVE  /\ ws' = ws \/ WipeCommit \/ TeardownWipeStatus
         /\ wipe' = wipe \/ WipeReconcile \/ WipeDisks \/ WipeSkip \/ WipeFail
              \/ WipeCommit \/ AgentFinishes \/ ProviderRestart
         /\ jobs' = jobs \/ WipeDisks \/ WipeFail \/ AgentFinishes \/ Reset
              \/ ProviderRestart
         /\ mode' = mode \/ AnswerDelivered \/ Reset
         /\ disk' = disk \/ AgentErases \/ AgentFinishes \/ TalosWrites
         /\ ims' = ims \/ StatusCommit \/ TeardownStatus
         /\ report' = report \/ StatusReconcile \/ StatusCommit \/ ProviderRestart
         /\ request' = request \/ BootRequest \/ ReadBMCConfiguration \/ MakeBootDecision
              \/ AnswerDelivered \/ Reset \/ ProviderRestart
         /\ im' = im \/ Omni
         /\ bmc' = bmc \/ ConfigureBMC \/ TeardownBMC
<1> USE DEF omniVars, wipeVars, machineVars
<1>1. CASE Omni
  BY <1>1 DEF Omni, Register, Accept, Cordon, Allocate, Deallocate, ObserveInstall,
              Teardown, Remove, OmniWrites
<1>2. CASE Controllers
  BY <1>2 DEF Controllers, UpdateMachineStatus, ConfigureBMC, TeardownBMC,
              WipeReconcile, WipeDisks, WipeSkip, WipeFail, WipeCommit, TeardownWipeStatus,
              StatusReconcile, StatusCommit, TeardownStatus
<1>3. CASE Handler
  BY <1>3 DEF Handler, BootRequest, ReadBMCConfiguration, MakeBootDecision
<1>4. CASE Machine
  BY <1>4 DEF Machine, AgentErases, AgentFinishes, AnswerDelivered, Reset, TalosWrites,
              TalosReportsInstall
<1>5. CASE ProviderRestart
  BY <1>5 DEF ProviderRestart
<1>6. CASE UNCHANGED vars
  BY <1>6 DEF vars
<1> QED BY <1>1, <1>2, <1>3, <1>4, <1>5, <1>6 DEF Next
\* The machine is forgotten only by Remove, which waits for every output to go.
LEMMA ForgottenOnlyByRemove ==
  ASSUME TypeOK, [Next]_vars, im # Nil, im' = Nil
  PROVE  Remove
<1>1. Omni
  BY Frames
<1>2. im \in InfraMachine
  BY DEF TypeOK
<1>3. ASSUME ~Remove PROVE FALSE
  <2>1. im' \in InfraMachine
    <3>1. CASE Accept \/ Cordon \/ Teardown
      BY <1>2, <3>1 DEF Accept, Cordon, Teardown, OmniWrites, InfraMachine
    <3>2. CASE Allocate
      BY <3>2, <1>2, Zenon DEF Allocate, OmniWrites, InfraMachine
    <3>3. CASE Deallocate
      <4>1. im.wipeId + 1 \in Nat
        BY <1>2 DEF InfraMachine
      <4> QED BY <3>3, <1>2, <4>1, Zenon DEF Deallocate, OmniWrites, InfraMachine
    <3>4. CASE ObserveInstall
      <4>1. im.installEventId + 1 \in Nat
        BY <1>2 DEF InfraMachine
      <4> QED BY <3>4, <1>2, <4>1, Zenon DEF ObserveInstall, InfraMachine
    <3> QED BY <1>1, <1>3, <3>1, <3>2, <3>3, <3>4 DEF Omni, Register
  <2> QED BY <2>1, NilIsNoResource
<1> QED BY <1>3
-----------------------------------------------------------------------------
(* Each conjunct of LifecycleInv is preserved. *)

\* The certificate: a wipe is recorded only over a disk clean for the tenancy
\* the reconcile read, and it outlives later tenancies but not the registration.
LEMMA CertificateStep ==
  ASSUME LifecycleInv, TypeOK', [Next]_vars
  PROVE  CertificateInv'
<1> USE DEF LifecycleInv
<1>1. CASE WipeCommit
  <2>1. SinceTenancy(wipe.im.wipeId) /\ ws'.lastWipeId = wipe.im.wipeId
    BY <1>1 DEF WipeCommit, WipeInv
  <2>2. im' = im /\ disk' = disk
    BY <1>1 DEF WipeCommit, omniVars, machineVars
  <2> QED BY <2>1, <2>2 DEF CertificateInv, SinceTenancy
<1>2. CASE TeardownWipeStatus
  BY <1>2 DEF TeardownWipeStatus, CertificateInv, Certified
<1>3. CASE ws' = ws
  <2> SUFFICES ASSUME Certified PROVE SinceTenancy(ws.lastWipeId)'
    BY <1>3 DEF CertificateInv, Certified
  <2>1. ws.lastWipeId \in Nat /\ SinceTenancy(ws.lastWipeId)
    BY DEF Certified, CertificateInv, TypeOK, WipeStatus
  <2>2. im' # Nil
    BY <2>1, ForgottenOnlyByRemove DEF SinceTenancy, Remove, Certified
  <2>3. PICK t \in Nat : t = ws.lastWipeId
    BY <2>1
  <2>4. SinceTenancy(t)'
    BY <2>1, <2>2, <2>3, SinceTenancyStep
  <2> QED BY <2>3, <2>4, <1>3 DEF SinceTenancy
<1> QED BY <1>1, <1>2, <1>3, Frames

\* The wipe in flight: what it read is no newer than the machine and no older
\* than the certificate, and once it is done the disk is clean for it.
LEMMA WipeStep ==
  ASSUME LifecycleInv, TypeOK', [Next]_vars
  PROVE  WipeInv'
<1> USE DEF LifecycleInv
<1>1. CASE wipe' = wipe
  <2>1. CASE wipe.step = "idle"
    BY <1>1, <2>1 DEF WipeInv
  <2>2. CASE wipe.step # "idle"
    <3>1. wipe.im \in WipeSnapshot /\ wipe.im.wipeId \in Nat /\ im # Nil
      BY <2>2 DEF WipeInv, TypeOK, WipeProgress, WipeSnapshot
    <3>2. im' # Nil
      BY <3>1, <2>2, ForgottenOnlyByRemove DEF Remove, IdleWipe
    <3>3. im.wipeId \in Nat /\ im'.wipeId \in Nat /\ im.wipeId <= im'.wipeId
      BY <3>1, <3>2, WipeIdStep DEF TypeOK, InfraMachine
    <3>4. wipe.im.wipeId <= im'.wipeId
      BY <3>1, <3>3, <2>2 DEF WipeInv
    <3>5. ws' = ws
      BY <1>1, <2>2, Frames DEF WipeCommit, TeardownWipeStatus, IdleWipe
    <3>6. wipe.step = "done" => SinceTenancy(wipe.im.wipeId)'
      <4>1. PICK t \in Nat : t = wipe.im.wipeId
        BY <3>1
      <4>2. wipe.step = "done" => SinceTenancy(t)'
        BY <4>1, <3>2, SinceTenancyStep DEF WipeInv
      <4> QED BY <4>1, <4>2, <1>1 DEF SinceTenancy
    <3> QED BY <1>1, <2>2, <3>2, <3>4, <3>5, <3>6 DEF WipeInv, Certified, RequiresWipe
  <2> QED BY <2>1, <2>2
<1>2. CASE WipeReconcile
  <2>1. im \in InfraMachine /\ im' = im /\ ws' = ws
    BY <1>2 DEF WipeReconcile, Running, TypeOK, omniVars
  <2>2. wipe'.step = "read" /\ wipe'.im \in WipeSnapshot /\ wipe'.im.wipeId = im.wipeId
    BY <1>2, <2>1 DEF WipeReconcile, WipeSnapshot, InfraMachine
  <2>3. Certified => ws.lastWipeId <= im.wipeId
    BY DEF CertificateInv, SinceTenancy
  <2>4. im # Nil /\ wipe'.im # Nil /\ im.wipeId <= im.wipeId
    BY <2>1, <2>2, NilIsNoResource DEF InfraMachine
  <2> QED BY <2>1, <2>2, <2>3, <2>4 DEF WipeInv, Certified
<1>3. CASE WipeDisks
  <2>1. wipe'.step = "call" /\ wipe'.im = wipe.im /\ im' = im /\ ws' = ws
    BY <1>3 DEF WipeDisks, TypeOK, WipeProgress, omniVars
  <2>2. wipe.step = "read" /\ RequiresWipe(wipe.im, ws)
    BY <1>3 DEF WipeDisks, WipeIsDue
  <2> QED BY <2>1, <2>2 DEF WipeInv, Certified
<1>4. CASE WipeSkip \/ WipeFail \/ WipeCommit \/ ProviderRestart
  BY <1>4 DEF WipeSkip, WipeFail, WipeCommit, ProviderRestart, IdleWipe, WipeInv
<1>5. CASE AgentFinishes /\ wipe' # wipe
  <2>1. wipe.step = "call" /\ wipe'.step = "done" /\ wipe'.im = wipe.im
    BY <1>5 DEF AgentFinishes, JobsInv, TypeOK, WipeProgress
  <2>2. im' = im /\ ws' = ws /\ disk' = {}
    BY <1>5 DEF AgentFinishes
  <2> QED BY <2>1, <2>2 DEF WipeInv, Certified, SinceTenancy
<1> QED BY <1>1, <1>2, <1>3, <1>4, <1>5, Frames
\* A machine due for a wipe stays due until a wipe is recorded: its WipeId only
\* moves further away from the certificate.
LEMMA StaysDue ==
  ASSUME LifecycleInv, TypeOK', [Next]_vars, ws' = ws, RequiresWipe(im, ws)
  PROVE  RequiresWipe(im', ws')
<1> SUFFICES ASSUME im' # Nil, Certified PROVE im'.wipeId # ws.lastWipeId
  BY DEF RequiresWipe, Certified
<1>1. im # Nil /\ ws.lastWipeId <= im.wipeId
  BY DEF LifecycleInv, CertificateInv, SinceTenancy
<1>2. im.wipeId # ws.lastWipeId
  BY <1>1 DEF RequiresWipe, Certified
<1>3. im.wipeId <= im'.wipeId
  BY <1>1, WipeIdStep DEF LifecycleInv
<1>4. im.wipeId \in Nat /\ im'.wipeId \in Nat /\ ws.lastWipeId \in Nat
  BY <1>1 DEF LifecycleInv, TypeOK, InfraMachine, WipeStatus, Certified
<1> QED BY <1>1, <1>2, <1>3, <1>4

\* The agent's wipes: a running one is due or has nothing left to erase.
LEMMA JobsStep ==
  ASSUME LifecycleInv, TypeOK', [Next]_vars
  PROVE  JobsInv'
<1> USE DEF LifecycleInv
<1>1. CASE WipeDisks
  <2>1. im' = im /\ ws' = ws /\ disk' = disk /\ mode' = mode /\ wipe'.step = "call"
    BY <1>1 DEF WipeDisks, omniVars, TypeOK, WipeProgress
  <2>2. im # Nil /\ wipe.im \in WipeSnapshot /\ wipe.im # Nil /\ wipe.im.wipeId <= im.wipeId
    BY <1>1 DEF WipeDisks, WipeInv, TypeOK, WipeProgress
  <2>3. RequiresWipe(im, ws)
    <3> SUFFICES ASSUME Certified PROVE im.wipeId # ws.lastWipeId
      BY DEF RequiresWipe, Certified
    <3>1. ws.lastWipeId <= wipe.im.wipeId
      BY <1>1 DEF WipeDisks, WipeInv
    <3>2. wipe.im.wipeId # ws.lastWipeId
      BY <1>1, <2>2 DEF WipeDisks, WipeIsDue, RequiresWipe, Certified
    <3>3. im.wipeId \in Nat /\ wipe.im.wipeId \in Nat /\ ws.lastWipeId \in Nat
      BY <2>2 DEF TypeOK, InfraMachine, WipeStatus, WipeSnapshot, Certified
    <3> QED BY <2>2, <3>1, <3>2, <3>3
  <2>4. jobs' # {} => mode = "agent"
    BY <1>1 DEF WipeDisks, JobsInv
  <2> QED BY <2>1, <2>3, <2>4 DEF JobsInv
<1>2. CASE AgentFinishes
  BY <1>2 DEF AgentFinishes, JobsInv, TypeOK, WipeProgress
<1>3. CASE Reset
  BY <1>3 DEF Reset, JobsInv
<1>4. CASE WipeFail \/ ProviderRestart
  <2>1. im' = im /\ ws' = ws /\ disk' = disk /\ mode' = mode /\ wipe'.step = "idle"
    BY <1>4 DEF WipeFail, ProviderRestart, omniVars, IdleWipe
  <2>2. "current" \notin jobs' /\ (jobs' # {} => jobs # {})
    BY <1>4 DEF WipeFail, ProviderRestart
  <2> QED BY <2>1, <2>2 DEF JobsInv
<1>5. CASE jobs' = jobs /\ ~AgentFinishes /\ ~WipeDisks /\ ~WipeFail /\ ~ProviderRestart /\ ~Reset
  <2>1. wipe'.step = wipe.step \/ (wipe'.step # "done" /\ wipe.step # "call")
    BY <1>5, Frames DEF WipeReconcile, WipeSkip, WipeCommit, IdleWipe
  <2>2. CASE jobs = {}
    BY <1>5, <2>2 DEF JobsInv
  <2>3. CASE jobs # {}
    <3>1. mode = "agent"
      BY <2>3 DEF JobsInv
    <3>2. mode' = "agent"
      BY <1>5, <3>1, Frames DEF AnswerDelivered, RequestInv
    <3>3. disk' \subseteq disk
      BY <1>5, <3>1, Frames DEF AgentErases, TalosWrites, RunsTalos
    <3>4. RequiresWipe(im', ws') \/ disk' = {}
      <4>1. CASE ws' = ws
        BY <4>1, <2>3, <3>3, StaysDue DEF JobsInv
      <4>2. CASE WipeCommit
        BY <4>2, <2>3, <3>3 DEF WipeCommit, JobsInv
      <4>3. CASE TeardownWipeStatus
        BY <4>3 DEF TeardownWipeStatus, RequiresWipe
      <4> QED BY <4>1, <4>2, <4>3, Frames
    <3>5. wipe'.step = "done" => disk' = {}
      BY <2>1, <2>3, <3>3 DEF JobsInv
    <3>6. "current" \in jobs' => wipe'.step = "call"
      BY <1>5, <2>1 DEF JobsInv
    <3> QED BY <3>2, <3>4, <3>5, <3>6 DEF JobsInv
  <2> QED BY <2>2, <2>3
<1> QED BY <1>1, <1>2, <1>3, <1>4, <1>5, Frames

\* The report: ready was true of the certificate it was computed from, and what
\* that certificate said outlives it.
LEMMA ReportStep ==
  ASSUME LifecycleInv, TypeOK', [Next]_vars
  PROVE  ReportInv'
<1> USE DEF LifecycleInv
<1>1. report' # Nil => im' # Nil /\ report'.wipeId <= im'.wipeId
  <2>1. CASE StatusReconcile
    BY <2>1 DEF StatusReconcile, Running, omniVars, TypeOK, InfraMachine
  <2>2. CASE StatusCommit \/ ProviderRestart
    BY <2>2 DEF StatusCommit, ProviderRestart
  <2>3. CASE report' = report /\ report # Nil
    <3>1. im # Nil /\ im' # Nil
      BY <2>3, ForgottenOnlyByRemove DEF ReportInv, Remove
    <3>2. im.wipeId \in Nat /\ im'.wipeId \in Nat /\ report.wipeId \in Nat
      BY <2>3, <3>1 DEF TypeOK, InfraMachine, ReportSnapshot
    <3> QED BY <2>3, <3>1, <3>2, WipeIdStep DEF ReportInv
  <2> QED BY <2>1, <2>2, <2>3, Frames
<1>2. (ims # Nil /\ ims.readyToUse => SinceTenancy(ims.wipeId))'
  <2>1. CASE StatusCommit
    <3>1. ims'.readyToUse <=> bmc # Nil /\ ~RequiresWipe(report, ws)
      BY <2>1, Zenon DEF StatusCommit
    <3>2. PICK t \in Nat : t = report.wipeId
      BY <2>1 DEF StatusCommit, TypeOK, ReportSnapshot
    <3>3. ims'.wipeId = t /\ im' = im /\ disk' = disk
      BY <2>1, <3>2 DEF StatusCommit, omniVars, machineVars
    <3>4. ~RequiresWipe(report, ws) => Certified /\ report.wipeId = ws.lastWipeId
      BY DEF RequiresWipe, Certified
    <3>5. ims'.readyToUse => SinceTenancy(t)
      BY <3>1, <3>2, <3>4 DEF CertificateInv
    <3>6. ims'.readyToUse => SinceTenancy(t)'
      BY <3>5, <3>3 DEF SinceTenancy
    <3> QED BY <3>6, <3>3 DEF SinceTenancy
  <2>2. CASE TeardownStatus
    BY <2>2 DEF TeardownStatus
  <2>3. CASE ims' = ims /\ ims # Nil /\ ims.readyToUse
    <3>1. ims.wipeId \in Nat /\ SinceTenancy(ims.wipeId)
      BY <2>3 DEF ReportInv, TypeOK, InfraMachineStatus
    <3>2. im' # Nil
      BY <3>1, <2>3, ForgottenOnlyByRemove DEF SinceTenancy, Remove
    <3>3. PICK t \in Nat : t = ims.wipeId
      BY <3>1
    <3>4. SinceTenancy(t)'
      BY <3>1, <3>2, <3>3, SinceTenancyStep
    <3>5. SinceTenancy(ims.wipeId)'
      BY <2>3, <3>3, <3>4 DEF SinceTenancy
    <3> QED BY <3>5
  <2> QED BY <2>1, <2>2, <2>3, Frames
<1> QED BY <1>1, <1>2 DEF ReportInv

\* The answer under way: talos is only ever decided over a certificate for the
\* machine that was read, and the disk does not change while the answer travels.
LEMMA RequestStep ==
  ASSUME LifecycleInv, TypeOK', [Next]_vars
  PROVE  RequestInv'
<1> USE DEF LifecycleInv
<1>1. CASE MakeBootDecision
  <2>1. PICK a \in BootDecision(request.im, request.bmc, ws) :
          request' = [request EXCEPT !.step = "decided", !.answer = a]
    BY <1>1, Zenon DEF MakeBootDecision
  <2>2. request'.step = "decided" /\ request'.answer = a /\ request'.im = request.im
    BY <2>1 DEF TypeOK, RequestProgress
  <2>3. request.step # "none" /\ mode' = mode /\ disk' = disk
    BY <1>1 DEF MakeBootDecision, machineVars
  <2>4. a \in {"talos-pxe", "talos-disk"} => request.im # Nil /\ ~RequiresWipe(request.im, ws)
    BY <2>1 DEF BootDecision, RequiredBootMode, BootIntoAgentMode, Rejected
  <2>5. ~RequiresWipe(request.im, ws) => SinceTenancy(request.im.wipeId)
    BY DEF RequiresWipe, CertificateInv, Certified
  <2>6. SinceTenancy(request.im.wipeId) => CleanFor(request.im.wipeId)
    <3>1. CASE request.im = Nil
      BY <3>1, <2>4, <2>5 DEF SinceTenancy, CleanFor, RequiresWipe
    <3>2. CASE request.im # Nil
      BY <3>2 DEF SinceTenancy, CleanFor, TypeOK, RequestProgress, InfraMachine, Factory
    <3> QED BY <3>1, <3>2
  <2> QED BY <2>2, <2>3, <2>4, <2>5, <2>6 DEF RequestInv, CleanFor
<1>2. CASE BootRequest
  <2>1. request'.step = "machine" /\ request'.answer = Nil /\ mode' = "ipxe"
    BY <1>2 DEF BootRequest, NoRequest, machineVars
  <2> QED BY <2>1, NilIsNoResource DEF RequestInv, BootModes
<1>3. CASE ReadBMCConfiguration
  <2>1. request'.step = "bmc" /\ request'.answer = request.answer /\ mode' = mode
    BY <1>3 DEF ReadBMCConfiguration, TypeOK, RequestProgress, machineVars
  <2>2. request.answer = Nil /\ mode = "ipxe"
    BY <1>3 DEF ReadBMCConfiguration, RequestInv
  <2> QED BY <2>1, <2>2, NilIsNoResource DEF RequestInv, BootModes
<1>4. CASE AnswerDelivered \/ Reset \/ ProviderRestart
  BY <1>4, NilIsNoResource DEF AnswerDelivered, Reset, ProviderRestart, NoRequest, RequestInv,
                               BootModes
<1>5. CASE request' = request /\ ~AnswerDelivered /\ ~Reset
  <2>1. mode' = mode
    BY <1>5, Frames
  <2>2. disk' \subseteq disk \/ mode # "ipxe"
    BY Frames DEF AgentErases, AgentFinishes, TalosWrites, RunsTalos
  <2>3. request.answer \in {"talos-pxe", "talos-disk"} => disk' \subseteq disk
    BY <2>2, NilIsNoResource DEF RequestInv, BootModes
  <2>4. request.answer \in {"talos-pxe", "talos-disk"} => CleanFor(request.im.wipeId)'
    BY <2>3, <1>5 DEF RequestInv, CleanFor
  <2> QED BY <1>5, <2>1, <2>4 DEF RequestInv
<1> QED BY <1>1, <1>2, <1>3, <1>4, <1>5, Frames

-----------------------------------------------------------------------------
(* The theorems. *)

\* LifecycleInv is an invariant: what the certificate, the wipe in flight, the
\* agent's wipes, the report and the answer under way each say of the disk stays
\* true whoever moves when (wipe_status.go, infra_machine_status.go, handler.go).
THEOREM Invariance == Spec => []LifecycleInv
<1>1. Init => LifecycleInv
  <2> SUFFICES ASSUME Init PROVE LifecycleInv
    OBVIOUS
  <2>1. TypeOK
    <3>1. wipe \in WipeProgress
      BY Zenon DEF Init, WipeProgress, IdleWipe
    <3>2. request \in RequestProgress
      BY Zenon DEF Init, RequestProgress, NoRequest
    <3> QED BY <3>1, <3>2 DEF Init, TypeOK, Factory
  <2> QED BY <2>1, NilIsNoResource
       DEF Init, LifecycleInv, CertificateInv, WipeInv, JobsInv, ReportInv, RequestInv,
           IdleWipe, NoRequest, Certified, BootModes
<1>2. LifecycleInv /\ [Next]_vars => LifecycleInv'
  BY TypeStep, CertificateStep, WipeStep, JobsStep, ReportStep, RequestStep DEF LifecycleInv
<1> QED BY <1>1, <1>2, PTL DEF Spec

\* Every variable keeps its type: no step leaves a resource half written.
THEOREM TypeCorrect == Spec => []TypeOK
BY Invariance, PTL DEF LifecycleInv

\* A machine Omni is told is ready to use holds data of its current tenancy only,
\* for every number of tenancies (infra_machine_status.go, ReadyToUse).
THEOREM ReadyIsClean == Spec => []ReadyMeansClean
<1>1. LifecycleInv => ReadyMeansClean
  <2> SUFFICES ASSUME LifecycleInv, ims # Nil, ims.readyToUse, im # Nil,
                      ims.wipeId = im.wipeId, NEW d \in disk
               PROVE  d = im.wipeId
    BY DEF ReadyMeansClean
  <2>1. im.wipeId <= d /\ d <= im.wipeId
    BY DEF LifecycleInv, ReportInv, SinceTenancy
  <2>2. d \in Int /\ im.wipeId \in Int
    BY DEF LifecycleInv, TypeOK, InfraMachine, Factory
  <2> QED BY <2>1, <2>2
<1> QED BY <1>1, Invariance, PTL

\* Talos is only ever served over a disk holding nothing older than the tenancy it
\* was decided for (ipxe/handler.go, makeBootDecision).
THEOREM TalosIsServedClean == Spec => []TalosServedClean
<1>1. LifecycleInv => TalosServedClean
  BY DEF LifecycleInv, RequestInv, TalosServedClean
<1> QED BY <1>1, Invariance, PTL

\* No wipe, however late, erases the data of a tenant that is not due for one
\* (wipe_status.go, transform; agent/client.go, WipeDisks).
THEOREM NothingLost == Spec => NoDataLoss
<1>1. LifecycleInv /\ [Next]_vars => [~(disk \subseteq disk') => RequiresWipe(im, ws)]_vars
  <2> SUFFICES ASSUME LifecycleInv, [Next]_vars, ~(disk \subseteq disk')
               PROVE  RequiresWipe(im, ws)
    OBVIOUS
  <2>1. AgentErases \/ AgentFinishes
    BY Frames DEF TalosWrites
  <2>2. jobs # {} /\ disk # {}
    BY <2>1 DEF AgentErases, AgentFinishes
  <2> QED BY <2>2 DEF LifecycleInv, JobsInv
<1> QED BY <1>1, Invariance, PTL DEF Spec, NoDataLoss

-----------------------------------------------------------------------------
(* The refinement: each step is a step of the promise, or changes nothing it sees. *)

\* What the promise sees of Omni's steps: a handover, or nothing.
LEMMA OmniStep ==
  ASSUME LifecycleInv, TypeOK', Omni
  PROVE  [Promise!Next]_(Promise!vars)
<1>1. ws' = ws /\ disk' = disk
  BY DEF Omni, Register, Accept, Cordon, Allocate, Deallocate, ObserveInstall, Teardown,
         Remove, OmniWrites, wipeVars, machineVars
<1>2. Certificate' = Certificate
  BY <1>1 DEF Certificate
<1>3. CASE Register
  <2>1. CurrentTenancy = Nil /\ CurrentTenancy' = 0
    <3>1. im' \in InfraMachine
      BY <1>3, 0 \in Nat, Zenon DEF Register, OmniWrites, InfraMachine
    <3>2. im' # Nil
      BY <3>1, NilIsNoResource
    <3> QED BY <1>3, <3>2 DEF Register, OmniWrites, CurrentTenancy
  <2>2. Certificate = Nil
    BY <1>3 DEF Register, LifecycleInv, CertificateInv, SinceTenancy, Certified, Certificate
  <2> QED BY <1>1, <1>2, <2>1, <2>2 DEF Promise!Next, Promise!Handover
<1>4. CASE Remove
  BY <1>1, <1>2, <1>4, NilAssumption
     DEF Remove, OmniWrites, CurrentTenancy, Certificate, LifecycleInv, TypeOK, InfraMachine,
         Promise!Next, Promise!Handover
<1>5. CASE ~Register /\ ~Remove
  <2>1. im \in InfraMachine /\ im # Nil
    BY <1>5 DEF Omni, Accept, Cordon, Allocate, Deallocate, ObserveInstall, Teardown, Running,
                LifecycleInv, TypeOK
  <2>2. im' \in InfraMachine /\ im' # Nil
    <3>1. [Next]_vars
      BY DEF Next
    <3> QED BY <3>1, <1>5, <2>1, ForgottenOnlyByRemove DEF LifecycleInv, TypeOK
  <2>3. im'.wipeId = im.wipeId \/ im'.wipeId = im.wipeId + 1
    BY <1>5, <2>1, Zenon DEF Omni, Accept, Cordon, Allocate, Deallocate, ObserveInstall, Teardown,
                             OmniWrites, InfraMachine
  <2>4. CurrentTenancy = im.wipeId /\ CurrentTenancy' = im'.wipeId /\ CurrentTenancy # Nil
    BY <2>1, <2>2, NilAssumption DEF CurrentTenancy, InfraMachine
  <2> QED BY <1>1, <1>2, <2>3, <2>4 DEF Promise!Next, Promise!Handover, Promise!vars
<1> QED BY <1>3, <1>4, <1>5

\* Wiping as this system does it keeps its promise, for every number of tenancies:
\* nothing is erased under a valid certificate, and no certificate is issued over
\* older data (wipe_status.go, transform).
THEOREM KeepsPromise == Spec => ImplementsPromise
<1>1. Init => Promise!Init
  BY DEF Init, Promise!Init, CurrentTenancy, Certificate, Factory, Promise!Factory
<1>2. LifecycleInv /\ TypeOK' /\ [Next]_vars => [Promise!Next]_(Promise!vars)
  <2> SUFFICES ASSUME LifecycleInv, TypeOK', [Next]_vars PROVE [Promise!Next]_(Promise!vars)
    OBVIOUS
  <2> USE DEF LifecycleInv
  <2>1. CASE Omni
    BY <2>1, OmniStep
  <2>2. CASE im' = im
    <3>1. CurrentTenancy' = CurrentTenancy
      BY <2>2 DEF CurrentTenancy
    <3>2. CASE TalosWrites
      <4>1. CurrentTenancy = im.wipeId /\ im.wipeId # Nil
        BY <3>2, NilAssumption DEF TalosWrites, CurrentTenancy, TypeOK, InfraMachine
      <4>2. Certificate' = Certificate
        BY <3>2 DEF TalosWrites, wipeVars, Certificate
      <4> QED BY <3>1, <3>2, <4>1, <4>2 DEF TalosWrites, Promise!Next, Promise!Write
    <3>3. CASE AgentErases \/ AgentFinishes
      <4>1. disk' \subseteq disk /\ Certificate' = Certificate
        BY <3>3 DEF AgentErases, AgentFinishes, wipeVars, Certificate
      <4>2. RequiresWipe(im, ws) \/ disk' = disk
        BY <3>3 DEF AgentErases, AgentFinishes, JobsInv
      <4>3. RequiresWipe(im, ws) => CurrentTenancy = Nil \/ Certificate # CurrentTenancy
        BY NilAssumption DEF RequiresWipe, CurrentTenancy, Certificate, TypeOK, InfraMachine,
                             WipeStatus
      <4> QED BY <3>1, <4>1, <4>2, <4>3 DEF Promise!Next, Promise!Erase, Promise!vars
    <3>4. CASE WipeCommit
      <4>1. PICK t \in Nat : t = wipe.im.wipeId
        BY <3>4 DEF WipeCommit, WipeInv, TypeOK, WipeProgress, WipeSnapshot
      <4>2. SinceTenancy(t) /\ t \in 0..im.wipeId
        BY <3>4, <4>1 DEF WipeCommit, WipeInv, SinceTenancy, TypeOK, InfraMachine
      <4>3. CurrentTenancy = im.wipeId /\ CurrentTenancy # Nil
        BY <4>2, NilAssumption DEF SinceTenancy, CurrentTenancy, TypeOK, InfraMachine
      <4>4. Certificate' = t
        <5>1. wipe.im \in WipeSnapshot
          BY <3>4 DEF WipeCommit, WipeInv, TypeOK, WipeProgress
        <5>2. ws' \in WipeStatus
          BY <3>4, <5>1, Zenon DEF WipeCommit, WipeStatus, WipeSnapshot
        <5>3. ws' # Nil
          BY <5>2, NilIsNoResource
        <5>4. ws'.initialWipeDone /\ ws'.lastWipeId = t
          BY <3>4, <4>1, Zenon DEF WipeCommit
        <5> QED BY <5>3, <5>4 DEF Certificate
      <4>5. disk' = disk /\ \A d \in disk : d >= t
        BY <3>4, <4>2 DEF WipeCommit, machineVars, SinceTenancy, TypeOK, Factory
      <4> QED BY <3>1, <4>2, <4>3, <4>4, <4>5 DEF Promise!Next, Promise!Certify, Promise!Clean
    <3>5. CASE TeardownWipeStatus
      BY <3>1, <3>5 DEF TeardownWipeStatus, Certificate, machineVars, Promise!Next, Promise!Revoke
    <3>6. CASE ws' = ws /\ disk' = disk
      BY <3>1, <3>6 DEF Certificate, Promise!vars
    <3> QED BY <3>2, <3>3, <3>4, <3>5, <3>6, Frames DEF WipeCommit, TeardownWipeStatus, machineVars
  <2> QED BY <2>1, <2>2, Frames
<1>3. LifecycleInv => TypeOK
  BY DEF LifecycleInv
<1> QED BY <1>1, <1>2, <1>3, Invariance, PTL DEF Spec, ImplementsPromise, Promise!Spec

-----------------------------------------------------------------------------
(* The removal is orderly: the guards that stand for the finalizers here keep *)
(* what the controllers promise in Removal.                                   *)

Registration == IF im = Nil THEN "none" ELSE IF Running THEN "there" ELSE "leaving"

\* What has been read, recorded or reported is there.
LEMMA WrittenIsThere ==
  ASSUME LifecycleInv, LifecycleInv'
  PROVE  /\ WipeCommit => ws' # Nil
         /\ StatusCommit => ims' # Nil
         /\ StatusReconcile => report' # Nil
         /\ wipe = IdleWipe <=> wipe.step = "idle"
         /\ (wipe = IdleWipe <=> wipe.step = "idle")'
<1> USE DEF LifecycleInv, TypeOK
<1>1. WipeCommit => ws' # Nil
  <2> SUFFICES ASSUME WipeCommit PROVE ws' # Nil
    OBVIOUS
  <2>1. wipe.im \in WipeSnapshot
    BY DEF WipeCommit, WipeInv, WipeProgress
  <2>2. ws' \in WipeStatus
    BY <2>1, Zenon DEF WipeCommit, WipeStatus, WipeSnapshot
  <2> QED BY <2>2, NilIsNoResource
<1>2. StatusCommit => ims' # Nil
  <2> SUFFICES ASSUME StatusCommit PROVE ims' # Nil
    OBVIOUS
  <2>1. ims' \in InfraMachineStatus
    BY DEF StatusCommit, InfraMachineStatus, ReportSnapshot, RequiresWipe
  <2> QED BY <2>1, NilIsNoResource
<1>3. StatusReconcile => report' # Nil
  <2> SUFFICES ASSUME StatusReconcile PROVE report' # Nil
    OBVIOUS
  <2>1. report' \in ReportSnapshot
    BY DEF StatusReconcile, Running, InfraMachine, ReportSnapshot
  <2> QED BY <2>1, NilIsNoResource
<1>4. wipe = IdleWipe <=> wipe.step = "idle"
  BY DEF IdleWipe, WipeInv, WipeProgress
<1>5. (wipe = IdleWipe <=> wipe.step = "idle")'
  BY DEF IdleWipe, WipeInv, WipeProgress
<1> QED BY <1>1, <1>2, <1>3, <1>4, <1>5

\* The promise sees of Omni's steps the registration, the removal and the end of it.
LEMMA OmniIsOrderly ==
  ASSUME LifecycleInv, TypeOK', Omni
  PROVE  [Orderly!Next]_(Orderly!vars)
<1> USE DEF Orderly!Next, Orderly!vars
<1>1. UNCHANGED <<bmc, ws, ims, wipe, report>>
  BY DEF Omni, Register, Accept, Cordon, Allocate, Deallocate, ObserveInstall, Teardown,
         Remove, OmniWrites, wipeVars
<1>2. CASE Register
  <2>1. im' # Nil /\ im'.phase = "running"
    <3>1. im' \in InfraMachine
      BY <1>2, 0 \in Nat, Zenon DEF Register, OmniWrites, InfraMachine
    <3> QED BY <1>2, <3>1, NilIsNoResource DEF Register, OmniWrites
  <2> QED BY <1>1, <1>2, <2>1 DEF Register, Running, Orderly!Register
<1>3. CASE Remove
  <2>1. im # Nil /\ im' = Nil /\ im.phase = "tearingDown"
    BY <1>3 DEF Remove, OmniWrites
  <2>2. bmc = Nil /\ ws = Nil /\ ims = Nil /\ wipe = IdleWipe /\ report = Nil
    BY <1>3 DEF Remove
  <2> QED BY <1>1, <2>1, <2>2 DEF Running, Orderly!Gone
<1>4. CASE ~Register /\ ~Remove
  <2>1. im \in InfraMachine /\ im # Nil /\ Running
    BY <1>4 DEF Omni, Accept, Cordon, Allocate, Deallocate, ObserveInstall, Teardown, Running,
                LifecycleInv, TypeOK
  <2>2. im' \in InfraMachine /\ im' # Nil
    <3>1. [Next]_vars
      BY DEF Next
    <3> QED BY <3>1, <1>4, <2>1, ForgottenOnlyByRemove DEF LifecycleInv, TypeOK
  <2>3. Running' \/ im'.phase = "tearingDown"
    BY <2>2 DEF Running, InfraMachine
  <2>4. CASE Running'
    BY <1>1, <2>1, <2>4 DEF Running
  <2>5. CASE im'.phase = "tearingDown"
    BY <1>1, <2>1, <2>2, <2>5 DEF Running, Orderly!Leave
  <2> QED BY <2>3, <2>4, <2>5
<1> QED BY <1>2, <1>3, <1>4

LEMMA OrderlyStep ==
  ASSUME LifecycleInv, LifecycleInv', [Next]_vars
  PROVE  [Orderly!Next]_(Orderly!vars)
<1> USE DEF Orderly!Next, Orderly!vars
<1>w. /\ wipe = IdleWipe <=> wipe.step = "idle"
      /\ (wipe = IdleWipe <=> wipe.step = "idle")'
  BY WrittenIsThere
<1>1. CASE Omni
  BY <1>1, OmniIsOrderly DEF LifecycleInv
<1> DEFINE Stays == im' = im
           KeptStays == bmc' = bmc /\ ws' = ws /\ ims' = ims
           WorkStays == wipe' = wipe /\ report' = report
<1>2. ASSUME Stays, KeptStays,
             wipe' = IdleWipe \/ wipe # IdleWipe, report' = Nil \/ report # Nil
      PROVE  Orderly!End
  BY <1>2 DEF Orderly!End, Running
<1>3. CASE ConfigureBMC
  <2>1. Running /\ bmc' # Nil /\ Stays /\ ws' = ws /\ ims' = ims /\ WorkStays
    BY <1>3, NilIsNoResource DEF ConfigureBMC, omniVars, wipeVars
  <2> QED BY <2>1 DEF Running, Orderly!Keep
<1>4. CASE TeardownBMC
  <2>1. /\ Registration = "leaving" /\ ws = Nil /\ ims = Nil /\ wipe = IdleWipe /\ report = Nil
        /\ bmc' = Nil /\ Stays /\ ws' = ws /\ ims' = ims /\ WorkStays
    BY <1>4 DEF TeardownBMC, Registration, Running, omniVars, wipeVars
  <2>2. CASE bmc = Nil
    BY <1>2, <2>1, <2>2
  <2>3. CASE bmc # Nil
    BY <2>1, <2>3 DEF Registration, Running, Orderly!Drop
  <2> QED BY <2>2, <2>3
<1>5. CASE WipeReconcile
  <2>1. Running /\ wipe' # IdleWipe /\ Stays /\ KeptStays /\ report' = report
    BY <1>5, <1>w DEF WipeReconcile, omniVars
  <2> QED BY <2>1 DEF Running, Orderly!Begin
<1>6. CASE WipeDisks \/ WipeSkip \/ WipeFail \/ AgentFinishes
  <2>1. wipe # IdleWipe \/ wipe' = IdleWipe \/ wipe' = wipe
    BY <1>6, <1>w DEF WipeDisks, WipeSkip, WipeFail, AgentFinishes, LifecycleInv, JobsInv
  <2> QED BY <1>2, <1>6, <2>1 DEF WipeDisks, WipeSkip, WipeFail, AgentFinishes, omniVars
<1>7. CASE WipeCommit
  <2>1. /\ wipe # IdleWipe /\ wipe' = IdleWipe /\ ws' # Nil
        /\ Stays /\ bmc' = bmc /\ ims' = ims /\ report' = report
    BY <1>7, <1>w, WrittenIsThere DEF WipeCommit, omniVars
  <2> QED BY <2>1 DEF Running, Orderly!Keep
<1>8. CASE TeardownWipeStatus
  <2>1. /\ Registration = "leaving" /\ wipe = IdleWipe
        /\ ws' = Nil /\ Stays /\ bmc' = bmc /\ ims' = ims /\ WorkStays
    BY <1>8 DEF TeardownWipeStatus, Registration, Running, omniVars
  <2>2. CASE ws = Nil
    BY <1>2, <2>1, <2>2
  <2>3. CASE ws # Nil
    BY <2>1, <2>3 DEF Registration, Running, Orderly!Drop
  <2> QED BY <2>2, <2>3
<1>9. CASE StatusReconcile
  <2>1. Running /\ report' # Nil /\ Stays /\ KeptStays /\ wipe' = wipe
    BY <1>9, WrittenIsThere DEF StatusReconcile, omniVars, wipeVars
  <2> QED BY <2>1 DEF Running, Orderly!Begin
<1>10. CASE StatusCommit
  <2>1. /\ report # Nil /\ report' = Nil /\ ims' # Nil
        /\ Stays /\ bmc' = bmc /\ ws' = ws /\ wipe' = wipe
    BY <1>10, WrittenIsThere DEF StatusCommit, omniVars, wipeVars
  <2> QED BY <2>1 DEF Running, Orderly!Keep
<1>11. CASE TeardownStatus
  <2>1. /\ Registration = "leaving" /\ report = Nil
        /\ ims' = Nil /\ Stays /\ bmc' = bmc /\ ws' = ws /\ WorkStays
    BY <1>11 DEF TeardownStatus, Registration, Running, omniVars, wipeVars
  <2>2. CASE ims = Nil
    BY <1>2, <2>1, <2>2
  <2>3. CASE ims # Nil
    BY <2>1, <2>3 DEF Registration, Running, Orderly!Drop
  <2> QED BY <2>2, <2>3
<1>12. CASE ProviderRestart
  BY <1>2, <1>12 DEF ProviderRestart, omniVars
<1>13. CASE Stays /\ KeptStays /\ WorkStays
  BY <1>2, <1>13
<1> QED BY <1>1, <1>3, <1>4, <1>5, <1>6, <1>7, <1>8, <1>9, <1>10, <1>11, <1>12, <1>13, Frames

\* What this module lets go of a machine, by guards in place of finalizers, goes in the order the
\* controllers promise (wipe_status.go, infra_machine_status.go; bmc_configuration.go,
\* WithIgnoreTeardownUntil).
THEOREM RemovalIsOrderly == Spec => RemovesOrderly
<1>1. Init => Orderly!Init
  BY DEF Init, Orderly!Init
<1>2. LifecycleInv /\ LifecycleInv' /\ [Next]_vars => [Orderly!Next]_(Orderly!vars)
  BY OrderlyStep
<1> QED BY <1>1, <1>2, Invariance, PTL DEF Spec, RemovesOrderly, Orderly!Spec

\* What OrderlyRemoval is told of this module.
KeptHere ==
  (IF bmc = Nil THEN {} ELSE {"BMCConfiguration"})
  \cup (IF ws = Nil THEN {} ELSE {"WipeStatus"})
  \cup (IF ims = Nil THEN {} ELSE {"InfraMachineStatus"})
WorkingHere ==
  (IF wipe = IdleWipe THEN {} ELSE {"WipeStatus"})
  \cup (IF report = Nil THEN {} ELSE {"InfraMachineStatus"})

\* And it lets everything go that they may let go: the guards here ask for no more than the
\* promise, which the controllers of Removal keep, so that no removal they can carry out is
\* missing from what is proved of the handover.
THEOREM RemovesAllThatMayGo ==
  ASSUME TypeOK, Registration = "leaving",
         UNCHANGED <<accessible, request, report, wipe, mode, disk, jobs, events>>
  PROVE  /\ KeptHere = {} /\ WorkingHere = {} /\ im' = Nil /\ UNCHANGED <<bmc, ws, ims>>
              => Remove
         /\ KeptHere = {"BMCConfiguration"} /\ WorkingHere = {} /\ bmc' = Nil /\ UNCHANGED <<im, ws, ims>>
              => TeardownBMC
         /\ "WipeStatus" \in KeptHere \ WorkingHere /\ ws' = Nil /\ UNCHANGED <<im, bmc, ims>>
              => TeardownWipeStatus
         /\ "InfraMachineStatus" \in KeptHere \ WorkingHere /\ ims' = Nil /\ UNCHANGED <<im, bmc, ws>>
              => TeardownStatus
<1>1. im # Nil /\ im.phase = "tearingDown"
  BY DEF Registration, Running, TypeOK, InfraMachine
<1>2. WorkingHere = {} => wipe = IdleWipe /\ report = Nil
  BY DEF WorkingHere
<1>3. KeptHere = {} => bmc = Nil /\ ws = Nil /\ ims = Nil
  BY DEF KeptHere
<1>4. KeptHere = {"BMCConfiguration"} => ws = Nil /\ ims = Nil
  BY DEF KeptHere
<1>5. /\ "WipeStatus" \notin WorkingHere => wipe = IdleWipe
      /\ "InfraMachineStatus" \notin WorkingHere => report = Nil
  BY DEF WorkingHere
<1> QED BY <1>1, <1>2, <1>3, <1>4, <1>5
        DEF Remove, OmniWrites, TeardownBMC, TeardownWipeStatus, TeardownStatus, omniVars, wipeVars,
            machineVars

-----------------------------------------------------------------------------
\* The decisions of package machine, each of which some controller takes on its own, agree:
\* Talos is only booted on a machine that is configured, stays, needs no wipe and is to be on;
\* a machine that needs a wipe is to be on, and on the network; and it is to boot from its disk
\* only if Talos has been installed since the last wipe (machine.go, RequiredBootMode and
\* RequiresPowerOn).
THEOREM DecisionsAgree ==
  ASSUME NEW m, NEW b, NEW w, m # Nil, ~Rejected(m),
         NEW decided, decided = RequiredBootMode(m, b, w)
  PROVE  /\ decided # "agent-pxe"
              => b # Nil /\ m.phase # "tearingDown" /\ ~RequiresWipe(m, w) /\ RequiresPowerOn(m, w)
         /\ RequiresWipe(m, w) => RequiresPXEBoot(decided) /\ RequiresPowerOn(m, w)
         /\ decided = "talos-disk" => IsInstalled(m, w) /\ ~AlwaysNetboot
BY DEF RequiredBootMode, BootIntoAgentMode, RequiresPowerOn, RequiresPXEBoot

\* The record of a wipe undoes every reason for it: the machine needs no other, counts as not
\* installed, so that Talos comes from the network if it comes, and need not be on if nobody
\* has it (wipe_status.go, reconcileRunning).
THEOREM WipeSettlesDecisions ==
  ASSUME NEW m \in InfraMachine, NEW b, ~Rejected(m),
         NEW w \in WipeStatus, w.initialWipeDone, w.lastWipeId = m.wipeId,
         w.lastWipeInstallEventId = m.installEventId
  PROVE  /\ ~RequiresWipe(m, w) /\ ~IsInstalled(m, w)
         /\ RequiredBootMode(m, b, w) # "talos-disk"
         /\ RequiresPowerOn(m, w) <=> m.allocated
<1>1. m # Nil /\ w # Nil
  BY NilIsNoResource
<1>2. ~RequiresWipe(m, w)
  BY <1>1 DEF RequiresWipe
<1>3. ~IsInstalled(m, w)
  BY <1>1 DEF IsInstalled, LastWipeInstallEventId, InfraMachine
<1> QED BY <1>2, <1>3 DEF RequiredBootMode, RequiresPowerOn
=============================================================================
