----------------------------- MODULE PowerProofs -----------------------------
(***************************************************************************)
(* Proofs about Power, for any number of deallocations, requests and       *)
(* mishaps, any cooldown, with a BMC or without: types, and that an        *)
(* acknowledged power-off is honoured.                                     *)
(***************************************************************************)
EXTENDS Power, TLAPS

\* What is acknowledged for an infra.Machine, from something not newer than it, is not newer
\* than it either.
LEMMA AcknowledgedIsTyped ==
  ASSUME po \in PowerOperation, NEW m \in InfraMachine, NotNewer(po, m)
  PROVE  Acknowledge(m) \in PowerOperation /\ NotNewer(Acknowledge(m), m)
BY PowerAssumption DEF Acknowledge, NotNewer, PowerOperation, InfraMachine

\* What is active for an infra.Machine has been acknowledged for it before, unless it is new,
\* and what is new is active at once: if what has just been acknowledged is not active for the
\* infra.Machine read, what was acknowledged before is not active for any later one.
LEMMA InactiveStays ==
  ASSUME po \in PowerOperation, NEW m \in InfraMachine, NotNewer(po, m),
         NEW later \in InfraMachine, m.powerOffRequestId <= later.powerOffRequestId,
         m.wipeId <= later.wipeId, ~IsPowerOffActive(m, Acknowledge(m))
  PROVE  ~IsPowerOffActive(later, po)
<1>1. m # Nil /\ Acknowledge(m) # Nil
  BY AcknowledgedIsTyped, NilIsNoResource
<1>2. CASE Acknowledge(m) = po
  BY <1>1, <1>2, PowerAssumption DEF IsPowerOffActive, Acknowledge, NotNewer, PowerOperation, InfraMachine
<1>3. CASE Acknowledge(m) # po
  BY <1>1, <1>3 DEF IsPowerOffActive, Acknowledge
<1> QED BY <1>2, <1>3

\* No change of the infra.Machine makes what was acknowledged active.
LEMMA ChangeStaysInactive ==
  ASSUME po \in PowerOperation, NEW m \in InfraMachine, NotNewer(po, m),
         NEW later \in InfraMachine,
         \/ later.powerOffRequestId > m.powerOffRequestId
         \/ later.wipeId > m.wipeId
         \/ later.powerOffRequestId = m.powerOffRequestId /\ later.wipeId = m.wipeId,
         ~IsPowerOffActive(m, po)
  PROVE  ~IsPowerOffActive(later, po)
BY NilIsNoResource, PowerAssumption DEF IsPowerOffActive, NotNewer, PowerOperation, InfraMachine

-----------------------------------------------------------------------------
LEMMA InitInv == Init => PowerInv
<1> SUFFICES ASSUME Init PROVE PowerInv
  OBVIOUS
<1>1. hasBMC \in BOOLEAN
  <2>1. PICK b \in Bounds : hasBMC = b.hasBMC
    BY DEF Init
  <2>2. b \in Budget
    BY PowerAssumption
  <2> QED BY <2>1, <2>2 DEF Budget
<1>2. im \in InfraMachine /\ im.powerOffRequestId = 0 /\ im.wipeId = 0
  <2>1. PICK b \in Bounds :
          im = [phase |-> "running", acceptance |-> "accepted", cordoned |-> FALSE,
                allocated |-> FALSE, wipeId |-> 0, installEventId |-> 0,
                powerOffRequestId |-> 0, requestedRebootId |-> 0, prefersOn |-> b.prefersOn]
    BY DEF Init
  <2>2. b.prefersOn \in BOOLEAN
    BY PowerAssumption DEF Budget
  <2> QED BY <2>1, <2>2 DEF InfraMachine
<1>3. po \in PowerOperation /\ rs \in [lastRebootId: Nat]
  BY DEF Init, PowerOperation
<1>4. op \in OpProgress /\ rb \in RbProgress /\ op.step = "idle"
  BY DEF Init, OpProgress, RbProgress, IdleOp, IdleRb
<1>5. sincePowerOn \in Ages /\ sinceReboot \in Ages
  BY PowerAssumption DEF Init, Ages
<1>6. TypeOK
  BY <1>1, <1>2, <1>3, <1>4, <1>5 DEF Init, TypeOK, Controllers
<1>7. NotNewer(po, im)
  BY <1>2 DEF Init, NotNewer
<1> QED BY <1>4, <1>6, <1>7 DEF PowerInv, PastInv, PowerOnInv

\* What Omni's writes change, in common.
OmniStep ==
  /\ im' \in InfraMachine
  /\ requestedIn' \in Nat /\ event' \in BOOLEAN
  /\ im.powerOffRequestId <= im'.powerOffRequestId /\ im.wipeId <= im'.wipeId
  /\ \/ im'.powerOffRequestId > im.powerOffRequestId
     \/ im'.wipeId > im.wipeId
     \/ im'.powerOffRequestId = im.powerOffRequestId /\ im'.wipeId = im.wipeId
  /\ pending' \subseteq Controllers
  /\ UNCHANGED <<ws, status, mishaps, powerVars, rebootVars, machineVars>>

LEMMA StepsOfOmni == TypeOK /\ Omni => OmniStep
<1> SUFFICES ASSUME TypeOK, Omni PROVE OmniStep
  OBVIOUS
<1> USE PowerAssumption DEF TypeOK, OmniStep, OmniWrites, Wake, Controllers, Running
<1>1. CASE Cordon
  <2>1. im' = [im EXCEPT !.cordoned = ~im.cordoned]
    BY <1>1 DEF Cordon
  <2>2. (~im.cordoned) \in BOOLEAN
    OBVIOUS
  <2>3. im' \in InfraMachine
    BY <2>1, <2>2 DEF InfraMachine
  <2> QED BY <1>1, <2>1, <2>3 DEF Cordon, InfraMachine
<1>2. CASE Allocate
  <2>1. im' = [im EXCEPT !.allocated = TRUE]
    BY <1>2 DEF Allocate
  <2>2. im' \in InfraMachine
    BY <2>1 DEF InfraMachine
  <2> QED BY <1>2, <2>1, <2>2 DEF Allocate, InfraMachine
<1>3. CASE Deallocate
  <2> DEFINE next == im.wipeId + 1
  <2>1. next \in Nat /\ next > im.wipeId
    BY <1>3 DEF Deallocate, InfraMachine
  <2>2. im' = [im EXCEPT !.allocated = FALSE, !.wipeId = next] /\ OmniWrites(im')
    BY <1>3 DEF Deallocate
  <2> HIDE DEF next
  <2>3. im' \in InfraMachine
    BY <2>1, <2>2 DEF InfraMachine
  <2> QED BY <1>3, <2>1, <2>2, <2>3 DEF Deallocate, InfraMachine
<1> USE DEF InfraMachine
<1>4. CASE RequestPowerOff
  <2> DEFINE next == im.powerOffRequestId + 1
  <2>1. next \in Nat /\ next > im.powerOffRequestId
    BY <1>4 DEF RequestPowerOff
  <2>2. im' = [im EXCEPT !.powerOffRequestId = next] /\ OmniWrites(im')
    BY <1>4 DEF RequestPowerOff
  <2> HIDE DEF next
  <2> QED BY <1>4, <2>1, <2>2 DEF RequestPowerOff
<1>5. CASE RequestReboot
  <2> DEFINE next == im.requestedRebootId + 1
  <2>1. next \in Nat /\ next > im.requestedRebootId
    BY <1>5 DEF RequestReboot
  <2>2. im' = [im EXCEPT !.requestedRebootId = next] /\ OmniWrites(im')
    BY <1>5 DEF RequestReboot
  <2> HIDE DEF next
  <2> QED BY <1>5, <2>1, <2>2 DEF RequestReboot
<1>6. CASE ObserveInstall
  <2> DEFINE next == im.installEventId + 1
  <2>1. next \in Nat
    BY <1>6 DEF ObserveInstall
  <2>2. im' = [im EXCEPT !.installEventId = next] /\ OmniWrites(im')
    BY <1>6 DEF ObserveInstall
  <2>3. event' \in BOOLEAN /\ requestedIn' = requestedIn
    BY <1>6 DEF ObserveInstall
  <2> HIDE DEF next
  <2>4. /\ im' \in InfraMachine
        /\ im'.powerOffRequestId = im.powerOffRequestId /\ im'.wipeId = im.wipeId
    BY <2>1, <2>2
  <2> QED BY <2>2, <2>3, <2>4
<1>7. CASE Teardown
  BY <1>7 DEF Teardown
<1> QED BY <1>1, <1>2, <1>3, <1>4, <1>5, <1>6, <1>7 DEF Omni

-----------------------------------------------------------------------------
LEMMA OperationsAreTyped ==
  ASSUME PowerInv, PowerOperationSteps \/ OpFail
  PROVE  /\ po' \in PowerOperation
         /\ op' \in OpProgress
         /\ pending' \subseteq Controllers
         /\ sincePowerOn' \in Ages
<1> USE PowerAssumption DEF PowerInv, TypeOK, Controllers, Wake
<1>0. 0 \in Ages /\ MinRebootInterval \in Ages
  BY DEF Ages
<1>1. IdleOp \in OpProgress
  BY DEF OpProgress
<1>2. CASE OpRead
  <2>1. [step |-> "read", im |-> im] \in OpProgress
    BY DEF OpProgress
  <2> QED BY <1>1, <1>2, <2>1 DEF OpRead
<1>3. CASE OpDecide
  <2> DEFINE acked == Acknowledge(op.im)
             command == Command(op.im, acked)
             step == CommandStep(op.im, command)
  <2>1. op.im \in InfraMachine
    BY <1>3 DEF OpDecide, OpProgress, IdleOp
  <2>2. acked \in PowerOperation
    BY <1>3, <2>1, AcknowledgedIsTyped DEF OpDecide, PastInv
  <2>3. command \in Commands /\ step \in {"pxe", "command", "commit"}
    BY DEF Command, Commands, CommandStep
  <2>4. op' \in {IdleOp, [step |-> step, po |-> acked, command |-> command]}
        /\ po' \in {po, acked} /\ pending' \subseteq Controllers /\ UNCHANGED sincePowerOn
    BY <1>3 DEF OpDecide, powerVars
  <2> HIDE DEF acked, command, step
  <2>5. [step |-> step, po |-> acked, command |-> command] \in OpProgress
    BY <2>2, <2>3 DEF OpProgress
  <2> QED BY <1>1, <2>2, <2>4, <2>5
<1>4. CASE OpSetPXEBootOnce \/ OpCommand
  <2>1. \A step \in {"command", "commit"} : [op EXCEPT !.step = step] \in OpProgress
    BY <1>4 DEF OpSetPXEBootOnce, OpCommand, OpProgress, IdleOp
  <2> QED BY <1>4, <2>1 DEF OpSetPXEBootOnce, OpCommand
<1>5. CASE OpCommit
  <2>1. op.po \in PowerOperation
    BY <1>5 DEF OpCommit, OpProgress, IdleOp
  <2> QED BY <1>0, <1>1, <1>5, <2>1 DEF OpCommit
<1>6. CASE OpFail
  BY <1>1, <1>6 DEF OpFail
<1>7. CASE DestroyPowerOperation
  <2>1. [lastPowerOffId |-> 0, wipeIdAtPowerOff |-> 0] \in PowerOperation
    BY DEF PowerOperation
  <2> QED BY <1>0, <1>7, <2>1 DEF DestroyPowerOperation
<1> QED BY <1>2, <1>3, <1>4, <1>5, <1>6, <1>7 DEF PowerOperationSteps

LEMMA RebootsAreTyped ==
  ASSUME TypeOK, RebootStatusSteps \/ RbFail
  PROVE  /\ rs' \in [lastRebootId: Nat] \cup {Nil}
         /\ rb' \in RbProgress
         /\ pending' \subseteq Controllers
         /\ sinceReboot' \in Ages
<1> USE PowerAssumption DEF TypeOK, Controllers, Wake
<1>0. 0 \in Ages
  BY DEF Ages
<1>1. IdleRb \in RbProgress
  BY DEF RbProgress
<1>c. rb.step \in {"pxe", "command", "commit"} =>
        /\ \A step \in {"command", "commit"} : [rb EXCEPT !.step = step] \in RbProgress
        /\ rb.rebootId \in Nat
  BY DEF RbProgress, IdleRb
<1>2. CASE RbRead
  <2>1. [step |-> "read", im |-> im] \in RbProgress
    BY DEF RbProgress
  <2> QED BY <1>1, <1>2, <2>1 DEF RbRead
<1>3. CASE RbDecide
  <2> DEFINE step == RebootStep(RequiredBootMode(rb.im, Configured, ws))
             next == [step |-> step, rebootId |-> rb.im.requestedRebootId,
                      accessible |-> status.accessible, removal |-> FALSE]
  <2>1. rb.im.requestedRebootId \in Nat
    BY <1>3 DEF RbDecide, RbProgress, IdleRb, InfraMachine
  <2>2. step \in {"pxe", "command"}
    BY DEF RebootStep
  <2>3. rb' \in {IdleRb, next} /\ pending' \subseteq Controllers /\ UNCHANGED <<rs, sinceReboot>>
    BY <1>3 DEF RbDecide
  <2> HIDE DEF step
  <2>4. next \in RbProgress
    BY <2>1, <2>2 DEF RbProgress
  <2> QED BY <1>1, <2>3, <2>4
<1>4. CASE RbSetPXEBootOnce \/ RbCommand
  BY <1>4, <1>c DEF RbSetPXEBootOnce, RbCommand
<1>5. CASE RbLeftToHuman
  BY <1>5, <1>1, <1>c DEF RbLeftToHuman
<1>6. CASE RbUnanswered
  BY <1>6, <1>1 DEF RbUnanswered
<1>7. CASE RbCommit
  BY <1>7, <1>0, <1>1, <1>c DEF RbCommit
<1>8. CASE RbFail
  BY <1>8, <1>1, <1>c DEF RbFail
<1>9. CASE RbRemove
  <2>1. \A step \in {"pxe", "command", "commit"} :
          [step |-> step, rebootId |-> 0, accessible |-> FALSE, removal |-> TRUE] \in RbProgress
    BY DEF RbProgress
  <2> QED BY <1>9, <2>1 DEF RbRemove, RebootStep
<1> QED BY <1>2, <1>3, <1>4, <1>5, <1>6, <1>7, <1>8, <1>9 DEF RebootStatusSteps

\* The steps of everyone but Omni and the PowerOperationController leave what is proved here
\* alone.
OtherStep == UNCHANGED <<im, po, op>>

LEMMA StepsOfOthers ==
  RebootStatusSteps \/ Machine \/ RbFail \/ PowerFailure \/ WipeDisks \/ Observe \/ Tick
    => OtherStep
<1> USE DEF OtherStep, omniVars, powerVars
<1>1. RebootStatusSteps \/ RbFail => OtherStep
  BY DEF RebootStatusSteps, RbRead, RbDecide, RbSetPXEBootOnce, RbCommand, RbLeftToHuman,
     RbUnanswered, RbCommit,
     RbRemove, RbFail
<1>2. Machine \/ PowerFailure => OtherStep
  BY DEF Machine, NetworkBoot, DiskBoot, TalosInstalls, TalosShutsDown, HumanPowerCycles, PowerFailure
<1>3. WipeDisks \/ Observe \/ Tick => OtherStep
  BY DEF WipeDisks, Observe, Poll, AgentConnectionEvent, StatusChanges, Tick
<1> QED BY <1>1, <1>2, <1>3

LEMMA BMCStays == [Next]_vars => hasBMC' = hasBMC
<1> USE DEF omniVars
<1>1. Omni => hasBMC' = hasBMC
  BY DEF Omni, Cordon, Allocate, Deallocate, RequestPowerOff, RequestReboot, ObserveInstall, Teardown,
     OmniWrites
<1>2. PowerOperationSteps \/ OpFail => hasBMC' = hasBMC
  BY DEF PowerOperationSteps, OpRead, OpDecide, OpSetPXEBootOnce, OpCommand, OpCommit,
     DestroyPowerOperation, OpFail
<1>3. RebootStatusSteps \/ RbFail => hasBMC' = hasBMC
  BY DEF RebootStatusSteps, RbRead, RbDecide, RbSetPXEBootOnce, RbCommand, RbLeftToHuman,
     RbUnanswered, RbCommit, RbRemove, RbFail
<1>4. Machine \/ PowerFailure => hasBMC' = hasBMC
  BY DEF Machine, NetworkBoot, DiskBoot, TalosInstalls, TalosShutsDown, HumanPowerCycles, PowerFailure
<1>5. WipeDisks \/ Observe \/ Tick => hasBMC' = hasBMC
  BY DEF WipeDisks, Observe, Poll, AgentConnectionEvent, StatusChanges, Tick
<1> QED BY <1>1, <1>2, <1>3, <1>4, <1>5 DEF Next, Actions, Failures, vars

LEMMA TypeStep == PowerInv /\ [Next]_vars => TypeOK'
<1> SUFFICES ASSUME PowerInv, [Next]_vars PROVE TypeOK'
  OBVIOUS
<1> USE PowerAssumption DEF PowerInv, TypeOK, omniVars, powerVars, rebootVars, machineVars
<1>b. hasBMC' = hasBMC
  BY BMCStays
<1>m. Fails \/ Accident \/ UNCHANGED mishaps => failures' \in Nat /\ accidents' \in Nat
  <2>1. CASE Fails
    BY <2>1 DEF Fails
  <2>2. CASE Accident
    BY <2>2 DEF Accident
  <2>3. CASE UNCHANGED mishaps
    BY <2>3 DEF mishaps
  <2> QED BY <2>1, <2>2, <2>3
<1>w. \A c \in SUBSET Controllers : pending \cup c \subseteq Controllers
  OBVIOUS
<1>1. CASE Omni
  BY <1>1, <1>b, <1>m, StepsOfOmni DEF OmniStep
<1>2. CASE PowerOperationSteps \/ OpFail
  <2>1. /\ po' \in PowerOperation /\ op' \in OpProgress /\ pending' \subseteq Controllers
        /\ sincePowerOn' \in Ages
    BY <1>2, OperationsAreTyped
  <2>2. Fails \/ UNCHANGED mishaps
    BY <1>2 DEF PowerOperationSteps, OpRead, OpDecide, OpSetPXEBootOnce, OpCommand, OpCommit,
       DestroyPowerOperation, OpFail
  <2>3. /\ mode' \in {"off", "booting", "searching", "agent", "talos"}
        /\ pxeOnce' \in BOOLEAN /\ UNCHANGED <<onDisk, event>>
    BY <1>2 DEF PowerOperationSteps, OpRead, OpDecide, OpSetPXEBootOnce, OpCommand, OpCommit,
       DestroyPowerOperation, OpFail
  <2>4. UNCHANGED <<im, ws, rs, status, rb, sinceReboot, requestedIn>>
    BY <1>2 DEF PowerOperationSteps, OpRead, OpDecide, OpSetPXEBootOnce, OpCommand, OpCommit,
       DestroyPowerOperation, OpFail
  <2> QED BY <1>b, <1>m, <2>1, <2>2, <2>3, <2>4
<1>3. CASE RebootStatusSteps \/ RbFail
  <2>1. /\ rs' \in [lastRebootId: Nat] \cup {Nil} /\ rb' \in RbProgress
        /\ pending' \subseteq Controllers /\ sinceReboot' \in Ages
    BY <1>3, RebootsAreTyped
  <2>2. failures' \in Nat /\ accidents' \in Nat
    BY <1>3, <1>b, <1>m DEF RebootStatusSteps, RbRead, RbDecide, RbSetPXEBootOnce, RbCommand, RbLeftToHuman,
       RbUnanswered, RbCommit, RbRemove, RbFail
  <2>3. /\ mode' \in {"off", "booting", "searching", "agent", "talos"}
        /\ pxeOnce' \in BOOLEAN /\ UNCHANGED <<onDisk, event>>
    BY <1>3 DEF RebootStatusSteps, RbRead, RbDecide, RbSetPXEBootOnce, RbCommand, RebootOverBMC,
       RebootOverAgent, RbLeftToHuman, RbUnanswered, RbCommit, RbRemove, RbFail
  <2>4. UNCHANGED <<im, ws, po, status, op, sincePowerOn, requestedIn>>
    BY <1>3 DEF RebootStatusSteps, RbRead, RbDecide, RbSetPXEBootOnce, RbCommand, RbLeftToHuman,
       RbUnanswered, RbCommit, RbRemove, RbFail
  <2> QED BY <1>b, <2>1, <2>2, <2>3, <2>4
<1>4. CASE Machine \/ PowerFailure
  BY <1>4, <1>b, <1>m DEF Machine, NetworkBoot, DiskBoot, TalosInstalls, TalosShutsDown, HumanPowerCycles, PowerFailure
<1>5. CASE WipeDisks
  <2>1. ws' \in WipeStatus
    BY <1>5 DEF WipeDisks, WipeStatus, InfraMachine
  <2> QED BY <1>5, <1>b, <1>w, <2>1 DEF WipeDisks, Wake, mishaps
<1>6. CASE Observe
  <2> DEFINE accessible == mode = "agent"
  <2>1. SeenPower \in {"unknown", "off", "on"} /\ accessible \in BOOLEAN
    BY DEF SeenPower
  <2>3. status' \in {[power |-> SeenPower, accessible |-> accessible],
                     [status EXCEPT !.accessible = accessible]}
    BY <1>6 DEF Observe, Poll, AgentConnectionEvent, StatusChanges
  <2> HIDE DEF accessible
  <2>2. status' \in [power: {"unknown", "off", "on"}, accessible: BOOLEAN]
    BY <2>1, <2>3
  <2> QED BY <1>6, <1>b, <1>w, <2>2 DEF Observe, Poll, AgentConnectionEvent, StatusChanges, Wake, mishaps
<1>7. CASE Tick
  BY <1>7, <1>b DEF Tick, Ages, mishaps
<1>8. CASE UNCHANGED vars
  BY <1>8, <1>b DEF vars
<1> QED BY <1>1, <1>2, <1>3, <1>4, <1>5, <1>6, <1>7, <1>8 DEF Next, Actions, Failures

\* Every reconcile of the PowerOperationController works on an infra.Machine of the past, and
\* leaves behind what that one asked for.
LEMMA PastStep == PowerInv /\ [Next]_vars => PastInv'
<1> SUFFICES ASSUME PowerInv, [Next]_vars PROVE PastInv'
  OBVIOUS
<1>t. TypeOK' /\ TypeOK /\ PastInv
  BY TypeStep DEF PowerInv
<1>i. /\ im.powerOffRequestId \in Nat /\ im.wipeId \in Nat
      /\ po.lastPowerOffId \in Nat /\ po.wipeIdAtPowerOff \in Nat
  BY <1>t, PowerAssumption DEF TypeOK, InfraMachine, PowerOperation
<1>r. op.step = "read" => op.im \in InfraMachine
  BY <1>t DEF TypeOK, OpProgress, IdleOp
<1>c. op.step \in {"pxe", "command", "commit"} => op.po \in PowerOperation
  BY <1>t DEF TypeOK, OpProgress, IdleOp
<1>1. CASE Omni
  <2>1. OmniStep
    BY <1>1, <1>t, StepsOfOmni
  <2> QED BY <2>1, <1>t, <1>r, <1>c, PowerAssumption
          DEF OmniStep, PastInv, NotNewer, TypeOK, InfraMachine, PowerOperation, powerVars
<1>2. CASE OpRead
  BY <1>2, <1>t, <1>i DEF OpRead, PastInv, NotNewer, IdleOp, omniVars
<1>3. CASE OpDecide
  <2> DEFINE acked == Acknowledge(op.im)
  <2>1. acked \in PowerOperation /\ NotNewer(acked, op.im)
    BY <1>3, <1>t, <1>r, AcknowledgedIsTyped DEF OpDecide, PastInv, TypeOK
  <2>2. NotNewer(acked, im)
    BY <1>3, <2>1, <1>t, <1>r, PowerAssumption
       DEF OpDecide, PastInv, NotNewer, TypeOK, InfraMachine, PowerOperation
  <2>3. /\ po' \in {po, acked} /\ UNCHANGED im
        /\ op' = IdleOp \/ (op'.step \in {"pxe", "command", "commit"} /\ op'.po = acked)
    <3>1. CASE op' = IdleOp
      BY <1>3, <3>1 DEF OpDecide, omniVars
    <3>2. CASE op' # IdleOp
      <4> DEFINE step == CommandStep(op.im, Command(op.im, acked))
      <4>1. step \in {"pxe", "command", "commit"}
        BY DEF CommandStep
      <4>2. op' = [step |-> step, po |-> acked, command |-> Command(op.im, acked)] /\ UNCHANGED im
        BY <1>3, <3>2 DEF OpDecide, omniVars
      <4>3. po' \in {po, acked}
        BY <1>3 DEF OpDecide
      <4> QED BY <4>1, <4>2, <4>3
    <3> QED BY <3>1, <3>2
  <2> HIDE DEF acked
  <2> QED BY <2>2, <2>3, <1>t DEF PastInv, NotNewer, IdleOp
<1>4. CASE OpSetPXEBootOnce \/ OpCommand
  <2>1. op'.step \in {"command", "commit"} /\ op'.po = op.po /\ UNCHANGED <<im, po>>
    BY <1>4, <1>t DEF OpSetPXEBootOnce, OpCommand, omniVars, TypeOK, OpProgress, IdleOp
  <2> QED BY <2>1, <1>4, <1>t DEF OpSetPXEBootOnce, OpCommand, PastInv, NotNewer
<1>5. CASE OpCommit
  BY <1>5, <1>t DEF OpCommit, PastInv, NotNewer, IdleOp, omniVars
<1>6. CASE OpFail
  BY <1>6, <1>t DEF OpFail, PastInv, NotNewer, IdleOp, omniVars
<1>7. CASE DestroyPowerOperation
  BY <1>7, <1>t, <1>i DEF DestroyPowerOperation, PastInv, NotNewer, IdleOp, omniVars
<1>8. CASE OtherStep \/ UNCHANGED vars
  BY <1>8, <1>t DEF OtherStep, vars, PastInv, NotNewer
<1> QED BY <1>1, <1>2, <1>3, <1>4, <1>5, <1>6, <1>7, <1>8, StepsOfOthers
        DEF Next, Actions, Failures, PowerOperationSteps

LEMMA PowerOnStep == PowerInv /\ [Next]_vars => PowerOnInv'
<1> SUFFICES ASSUME PowerInv, [Next]_vars PROVE PowerOnInv'
  OBVIOUS
<1>t. TypeOK' /\ TypeOK /\ PastInv /\ PowerOnInv
  BY TypeStep DEF PowerInv
<1>1. CASE Omni
  <2>1. OmniStep
    BY <1>1, <1>t, StepsOfOmni
  <2>2. SUFFICES ASSUME op.step \in {"pxe", "command"}, op.command = "on"
                 PROVE  ~IsPowerOffActive(im', po)
    BY <2>1 DEF OmniStep, PowerOnInv, powerVars, IsPowerOffActive
  <2>3. ~IsPowerOffActive(im, po) /\ NotNewer(po, im)
    BY <2>2, <1>t DEF PowerOnInv, PastInv
  <2> QED BY <2>1, <2>3, <1>t, ChangeStaysInactive DEF OmniStep, TypeOK
<1>2. CASE OpDecide
  <2>1. SUFFICES ASSUME op'.step \in {"pxe", "command"}, op'.command = "on"
                 PROVE  ~IsPowerOffActive(im, po)
    BY <1>2 DEF OpDecide, PowerOnInv, IdleOp, omniVars, IsPowerOffActive
  <2>2. Command(op.im, Acknowledge(op.im)) = "on"
    BY <1>2, <2>1 DEF OpDecide, IdleOp
  <2>3. ~IsPowerOffActive(op.im, Acknowledge(op.im))
    BY <2>2 DEF Command, MustPowerOn
  <2>4. op.im \in InfraMachine
    BY <1>2, <1>t DEF OpDecide, TypeOK, OpProgress, IdleOp
  <2> QED BY <1>2, <2>3, <2>4, <1>t, InactiveStays DEF OpDecide, PastInv, TypeOK
<1>3. CASE OpRead \/ OpCommand \/ OpCommit \/ OpFail \/ DestroyPowerOperation
  <2>1. op'.step \notin {"pxe", "command"}
    BY <1>3, <1>t DEF OpRead, OpCommand, OpCommit, OpFail, DestroyPowerOperation, IdleOp, TypeOK,
       OpProgress
  <2> QED BY <2>1 DEF PowerOnInv
<1>4. CASE OpSetPXEBootOnce
  BY <1>4, <1>t DEF OpSetPXEBootOnce, omniVars, PowerOnInv, IsPowerOffActive, TypeOK, OpProgress
<1>5. CASE OtherStep \/ UNCHANGED vars
  BY <1>5, <1>t DEF OtherStep, vars, PowerOnInv, IsPowerOffActive
<1> QED BY <1>1, <1>2, <1>3, <1>4, <1>5, StepsOfOthers DEF Next, Actions, Failures, PowerOperationSteps

-----------------------------------------------------------------------------
\* PowerInv is an invariant: what is acknowledged is of the past of the infra.Machine, and a
\* power on that is about to be sent is not against an acknowledged power-off.
THEOREM PowerInvariance == Spec => []PowerInv
<1>1. Init => PowerInv
  BY InitInv
<1>2. PowerInv /\ [Next]_vars => PowerInv'
  BY TypeStep, PastStep, PowerOnStep DEF PowerInv
<1> QED BY <1>1, <1>2, PTL DEF Spec

\* The PowerOperationController never powers a machine on under a power-off request
\* acknowledged in the tenancy in force, however old the infra.Machine it decided on.
THEOREM PowerOffIsHonoured == Spec => PowerOffHonoured
<1> DEFINE Honoured == OpCommand /\ op.command = "on" => ~IsPowerOffActive(im, po)
<1>1. PowerInv => [Honoured]_vars
  BY DEF PowerInv, PowerOnInv, OpCommand
<1> QED BY <1>1, PowerInvariance, PTL DEF PowerOffHonoured

-----------------------------------------------------------------------------
(* No request is forgotten, and each controller keeps its own interval.       *)

\* Why none is: a reconcile with nothing new to look at works on what Omni asks for now, and
\* what it is about to record is that.
OpKeepsUp ==
  "PowerOperation" \notin pending /\ Managed =>
    /\ op.step = "read" => op.im = im
    /\ op.step \in {"pxe", "command", "commit"} => op.po.lastPowerOffId = im.powerOffRequestId
    /\ op = IdleOp /\ hasBMC => po.lastPowerOffId = im.powerOffRequestId

RbKeepsUp ==
  "RebootStatus" \notin pending /\ Managed =>
    /\ rb.step = "read" => rb.im = im
    /\ rb.step \in {"pxe", "command", "commit"} => rb.rebootId = im.requestedRebootId
    /\ rb = IdleRb /\ hasBMC /\ rs # Nil => rs.lastRebootId = im.requestedRebootId

\* Only the controller itself ends its interval, and it does not before it is idle.
IntervalInv ==
  /\ rb.step \in {"pxe", "command"} /\ ~rb.removal => sinceReboot = MinRebootInterval
  /\ op.step \in {"pxe", "command"} /\ op.command = "off" => sincePowerOn = MinRebootInterval

\* A reconcile of a removal is of a machine that is torn down.
RemovalInv == rb.step \in {"pxe", "command", "commit"} /\ rb.removal => ~Running

KeepsUpInv == RemovalInv /\ OpKeepsUp /\ RbKeepsUp /\ IntervalInv

\* What a step of the PowerOperationController leaves to the other one.
LEMMA OperationsLeave ==
  ASSUME TypeOK, PowerOperationSteps \/ OpFail
  PROVE  /\ UNCHANGED <<im, rs, rb, sinceReboot>>
         /\ "RebootStatus" \in pending => "RebootStatus" \in pending'
BY DEF PowerOperationSteps, OpRead, OpDecide, OpSetPXEBootOnce, OpCommand, OpCommit,
   DestroyPowerOperation, OpFail, Wake, omniVars, rebootVars

LEMMA RebootsLeave ==
  ASSUME TypeOK, RebootStatusSteps \/ RbFail
  PROVE  /\ UNCHANGED <<im, po, op, sincePowerOn>>
         /\ "PowerOperation" \in pending => "PowerOperation" \in pending'
BY DEF RebootStatusSteps, RbRead, RbDecide, RbSetPXEBootOnce, RbCommand, RbLeftToHuman,
   RbUnanswered, RbCommit, RbRemove, RbFail, Wake, omniVars, powerVars

\* Omni's writes have everyone look again.
LEMMA OmniWakes ==
  ASSUME Omni
  PROVE  /\ pending' = pending \cup Controllers
         /\ Running
         /\ UNCHANGED <<hasBMC, powerVars, rebootVars>>
BY DEF Omni, Cordon, Allocate, Deallocate, RequestPowerOff, RequestReboot, ObserveInstall, Teardown,
     OmniWrites, Wake

\* The machine, the wiping of it, what is seen of it and the time leave the reconciles as they
\* are, and who has something to look at still has.
LEMMA WorldLeaves ==
  ASSUME TypeOK, Machine \/ PowerFailure \/ WipeDisks \/ Observe
  PROVE  /\ UNCHANGED <<hasBMC, im, powerVars, rebootVars>>
         /\ pending \subseteq pending'
BY DEF Machine, NetworkBoot, DiskBoot, TalosInstalls, TalosShutsDown, HumanPowerCycles, PowerFailure, WipeDisks,
   Observe, Poll, AgentConnectionEvent, StatusChanges, Wake, omniVars

\* Acknowledging what is read makes it the last acknowledged, a first request or none included.
LEMMA AcknowledgedIsLast ==
  ASSUME po \in PowerOperation, NEW m \in InfraMachine, NotNewer(po, m)
  PROVE  Acknowledge(m).lastPowerOffId = m.powerOffRequestId
BY PowerAssumption DEF Acknowledge, NotNewer, PowerOperation, InfraMachine

LEMMA OpKeepsUpStep ==
  PowerInv /\ OpKeepsUp /\ [Next]_vars => OpKeepsUp'
<1> SUFFICES ASSUME PowerInv, OpKeepsUp, [Next]_vars,
                    "PowerOperation" \notin pending', Managed'
             PROVE  /\ op'.step = "read" => op'.im = im'
                    /\ op'.step \in {"pxe", "command", "commit"}
                         => op'.po.lastPowerOffId = im'.powerOffRequestId
                    /\ op' = IdleOp /\ hasBMC' => po'.lastPowerOffId = im'.powerOffRequestId
  BY DEF OpKeepsUp
<1>t. TypeOK /\ PastInv
  BY DEF PowerInv
<1>b. hasBMC' = hasBMC
  BY BMCStays
<1>1. CASE Omni
  BY <1>1, OmniWakes DEF Controllers
<1>2. CASE OpRead
  BY <1>2 DEF OpRead, IdleOp, Managed, Running, omniVars
<1>3. CASE OpDecide
  <2> DEFINE acked == Acknowledge(op.im)
             command == Command(op.im, acked)
             step == CommandStep(op.im, command)
  <2>1. "PowerOperation" \notin pending /\ Managed /\ im' = im
    BY <1>3 DEF OpDecide, Wake, omniVars, Managed, Running, ValidateInfraMachine
  <2>2. op.im = im /\ im \in InfraMachine
    BY <1>3, <1>t, <2>1 DEF OpDecide, OpKeepsUp, TypeOK
  <2>3. acked.lastPowerOffId = im.powerOffRequestId
    BY <2>2, <1>t, AcknowledgedIsLast DEF PastInv, TypeOK
  <2>4. step \in {"pxe", "command", "commit"}
    BY DEF CommandStep
  <2>5. \/ op' = IdleOp /\ ~hasBMC
        \/ op' = [step |-> step, po |-> acked, command |-> command]
    BY <1>3 DEF OpDecide, Wake
  <2> HIDE DEF acked, step, command
  <2> QED BY <1>b, <2>1, <2>3, <2>4, <2>5 DEF IdleOp
<1>4. CASE OpSetPXEBootOnce \/ OpCommand
  <2>1. op'.step \in {"command", "commit"} /\ op'.po = op.po /\ UNCHANGED <<im, pending>>
    BY <1>4, <1>t DEF OpSetPXEBootOnce, OpCommand, omniVars, TypeOK, OpProgress, IdleOp
  <2>2. Managed /\ op.step \in {"pxe", "command", "commit"}
    BY <1>4, <2>1 DEF OpSetPXEBootOnce, OpCommand, Managed, Running, ValidateInfraMachine
  <2> QED BY <2>1, <2>2 DEF OpKeepsUp, IdleOp
<1>5. CASE OpCommit
  <2>1. "PowerOperation" \notin pending /\ Managed /\ im' = im
    BY <1>5 DEF OpCommit, Wake, omniVars, Managed, Running, ValidateInfraMachine
  <2>2. op.po.lastPowerOffId = im.powerOffRequestId
    BY <1>5, <2>1 DEF OpCommit, OpKeepsUp
  <2> QED BY <1>5, <2>1, <2>2 DEF OpCommit, IdleOp
<1>6. CASE OpFail
  BY <1>6 DEF OpFail, Wake
<1>7. CASE DestroyPowerOperation
  BY <1>7 DEF DestroyPowerOperation, Managed, Running, omniVars
<1>8. CASE RebootStatusSteps \/ RbFail \/ Machine \/ PowerFailure \/ WipeDisks \/ Observe \/ Tick
           \/ UNCHANGED vars
  <2>1. UNCHANGED <<im, po, op>> /\ "PowerOperation" \notin pending
    BY <1>8, <1>t, RebootsLeave, WorldLeaves DEF Tick, vars, omniVars, powerVars
  <2>2. Managed
    BY <2>1 DEF Managed, Running, ValidateInfraMachine
  <2> QED BY <1>b, <2>1, <2>2 DEF OpKeepsUp
<1> QED BY <1>1, <1>2, <1>3, <1>4, <1>5, <1>6, <1>7, <1>8
        DEF Next, Actions, Failures, PowerOperationSteps

LEMMA RemovalStep ==
  PowerInv /\ RemovalInv /\ [Next]_vars => RemovalInv'
<1> SUFFICES ASSUME PowerInv, RemovalInv, [Next]_vars,
                    rb'.step \in {"pxe", "command", "commit"}, rb'.removal
             PROVE  ~Running'
  BY DEF RemovalInv
<1>t. TypeOK
  BY DEF PowerInv
<1>1. CASE RbSetPXEBootOnce \/ RbCommand \/ RbLeftToHuman
  <2>0. rb.step \in {"pxe", "command"} /\ im' = im
    BY <1>1 DEF RbSetPXEBootOnce, RbCommand, RbLeftToHuman, omniVars
  <2>1. rb.step \in {"pxe", "command", "commit"} /\ rb'.removal = rb.removal /\ im' = im
    <3>1. rb' \in {[rb EXCEPT !.step = "command"], [rb EXCEPT !.step = "commit"], IdleRb}
      BY <1>1 DEF RbSetPXEBootOnce, RbCommand, RbLeftToHuman
    <3>2. rb' # IdleRb
      BY DEF IdleRb
    <3>3. \A step \in {"command", "commit"} : [rb EXCEPT !.step = step].removal = rb.removal
      BY <2>0, <1>t DEF TypeOK, RbProgress, IdleRb
    <3> QED BY <2>0, <3>1, <3>2, <3>3
  <2> QED BY <2>1 DEF RemovalInv, Running
<1>2. CASE RbRead \/ RbDecide \/ RbUnanswered \/ RbCommit
  BY <1>2 DEF RbRead, RbDecide, RbUnanswered, RbCommit, IdleRb
<1>3. CASE RbRemove
  BY <1>3 DEF RbRemove, Running, omniVars
<1>4. CASE RbFail
  <2>1. rb.step \in {"pxe", "command"} /\ rb.removal /\ im' = im
    BY <1>4, <1>t DEF RbFail, TypeOK, RbProgress, IdleRb, omniVars
  <2> QED BY <2>1 DEF RemovalInv, Running
<1>5. CASE Omni
  <2>1. Running /\ rb' = rb
    BY <1>5, OmniWakes DEF rebootVars
  <2> QED BY <2>1 DEF RemovalInv
<1>6. CASE PowerOperationSteps \/ OpFail \/ Machine \/ PowerFailure \/ WipeDisks \/ Observe \/ Tick
           \/ UNCHANGED vars
  <2>1. UNCHANGED <<im, rb>>
    BY <1>6, <1>t, OperationsLeave, WorldLeaves DEF Tick, vars, omniVars, rebootVars
  <2> QED BY <2>1 DEF RemovalInv, Running
<1> QED BY <1>1, <1>2, <1>3, <1>4, <1>5, <1>6 DEF Next, Actions, Failures, RebootStatusSteps

LEMMA RbKeepsUpStep ==
  PowerInv /\ RemovalInv /\ RbKeepsUp /\ [Next]_vars => RbKeepsUp'
<1> SUFFICES ASSUME PowerInv, RemovalInv, RbKeepsUp, [Next]_vars,
                    "RebootStatus" \notin pending', Managed'
             PROVE  /\ rb'.step = "read" => rb'.im = im'
                    /\ rb'.step \in {"pxe", "command", "commit"}
                         => rb'.rebootId = im'.requestedRebootId
                    /\ rb' = IdleRb /\ hasBMC' /\ rs' # Nil
                         => rs'.lastRebootId = im'.requestedRebootId
  BY DEF RbKeepsUp
<1>t. TypeOK
  BY DEF PowerInv
<1>b. hasBMC' = hasBMC
  BY BMCStays
<1> USE DEF Managed, Running, ValidateInfraMachine, omniVars
<1>1. CASE Omni
  BY <1>1, OmniWakes DEF Controllers
<1>2. CASE RbRead
  BY <1>2 DEF RbRead, IdleRb
<1>3. CASE RbDecide
  <2> DEFINE step == RebootStep(RequiredBootMode(rb.im, Configured, ws))
  <2>1. "RebootStatus" \notin pending /\ Managed /\ UNCHANGED <<im, rs>>
    BY <1>3 DEF RbDecide, Wake
  <2>2. rb.im = im
    BY <1>3, <2>1 DEF RbDecide, RbKeepsUp
  <2>3. step \in {"pxe", "command"}
    BY DEF RebootStep
  <2>4. \/ rb' = IdleRb /\ ~RebootIsDue(im)
        \/ rb' = [step |-> step, rebootId |-> im.requestedRebootId,
                  accessible |-> status.accessible, removal |-> FALSE]
    BY <1>3, <2>2 DEF RbDecide, Wake
  <2> HIDE DEF step
  <2> QED BY <2>1, <2>3, <2>4 DEF IdleRb, RebootIsDue
<1>4. CASE RbSetPXEBootOnce \/ RbCommand
  <2>1. rb'.step \in {"command", "commit"} /\ rb'.rebootId = rb.rebootId /\ UNCHANGED <<im, pending>>
    BY <1>4, <1>t DEF RbSetPXEBootOnce, RbCommand, TypeOK, RbProgress, IdleRb
  <2>2. Managed /\ rb.step \in {"pxe", "command", "commit"}
    BY <1>4, <2>1 DEF RbSetPXEBootOnce, RbCommand
  <2> QED BY <2>1, <2>2 DEF RbKeepsUp, IdleRb
<1>5. CASE RbLeftToHuman
  <2>1. ~hasBMC /\ ~rb.removal /\ rb' = IdleRb
    BY <1>5 DEF RbLeftToHuman, RemovalInv
  <2> QED BY <1>b, <2>1 DEF IdleRb
<1>6. CASE RbUnanswered \/ RbFail
  BY <1>6 DEF RbUnanswered, RbFail, Wake
<1>7. CASE RbCommit
  <2>1. "RebootStatus" \notin pending /\ im' = im /\ ~rb.removal
    BY <1>7 DEF RbCommit, Wake, RemovalInv
  <2>2. rb.rebootId = im.requestedRebootId
    BY <1>7, <2>1 DEF RbCommit, RbKeepsUp
  <2> QED BY <1>7, <2>1, <2>2 DEF RbCommit, IdleRb
<1>8. CASE RbRemove
  BY <1>8 DEF RbRemove
<1>9. CASE PowerOperationSteps \/ OpFail \/ Machine \/ PowerFailure \/ WipeDisks \/ Observe \/ Tick
           \/ UNCHANGED vars
  <2>1. UNCHANGED <<im, rs, rb>> /\ "RebootStatus" \notin pending
    BY <1>9, <1>t, OperationsLeave, WorldLeaves DEF Tick, vars, rebootVars
  <2> QED BY <1>b, <2>1 DEF RbKeepsUp
<1> QED BY <1>1, <1>2, <1>3, <1>4, <1>5, <1>6, <1>7, <1>8, <1>9
        DEF Next, Actions, Failures, RebootStatusSteps

LEMMA IntervalStep ==
  PowerInv /\ IntervalInv /\ [Next]_vars => IntervalInv'
<1> SUFFICES ASSUME PowerInv, IntervalInv, [Next]_vars PROVE IntervalInv'
  OBVIOUS
<1>t. TypeOK
  BY DEF PowerInv
<1>c. ~InCooldown => sincePowerOn = MinRebootInterval /\ sinceReboot = MinRebootInterval
  BY <1>t, PowerAssumption DEF InCooldown, TypeOK, Ages
<1>1. CASE OpDecide
  <2> DEFINE command == Command(op.im, Acknowledge(op.im))
             step == CommandStep(op.im, command)
  <2>1. \/ op' = IdleOp
        \/ /\ op' = [step |-> step, po |-> Acknowledge(op.im), command |-> command]
           /\ ~(command = "off" /\ InCooldown)
    BY <1>1 DEF OpDecide
  <2>2. UNCHANGED <<rb, sinceReboot, sincePowerOn>>
    BY <1>1 DEF OpDecide, rebootVars
  <2> HIDE DEF command, step
  <2> QED BY <1>c, <2>1, <2>2 DEF IntervalInv, IdleOp
<1>2. CASE OpSetPXEBootOnce
  <2>1. op.step = "pxe" /\ op'.command = op.command
    BY <1>2, <1>t DEF OpSetPXEBootOnce, TypeOK, OpProgress
  <2> QED BY <1>2, <2>1 DEF OpSetPXEBootOnce, IntervalInv, rebootVars
<1>3. CASE OpRead \/ OpCommand \/ OpCommit \/ OpFail \/ DestroyPowerOperation
  <2>1. op'.step \notin {"pxe", "command"}
    BY <1>3, <1>t DEF OpRead, OpCommand, OpCommit, OpFail, DestroyPowerOperation, IdleOp, TypeOK,
       OpProgress
  <2>2. UNCHANGED <<rb, sinceReboot>>
    BY <1>3, <1>t, OperationsLeave DEF PowerOperationSteps
  <2> QED BY <2>1, <2>2 DEF IntervalInv
<1>4. CASE RbDecide
  <2> DEFINE step == RebootStep(RequiredBootMode(rb.im, Configured, ws))
             decided == [step |-> step, rebootId |-> rb.im.requestedRebootId,
                         accessible |-> status.accessible, removal |-> FALSE]
  <2>1. rb' = IdleRb \/ (rb' = decided /\ ~InCooldown)
    BY <1>4 DEF RbDecide
  <2>2. UNCHANGED <<op, sinceReboot, sincePowerOn>>
    BY <1>4 DEF RbDecide, powerVars
  <2> HIDE DEF step
  <2> QED BY <1>c, <2>1, <2>2 DEF IntervalInv, IdleRb
<1>5. CASE RbSetPXEBootOnce
  <2>1. rb.step = "pxe" /\ rb'.removal = rb.removal
    BY <1>5, <1>t DEF RbSetPXEBootOnce, TypeOK, RbProgress
  <2> QED BY <1>5, <2>1 DEF RbSetPXEBootOnce, IntervalInv, powerVars
<1>6. CASE RbRead \/ RbCommand \/ RbLeftToHuman \/ RbUnanswered \/ RbCommit \/ RbFail
  <2>1. rb'.step \notin {"pxe", "command"}
    BY <1>6, <1>t DEF RbRead, RbCommand, RbLeftToHuman, RbUnanswered, RbCommit, RbFail, IdleRb,
       TypeOK, RbProgress
  <2>2. UNCHANGED <<op, sincePowerOn>>
    BY <1>6, <1>t, RebootsLeave DEF RebootStatusSteps
  <2> QED BY <2>1, <2>2 DEF IntervalInv
<1>7. CASE RbRemove
  BY <1>7 DEF RbRemove, IntervalInv, powerVars
<1>8. CASE Tick
  BY <1>8, <1>t, PowerAssumption DEF Tick, IntervalInv, TypeOK, Ages
<1>9. CASE Omni \/ Machine \/ PowerFailure \/ WipeDisks \/ Observe \/ UNCHANGED vars
  <2>1. UNCHANGED <<powerVars, rebootVars>>
    BY <1>9, <1>t, OmniWakes, WorldLeaves DEF vars, powerVars, rebootVars
  <2> QED BY <2>1 DEF IntervalInv, powerVars, rebootVars
<1> QED BY <1>1, <1>2, <1>3, <1>4, <1>5, <1>6, <1>7, <1>8, <1>9
        DEF Next, Actions, Failures, PowerOperationSteps, RebootStatusSteps

\* Whatever is requested while a reconcile is under way, in whatever order the two controllers
\* and Omni take their steps: KeepsUpInv is inductive together with PowerInv.
THEOREM RequestsAreKept == Spec => [](KeepsUpInv /\ NoRequestForgotten)
<1>1. Init => KeepsUpInv
  BY DEF Init, KeepsUpInv, RemovalInv, OpKeepsUp, RbKeepsUp, IntervalInv, IdleOp, IdleRb, Controllers
<1>2. PowerInv /\ KeepsUpInv /\ [Next]_vars => KeepsUpInv'
  BY RemovalStep, OpKeepsUpStep, RbKeepsUpStep, IntervalStep DEF KeepsUpInv
<1>3. KeepsUpInv => NoRequestForgotten
  BY DEF KeepsUpInv, OpKeepsUp, RbKeepsUp, NoRequestForgotten
<1> QED BY <1>1, <1>2, <1>3, PowerInvariance, PTL DEF Spec

\* Each controller commands the machine only once the interval since its own last record is
\* over, for every length of it.
THEOREM EachKeepsItsInterval == Spec => IntervalIsKept
<1> DEFINE Kept == /\ RbCommand /\ ~rb.removal => sinceReboot = MinRebootInterval
                   /\ OpCommand /\ op.command = "off" => sincePowerOn = MinRebootInterval
<1>1. KeepsUpInv => [Kept]_vars
  BY DEF KeepsUpInv, IntervalInv, RbCommand, OpCommand
<1> QED BY <1>1, RequestsAreKept, PTL DEF IntervalIsKept

\* No command undoes what was acknowledged, or follows the last one too soon.
THEOREM CommandsAreAlwaysDue == Spec => CommandsAreDue
BY PowerOffIsHonoured, EachKeepsItsInterval DEF CommandsAreDue

\* The fair specification, with a restricted passing of time, is one of these.
THEOREM FairIsSafe ==
  FairSpec => []PowerInv /\ []NoRequestForgotten /\ CommandsAreDue
<1>1. [Actions \/ TimelyTick]_vars => [Next]_vars
  BY DEF Next, TimelyTick
<1>2. FairSpec => Spec
  BY <1>1, PTL DEF FairSpec, Spec
<1>3. Spec => []NoRequestForgotten
  BY RequestsAreKept, PTL
<1> QED BY <1>2, <1>3, PowerInvariance, CommandsAreAlwaysDue
=============================================================================
