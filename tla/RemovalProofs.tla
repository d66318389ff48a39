------------------------------ MODULE RemovalProofs ------------------------------
(***************************************************************************)
(* Proofs about Removal, for any set of controllers, registrations and     *)
(* mishaps: nothing is left behind or held for ever, the reboot on removal *)
(* comes before the release, and the removal is orderly.                   *)
(***************************************************************************)
EXTENDS Removal, TLAPS

\* What a reconcile goes through before and after it has seen the removal.
Kept == {"holdStatus", "holdBMC", "transform"}
Leaving == {"attempt", "dropStatus", "dropBMC", "teardown", "destroy", "release"}

Leaves == im # Nil /\ im.phase = "tearingDown"

\* A controller works for a machine it holds, and a machine it holds leaves once it does not.
StepInv ==
  \A c \in Controllers :
    /\ rec[c] \in Kept => Holds(c)
    /\ rec[c] \in Leaving /\ Holds(c) => Leaves
    /\ rec[c] = "release" /\ c # Status => out[c] = Nil
    /\ rec[c] = "destroy" => out[c] # Nil /\ out[c].phase = "tearingDown" /\ out[c].finalizers = {}

\* The BMCConfigurationController leaves last.
LastInv == rec[BMC] \in Leaving /\ Holds(BMC) => im.finalizers \subseteq {BMC}

\* The RebootStatusController has let go of what it held before it lets go of the machine.
DropInv ==
  /\ rec[Reboot] \in {"dropBMC", "teardown", "destroy", "release"} => ~HeldBy(Reboot, Status)
  /\ rec[Reboot] \in {"teardown", "destroy", "release"} => ~HeldBy(Reboot, BMC)

Attempted == attempt \in {"needless", "made"}

\* What the reboot on removal needs is there until it has been attempted.
AttemptInv ==
  /\ Running => ~held
  /\ held /\ Holds(Reboot) =>
       /\ Attempted \/ (HeldBy(Reboot, Status) /\ HeldBy(Reboot, BMC))
       /\ rec[Reboot] \in Leaving \ {"attempt"} => Attempted

IndInv == TypeOK /\ NoOrphans /\ NothingStuck /\ StepInv /\ LastInv /\ DropInv /\ AttemptInv

Distinct == BMC # Status /\ BMC # Reboot /\ Status # Reboot

LEMMA Names == {BMC, Status, Reboot} \subseteq Controllers /\ Distinct
BY RemovalAssumption DEF Distinct, BMC, Status, Reboot

LEMMA FreshIsResource == Fresh \in Resource
BY DEF Fresh, Resource

LEMMA InitInv == Init => IndInv
<1> SUFFICES ASSUME Init PROVE IndInv
  OBVIOUS
<1> USE Names DEF Init
<1>1. TypeOK
  <2>1. 0 \in 0..MaxRegistrations /\ 0 \in 0..MaxMishaps
    BY RemovalAssumption
  <2> QED BY <2>1 DEF TypeOK, Steps
<1>2. NoOrphans /\ NothingStuck
  BY DEF NoOrphans, NothingStuck, HeldBy
<1>3. StepInv /\ LastInv /\ DropInv
  BY DEF StepInv, LastInv, DropInv, Kept, Leaving
<1>4. AttemptInv
  BY DEF AttemptInv, Running
<1> QED BY <1>1, <1>2, <1>3, <1>4 DEF IndInv

-----------------------------------------------------------------------------
(* Types. *)

LEMMA RecordsAreTyped ==
  ASSUME NEW r \in Resource, NEW c \in Controllers
  PROVE  /\ [r EXCEPT !.finalizers = @ \cup {c}] \in Resource
         /\ [r EXCEPT !.finalizers = @ \ {c}] \in Resource
         /\ [r EXCEPT !.phase = "tearingDown"] \in Resource
BY DEF Resource

LEMMA OutputsAreTyped ==
  ASSUME TypeOK, NEW k \in Controllers, out[k] # Nil
  PROVE  /\ [out EXCEPT ![k].finalizers = @ \cup {Reboot}] \in [Controllers -> Resource \cup {Nil}]
         /\ [out EXCEPT ![k].finalizers = @ \ {Reboot}] \in [Controllers -> Resource \cup {Nil}]
         /\ [out EXCEPT ![k].phase = "tearingDown"] \in [Controllers -> Resource \cup {Nil}]
<1>1. out[k] \in Resource
  BY DEF TypeOK
<1> QED BY <1>1, Names, RecordsAreTyped DEF TypeOK

LEMMA OutputsStay ==
  ASSUME TypeOK, NEW k \in Controllers, out[k] # Nil
  PROVE  /\ [out EXCEPT ![k].finalizers = @ \cup {Reboot}][k] # Nil
         /\ [out EXCEPT ![k].finalizers = @ \ {Reboot}][k] # Nil
         /\ [out EXCEPT ![k].phase = "tearingDown"][k] # Nil
<1>1. out[k] \in Resource
  BY DEF TypeOK
<1>2. /\ [out EXCEPT ![k].finalizers = @ \cup {Reboot}][k] = [out[k] EXCEPT !.finalizers = @ \cup {Reboot}]
      /\ [out EXCEPT ![k].finalizers = @ \ {Reboot}][k] = [out[k] EXCEPT !.finalizers = @ \ {Reboot}]
      /\ [out EXCEPT ![k].phase = "tearingDown"][k] = [out[k] EXCEPT !.phase = "tearingDown"]
  BY DEF TypeOK
<1> QED BY <1>1, <1>2, Names, RecordsAreTyped, NilIsNoResource

LEMMA TypeStep == TypeOK /\ [Next]_vars => TypeOK'
<1> SUFFICES ASSUME TypeOK, [Next]_vars PROVE TypeOK'
  OBVIOUS
<1> USE Names DEF TypeOK, histories, bounds
<1>r. im # Nil => im \in Resource
  OBVIOUS
<1>m. Mishap => mishaps' \in 0..MaxMishaps
  BY RemovalAssumption DEF Mishap
<1>1. CASE Omni
  <2>1. CASE Register
    <3>1. registered' \in 0..MaxRegistrations
      BY <2>1, RemovalAssumption DEF Register
    <3> QED BY <2>1, <3>1, FreshIsResource DEF Register
  <2>2. CASE Teardown
    BY <2>2, RecordsAreTyped DEF Teardown, Running, HeldBy
  <2>3. CASE Remove
    BY <2>3 DEF Remove
  <2> QED BY <1>1, <2>1, <2>2, <2>3 DEF Omni
<1>2. CASE StatusWrite
  BY <1>2, FreshIsResource DEF StatusWrite, Watchers
<1>3. ASSUME NEW c \in Controllers, Work(c) PROVE TypeOK'
  <2>1. CASE Reconcile(c)
    BY <2>1 DEF Reconcile, Goto, Steps
  <2>2. CASE Adopt(c)
    <3>1. AfterAdoption(c) \in Steps
      BY DEF AfterAdoption, Steps
    <3>2. rec' \in [Controllers -> Steps]
      BY <2>2, <3>1 DEF Adopt, Goto, Retry, Steps
    <3>3. im' \in Resource \cup {Nil} /\ pending' \subseteq Controllers
      BY <2>2, <1>r, RecordsAreTyped DEF Adopt, Running, Retry
    <3> QED BY <2>2, <3>2, <3>3 DEF Adopt
  <2>3. CASE Transform(c)
    BY <2>3, FreshIsResource DEF Transform, Goto, Steps, Watchers
  <2>4. CASE TeardownOutput(c)
    <3>1. rec' \in [Controllers -> Steps]
      BY <2>4 DEF TeardownOutput, Goto, Steps
    <3> QED BY <2>4, <3>1, OutputsAreTyped DEF TeardownOutput, Watchers
  <2>5. CASE DestroyOutput(c)
    BY <2>5 DEF DestroyOutput, Goto, Steps, Watchers
  <2>6. CASE Release(c)
    BY <2>6, RecordsAreTyped DEF Release, Holds, Goto, Steps
  <2> QED BY <1>3, <2>1, <2>2, <2>3, <2>4, <2>5, <2>6 DEF Work
<1>4. CASE RebootWork
  <2>1. CASE HoldStatus \/ HoldBMC
    <3>1. rec' \in [Controllers -> Steps]
      BY <2>1 DEF HoldStatus, HoldBMC, Hold, Goto, Retry, Steps
    <3>2. PICK k \in {Status, BMC} : \E here, next : Hold(k, here, next)
      BY <2>1 DEF HoldStatus, HoldBMC
    <3>3. out' \in [Controllers -> Resource \cup {Nil}]
      <4>1. k \in Controllers
        OBVIOUS
      <4>2. \/ out' = out
            \/ out[k] # Nil /\ out' = [out EXCEPT ![k].finalizers = @ \cup {Reboot}]
        BY <3>2 DEF Hold
      <4> QED BY <4>1, <4>2, OutputsAreTyped
    <3>4. pending' \subseteq Controllers
      BY <3>2 DEF Hold, Retry, Watchers
    <3> QED BY <3>1, <3>2, <3>3, <3>4 DEF Hold
  <2>2. CASE AttemptReboot
    BY <2>2 DEF AttemptReboot, Goto, Steps
  <2>3. CASE DropStatus \/ DropBMC
    <3>1. rec' \in [Controllers -> Steps]
      BY <2>3 DEF DropStatus, DropBMC, Drop, Goto, Steps
    <3> QED BY <2>3, <3>1, OutputsAreTyped DEF DropStatus, DropBMC, Drop, HeldBy, Watchers
  <2> QED BY <1>4, <2>1, <2>2, <2>3 DEF RebootWork
<1>5. CASE Failures
  BY <1>5, <1>m DEF Failures, ReconcileFail, ProviderRestart, Retry, Goto, Steps
<1>6. CASE UNCHANGED vars
  BY <1>6 DEF vars
<1> QED BY <1>1, <1>2, <1>3, <1>4, <1>5, <1>6 DEF Next

-----------------------------------------------------------------------------
(* Every step preserves the rest. *)

Rest == NoOrphans /\ NothingStuck /\ StepInv /\ LastInv /\ DropInv /\ AttemptInv

\* What a step does to the reconciles.
LEMMA GotoIs ==
  ASSUME TypeOK, NEW c \in Controllers, NEW s, Goto(c, s)
  PROVE  rec'[c] = s /\ \A d \in Controllers \ {c} : rec'[d] = rec[d]
BY DEF TypeOK, Goto

LEMMA OmniKeeps == IndInv /\ Omni => Rest'
<1> SUFFICES ASSUME IndInv, Omni PROVE Rest'
  OBVIOUS
<1> USE Names DEF IndInv, TypeOK, Rest
<1>1. CASE Register
  <2>1. \A c \in Controllers : ~Holds(c) /\ ~Holds(c)'
    BY <1>1 DEF Register, Holds, Fresh
  <2>2. UNCHANGED <<out, rec>> /\ ~held'
    BY <1>1 DEF Register
  <2> QED BY <2>1, <2>2 DEF NoOrphans, NothingStuck, StepInv, LastInv, DropInv, AttemptInv, HeldBy
<1>2. CASE Teardown
  <2>1. /\ Running /\ ~Running' /\ Leaves'
        /\ im'.finalizers = im.finalizers /\ \A c \in Controllers : Holds(c)' = Holds(c)
    BY <1>2, NilIsNoResource DEF Teardown, Running, Resource, Holds, Leaves
  <2>2. UNCHANGED <<out, rec, attempt>>
    BY <1>2 DEF Teardown
  <2>3. \A c \in Controllers : rec[c] \in Leaving => ~Holds(c)
    BY <2>1 DEF StepInv, Leaves, Running
  <2>4. held' = (HeldBy(Reboot, Status) /\ HeldBy(Reboot, BMC))
    BY <1>2 DEF Teardown
  <2> QED BY <2>1, <2>2, <2>3, <2>4 DEF NoOrphans, NothingStuck, StepInv, LastInv, DropInv, AttemptInv, HeldBy
<1>3. CASE Remove
  <2>1. \A c \in Controllers : ~Holds(c) /\ ~Holds(c)'
    BY <1>3 DEF Remove, Holds
  <2>2. UNCHANGED <<out, rec, held>> /\ ~Running'
    BY <1>3 DEF Remove, histories, Running
  <2> QED BY <2>1, <2>2 DEF NoOrphans, NothingStuck, StepInv, LastInv, DropInv, AttemptInv, HeldBy
<1> QED BY <1>1, <1>2, <1>3 DEF Omni

LEMMA StatusKeeps == IndInv /\ StatusWrite => Rest'
<1> SUFFICES ASSUME IndInv, StatusWrite PROVE Rest'
  OBVIOUS
<1> USE Names DEF IndInv, TypeOK, Rest
<1>1. UNCHANGED <<im, rec, attempt, held>>
  BY DEF StatusWrite, histories
<1>2. \A k \in Controllers : out'[k] = IF k = Status /\ out[k] = Nil THEN Fresh ELSE out[k]
  BY DEF StatusWrite
<1>3. Fresh # Nil /\ Fresh.finalizers = {}
  BY FreshIsResource, NilIsNoResource DEF Fresh
<1>4. \A c, k \in Controllers : HeldBy(c, k)' = HeldBy(c, k)
  BY <1>2, <1>3 DEF HeldBy
<1>5. \A c \in Controllers : Holds(c)' = Holds(c) /\ Leaves' = Leaves /\ Running' = Running
  BY <1>1 DEF Holds, Leaves, Running
<1> QED BY <1>1, <1>2, <1>4, <1>5 DEF NoOrphans, NothingStuck, StepInv, LastInv, DropInv, AttemptInv, Attempted

LEMMA ReconcileKeeps ==
  ASSUME IndInv, NEW c \in Controllers, Reconcile(c)
  PROVE  Rest'
<1> USE Names DEF IndInv, TypeOK, Rest
<1>1. UNCHANGED <<im, out, attempt, held>>
  BY DEF Reconcile, histories
<1>2. PICK s \in {"adopt", "attempt", "teardown"} :
        /\ Goto(c, s)
        /\ s # "adopt" => ~WorksOn(c)
        /\ s = "teardown" /\ c = Reboot => ~Holds(c)
        /\ s = "attempt" => c = Reboot
  BY DEF Reconcile
<1>3. rec'[c] = s /\ \A d \in Controllers \ {c} : rec'[d] = rec[d]
  BY <1>2, GotoIs
<1>4. s # "adopt" /\ Holds(c) => Leaves /\ (c = BMC => im.finalizers \subseteq {BMC})
  BY <1>2 DEF WorksOn, IgnoresTeardown, Running, Leaves, Holds, Resource
<1>5. /\ \A d \in Controllers : Holds(d)' = Holds(d)
      /\ \A d, k \in Controllers : HeldBy(d, k)' = HeldBy(d, k)
      /\ Leaves' = Leaves /\ Running' = Running
  BY <1>1 DEF Holds, HeldBy, Leaves, Running
<1>6. NoOrphans' /\ NothingStuck'
  BY <1>1, <1>5 DEF NoOrphans, NothingStuck
<1>7. StepInv'
  BY <1>1, <1>2, <1>3, <1>4, <1>5 DEF StepInv, Kept, Leaving
<1>8. LastInv'
  BY <1>1, <1>3, <1>4, <1>5 DEF LastInv, Leaving
<1>9. DropInv'
  BY <1>2, <1>3, <1>5 DEF DropInv, NothingStuck
<1>10. AttemptInv'
  BY <1>1, <1>2, <1>3, <1>5 DEF AttemptInv, Attempted, Leaving
<1> QED BY <1>6, <1>7, <1>8, <1>9, <1>10

LEMMA AdoptKeeps ==
  ASSUME IndInv, NEW c \in Controllers, Adopt(c)
  PROVE  Rest'
<1> USE Names DEF IndInv, TypeOK, Rest
<1>1. UNCHANGED <<out, attempt, held>>
  BY DEF Adopt, histories
<1>a. AfterAdoption(c) \in Kept \cup {"idle"}
  BY DEF AfterAdoption, Kept
<1>2. PICK s \in Kept \cup {"idle"} : Goto(c, s) /\ (s # "idle" => Holds(c)')
  <2>1. CASE Holds(c) /\ Goto(c, AfterAdoption(c)) /\ im' = im
    BY <1>a, <2>1 DEF Holds
  <2>2. CASE Running /\ im' = [im EXCEPT !.finalizers = @ \cup {c}] /\ Goto(c, AfterAdoption(c))
    <3>1. Holds(c)'
      BY <2>2, RecordsAreTyped, NilIsNoResource DEF Holds, Running, Resource
    <3> QED BY <1>a, <2>2, <3>1
  <2>3. CASE Retry(c)
    BY <2>3 DEF Retry
  <2> QED BY <2>1, <2>2, <2>3 DEF Adopt
<1>3. rec'[c] = s /\ \A d \in Controllers \ {c} : rec'[d] = rec[d]
  BY <1>2, GotoIs
<1>4. \/ im' = im
      \/ Running /\ ~Holds(c) /\ im' = [im EXCEPT !.finalizers = @ \cup {c}]
  BY DEF Adopt
<1>5. /\ \A d \in Controllers : Holds(d) => Holds(d)'
      /\ \A d \in Controllers \ {c} : Holds(d)' = Holds(d)
      /\ Leaves' = Leaves /\ Running' = Running
      /\ (im' = im /\ Holds(c)' = Holds(c)) \/ Running
  BY <1>4, RecordsAreTyped, NilIsNoResource DEF Holds, Leaves, Running, Resource
<1>6. \A d, k \in Controllers : HeldBy(d, k)' = HeldBy(d, k)
  BY <1>1 DEF HeldBy
<1>7. NoOrphans' /\ NothingStuck'
  BY <1>1, <1>5, <1>6 DEF NoOrphans, NothingStuck
<1>8. StepInv'
  BY <1>1, <1>2, <1>3, <1>5 DEF StepInv, Kept, Leaving
<1>9. LastInv'
  BY <1>3, <1>2, <1>5 DEF LastInv, StepInv, Leaving, Kept, Running, Leaves
<1>10. DropInv'
  BY <1>2, <1>3, <1>6 DEF DropInv, Kept
<1>11. AttemptInv'
  BY <1>1, <1>2, <1>3, <1>5, <1>6 DEF AttemptInv, Attempted, Kept, Leaving
<1> QED BY <1>7, <1>8, <1>9, <1>10, <1>11

LEMMA TransformKeeps ==
  ASSUME IndInv, NEW c \in Controllers, Transform(c)
  PROVE  Rest'
<1> USE Names DEF IndInv, TypeOK, Rest
<1>1. UNCHANGED <<im, attempt, held>> /\ Goto(c, "idle") /\ Holds(c)
  BY DEF Transform, histories, StepInv, Kept
<1>2. rec'[c] = "idle" /\ \A d \in Controllers \ {c} : rec'[d] = rec[d]
  BY <1>1, GotoIs
<1>3. out' = out \/ (out[c] = Nil /\ out' = [out EXCEPT ![c] = Fresh])
  BY DEF Transform
<1>4. Fresh # Nil /\ Fresh.finalizers = {}
  BY FreshIsResource, NilIsNoResource DEF Fresh
<1>5. /\ \A d, k \in Controllers : HeldBy(d, k)' = HeldBy(d, k)
      /\ \A k \in Controllers \ {c} : out'[k] = out[k]
  BY <1>3, <1>4 DEF HeldBy
<1>6. \A d \in Controllers : Holds(d)' = Holds(d) /\ Leaves' = Leaves /\ Running' = Running
  BY <1>1 DEF Holds, Leaves, Running
<1> QED BY <1>1, <1>2, <1>5, <1>6
        DEF NoOrphans, NothingStuck, StepInv, LastInv, DropInv, AttemptInv, Attempted, Kept, Leaving

LEMMA TeardownKeeps ==
  ASSUME IndInv, NEW c \in Controllers, TeardownOutput(c)
  PROVE  Rest'
<1> USE Names DEF IndInv, TypeOK, Rest
<1>1. UNCHANGED <<im, attempt, held>> /\ rec[c] = "teardown"
  BY DEF TeardownOutput, histories
<1>2. PICK s \in {"idle", "destroy", "release"} :
        /\ Goto(c, s)
        /\ \/ out[c] = Nil /\ s = "release" /\ out' = out
           \/ /\ out[c] # Nil /\ s # "release"
              /\ out' = [out EXCEPT ![c].phase = "tearingDown"]
              /\ s = "destroy" => out[c].finalizers = {}
  BY DEF TeardownOutput
<1>3. rec'[c] = s /\ \A d \in Controllers \ {c} : rec'[d] = rec[d]
  BY <1>2, GotoIs
<1>4. out[c] # Nil =>
        out'[c] = [out[c] EXCEPT !.phase = "tearingDown"] /\ out[c] \in Resource /\ out'[c] \in Resource
  BY <1>2, RecordsAreTyped
<1>5. out[c] # Nil => out'[c] # Nil /\ out'[c].phase = "tearingDown" /\ out'[c].finalizers = out[c].finalizers
  BY <1>4, NilIsNoResource DEF Resource
<1>6. /\ \A k \in Controllers \ {c} : out'[k] = out[k]
      /\ out[c] = Nil => out'[c] = Nil
  BY <1>2
<1>7. \A d, k \in Controllers : HeldBy(d, k)' = HeldBy(d, k)
  BY <1>5, <1>6 DEF HeldBy
<1>8. \A d \in Controllers : Holds(d)' = Holds(d) /\ Leaves' = Leaves /\ Running' = Running
  BY <1>1 DEF Holds, Leaves, Running
<1>9. NoOrphans' /\ NothingStuck'
  BY <1>6, <1>7, <1>8 DEF NoOrphans, NothingStuck
<1>10. StepInv'
  BY <1>1, <1>2, <1>3, <1>5, <1>6, <1>8 DEF StepInv, Kept, Leaving
<1>11. LastInv'
  BY <1>1, <1>3, <1>8 DEF LastInv, Leaving
<1>12. DropInv'
  BY <1>1, <1>3, <1>7 DEF DropInv
<1>13. AttemptInv'
  BY <1>1, <1>3, <1>7, <1>8 DEF AttemptInv, Attempted, Leaving
<1> QED BY <1>9, <1>10, <1>11, <1>12, <1>13

LEMMA DestroyKeeps ==
  ASSUME IndInv, NEW c \in Controllers, DestroyOutput(c)
  PROVE  Rest'
<1> USE Names DEF IndInv, TypeOK, Rest
<1>1. UNCHANGED <<im, attempt, held>> /\ rec[c] = "destroy" /\ Goto(c, "release")
  BY DEF DestroyOutput, histories
<1>2. rec'[c] = "release" /\ \A d \in Controllers \ {c} : rec'[d] = rec[d]
  BY <1>1, GotoIs
<1>3. out'[c] = Nil /\ \A k \in Controllers \ {c} : out'[k] = out[k]
  BY DEF DestroyOutput
<1>4. \A d, k \in Controllers : HeldBy(d, k)' = HeldBy(d, k)
  BY <1>1, <1>3 DEF HeldBy, StepInv
<1>5. \A d \in Controllers : Holds(d)' = Holds(d) /\ Leaves' = Leaves /\ Running' = Running
  BY <1>1 DEF Holds, Leaves, Running
<1>6. NoOrphans' /\ NothingStuck'
  BY <1>3, <1>4, <1>5 DEF NoOrphans, NothingStuck
<1>7. StepInv'
  BY <1>1, <1>2, <1>3, <1>5 DEF StepInv, Kept, Leaving
<1>8. LastInv'
  BY <1>1, <1>2, <1>5 DEF LastInv, Leaving
<1>9. DropInv'
  BY <1>1, <1>2, <1>4 DEF DropInv
<1>10. AttemptInv'
  BY <1>1, <1>2, <1>4, <1>5 DEF AttemptInv, Attempted, Leaving
<1> QED BY <1>6, <1>7, <1>8, <1>9, <1>10

LEMMA ReleaseKeeps ==
  ASSUME IndInv, NEW c \in Controllers, Release(c)
  PROVE  Rest'
<1> USE Names DEF IndInv, TypeOK, Rest
<1>1. UNCHANGED <<out, attempt, held>> /\ rec[c] = "release" /\ Goto(c, "idle")
  BY DEF Release, histories
<1>2. rec'[c] = "idle" /\ \A d \in Controllers \ {c} : rec'[d] = rec[d]
  BY <1>1, GotoIs
<1>3. \/ Holds(c) /\ im' = [im EXCEPT !.finalizers = @ \ {c}]
      \/ ~Holds(c) /\ im' = im
  BY DEF Release
<1>4. /\ ~Holds(c)'
      /\ \A d \in Controllers \ {c} : Holds(d)' = Holds(d)
      /\ Leaves' = Leaves /\ Running' = Running
      /\ im # Nil => im' # Nil /\ im'.finalizers \subseteq im.finalizers
      /\ im = Nil => im' = Nil
  BY <1>3, RecordsAreTyped, NilIsNoResource DEF Holds, Leaves, Running, Resource
<1>5. \A d, k \in Controllers : HeldBy(d, k)' = HeldBy(d, k)
  BY <1>1 DEF HeldBy
<1>6. NoOrphans' /\ NothingStuck'
  BY <1>1, <1>4, <1>5 DEF NoOrphans, NothingStuck, StepInv, DropInv
<1>7. StepInv'
  BY <1>1, <1>2, <1>4 DEF StepInv, Kept, Leaving
<1>8. LastInv'
  BY <1>1, <1>2, <1>4 DEF LastInv, Leaving, Holds
<1>9. DropInv'
  BY <1>1, <1>2, <1>5 DEF DropInv
<1>10. AttemptInv'
  BY <1>1, <1>2, <1>4, <1>5 DEF AttemptInv, Attempted, Leaving
<1> QED BY <1>6, <1>7, <1>8, <1>9, <1>10

LEMMA HoldKeeps ==
  ASSUME IndInv, NEW k \in {Status, BMC}, NEW here \in Kept, NEW next \in Kept, Hold(k, here, next)
  PROVE  Rest'
<1> USE Names DEF IndInv, TypeOK, Rest
<1>1. UNCHANGED <<im, attempt, held>> /\ rec[Reboot] = here /\ Holds(Reboot)
  BY DEF Hold, histories, StepInv
<1>2. PICK s \in Kept \cup {"idle"} : Goto(Reboot, s)
  BY DEF Hold, Retry
<1>3. rec'[Reboot] = s /\ \A d \in Controllers \ {Reboot} : rec'[d] = rec[d]
  BY <1>2, GotoIs
<1>4. \/ out' = out
      \/ /\ out[k] # Nil /\ out[k].phase = "running"
         /\ out' = [out EXCEPT ![k].finalizers = @ \cup {Reboot}]
  BY DEF Hold
<1>5. /\ \A d \in Controllers : out[d] = Nil <=> out'[d] = Nil
      /\ \A d \in Controllers : out'[d] = out[d] \/ (out[d] # Nil /\ out[d].phase = "running")
      /\ \A d, l \in Controllers : HeldBy(d, l) => HeldBy(d, l)'
      /\ \A l \in Controllers : HeldBy(Reboot, l)' => HeldBy(Reboot, l) \/ l = k
  <2>1. CASE out' = out
    BY <2>1 DEF HeldBy
  <2>2. CASE /\ out[k] # Nil /\ out[k].phase = "running"
             /\ out' = [out EXCEPT ![k].finalizers = @ \cup {Reboot}]
    <3>1. out'[k] = [out[k] EXCEPT !.finalizers = @ \cup {Reboot}] /\ out[k] \in Resource
      BY <2>2
    <3>2. out'[k] # Nil /\ out'[k].finalizers = out[k].finalizers \cup {Reboot}
      BY <3>1, RecordsAreTyped, NilIsNoResource DEF Resource
    <3>3. \A l \in Controllers \ {k} : out'[l] = out[l]
      BY <2>2
    <3> QED BY <2>2, <3>2, <3>3 DEF HeldBy
  <2> QED BY <1>4, <2>1, <2>2
<1>6. \A d \in Controllers : Holds(d)' = Holds(d) /\ Leaves' = Leaves /\ Running' = Running
  BY <1>1 DEF Holds, Leaves, Running
<1>7. NoOrphans' /\ NothingStuck'
  BY <1>1, <1>5, <1>6 DEF NoOrphans, NothingStuck
<1>8. StepInv'
  BY <1>1, <1>3, <1>5, <1>6 DEF StepInv, Kept, Leaving
<1>9. LastInv'
  BY <1>1, <1>3, <1>6 DEF LastInv, Distinct
<1>10. DropInv'
  BY <1>3, <1>2 DEF DropInv, Kept
<1>11. AttemptInv'
  BY <1>1, <1>2, <1>3, <1>5, <1>6 DEF AttemptInv, Attempted, Leaving, Kept
<1> QED BY <1>7, <1>8, <1>9, <1>10, <1>11

LEMMA AttemptKeeps == IndInv /\ AttemptReboot => Rest'
<1> SUFFICES ASSUME IndInv, AttemptReboot PROVE Rest'
  OBVIOUS
<1> USE Names DEF IndInv, TypeOK, Rest
<1>1. UNCHANGED <<im, out, held>> /\ rec[Reboot] = "attempt" /\ Goto(Reboot, "dropStatus")
  BY DEF AttemptReboot
<1>2. rec'[Reboot] = "dropStatus" /\ \A d \in Controllers \ {Reboot} : rec'[d] = rec[d]
  BY <1>1, GotoIs
<1>3. Attempted \/ (HeldBy(Reboot, Status) /\ HeldBy(Reboot, BMC)) => Attempted'
  BY DEF AttemptReboot, Attempted, HeldBy
<1>4. /\ \A d \in Controllers : Holds(d)' = Holds(d) /\ Leaves' = Leaves /\ Running' = Running
      /\ \A d, k \in Controllers : HeldBy(d, k)' = HeldBy(d, k)
  BY <1>1 DEF Holds, HeldBy, Leaves, Running
<1>5. NoOrphans' /\ NothingStuck' /\ LastInv' /\ DropInv'
  BY <1>1, <1>2, <1>4 DEF NoOrphans, NothingStuck, LastInv, DropInv, Distinct
<1>6. StepInv'
  BY <1>1, <1>2, <1>4 DEF StepInv, Kept, Leaving
<1>7. AttemptInv'
  BY <1>1, <1>3, <1>4 DEF AttemptInv
<1> QED BY <1>5, <1>6, <1>7

LEMMA DropKeeps ==
  ASSUME IndInv, DropStatus \/ DropBMC
  PROVE  Rest'
<1> USE Names DEF IndInv, TypeOK, Rest
<1>1. PICK k \in {Status, BMC}, here \in {"dropStatus", "dropBMC"}, next \in {"dropBMC", "teardown"} :
        /\ Drop(k, here, next)
        /\ k = Status <=> here = "dropStatus"
        /\ k = Status <=> next = "dropBMC"
  BY DEF DropStatus, DropBMC, Distinct
<1>2. UNCHANGED <<im, attempt, held>> /\ rec[Reboot] = here /\ Goto(Reboot, next)
  BY <1>1 DEF Drop, histories
<1>3. rec'[Reboot] = next /\ \A d \in Controllers \ {Reboot} : rec'[d] = rec[d]
  BY <1>2, GotoIs
<1>4. \/ ~HeldBy(Reboot, k) /\ out' = out
      \/ HeldBy(Reboot, k) /\ out' = [out EXCEPT ![k].finalizers = @ \ {Reboot}]
  BY <1>1 DEF Drop
<1>5. /\ \A d \in Controllers : out[d] = Nil <=> out'[d] = Nil
      /\ \A d \in Controllers : out'[d] = out[d] \/ (out[d] # Nil /\ out[d].finalizers # {})
      /\ ~HeldBy(Reboot, k)'
      /\ \A l \in Controllers \ {k} : HeldBy(Reboot, l)' = HeldBy(Reboot, l)
  <2>1. CASE ~HeldBy(Reboot, k) /\ out' = out
    BY <2>1 DEF HeldBy
  <2>2. CASE HeldBy(Reboot, k) /\ out' = [out EXCEPT ![k].finalizers = @ \ {Reboot}]
    <3>1. out'[k] = [out[k] EXCEPT !.finalizers = @ \ {Reboot}] /\ out[k] \in Resource
      BY <2>2 DEF HeldBy
    <3>2. out'[k] # Nil /\ out'[k].finalizers = out[k].finalizers \ {Reboot}
      BY <3>1, RecordsAreTyped, NilIsNoResource DEF Resource
    <3>3. \A l \in Controllers \ {k} : out'[l] = out[l]
      BY <2>2
    <3> QED BY <2>2, <3>2, <3>3 DEF HeldBy
  <2> QED BY <1>4, <2>1, <2>2
<1>6. \A d \in Controllers : Holds(d)' = Holds(d) /\ Leaves' = Leaves /\ Running' = Running
  BY <1>2 DEF Holds, Leaves, Running
<1>7. NoOrphans' /\ NothingStuck'
  BY <1>2, <1>5, <1>6 DEF NoOrphans, NothingStuck
<1>8. StepInv'
  BY <1>2, <1>3, <1>5, <1>6 DEF StepInv, Kept, Leaving
<1>9. LastInv'
  BY <1>2, <1>3, <1>6 DEF LastInv, Distinct
<1>10. DropInv'
  BY <1>1, <1>2, <1>3, <1>5 DEF DropInv, Distinct
<1>11. AttemptInv'
  BY <1>1, <1>2, <1>3, <1>5, <1>6 DEF AttemptInv, Attempted, Leaving
<1> QED BY <1>7, <1>8, <1>9, <1>10, <1>11

LEMMA FailureKeeps == IndInv /\ Failures => Rest'
<1> SUFFICES ASSUME IndInv, Failures PROVE Rest'
  OBVIOUS
<1> USE Names DEF IndInv, TypeOK, Rest
<1>1. UNCHANGED <<im, out, attempt, held>>
  BY DEF Failures, ReconcileFail, ProviderRestart, histories
<1>2. \A d \in Controllers : rec'[d] = "idle" \/ rec'[d] = rec[d]
  BY DEF Failures, ReconcileFail, ProviderRestart, Retry, Goto
<1>3. /\ \A d \in Controllers : Holds(d)' = Holds(d) /\ Leaves' = Leaves /\ Running' = Running
      /\ \A d, k \in Controllers : HeldBy(d, k)' = HeldBy(d, k)
  BY <1>1 DEF Holds, HeldBy, Leaves, Running
<1>4. NoOrphans' /\ NothingStuck' /\ LastInv' /\ DropInv'
  BY <1>1, <1>2, <1>3 DEF NoOrphans, NothingStuck, LastInv, DropInv, Leaving
<1>5. StepInv'
  BY <1>1, <1>2, <1>3 DEF StepInv, Kept, Leaving
<1>6. AttemptInv'
  BY <1>1, <1>2, <1>3 DEF AttemptInv, Attempted, Leaving
<1> QED BY <1>4, <1>5, <1>6

LEMMA InvStep == IndInv /\ [Next]_vars => IndInv'
<1> SUFFICES ASSUME IndInv, [Next]_vars PROVE IndInv'
  OBVIOUS
<1>1. TypeOK'
  BY TypeStep DEF IndInv
<1>2. Rest'
  <2>1. ASSUME NEW c \in Controllers, Work(c) PROVE Rest'
    BY <2>1, ReconcileKeeps, AdoptKeeps, TransformKeeps, TeardownKeeps, DestroyKeeps, ReleaseKeeps
       DEF Work
  <2>2. CASE HoldStatus \/ HoldBMC
    <3>1. {"holdStatus", "holdBMC", "transform"} \subseteq Kept
      BY DEF Kept
    <3> QED BY <2>2, <3>1, HoldKeeps DEF HoldStatus, HoldBMC
  <2>3. CASE RebootWork
    BY <2>2, <2>3, AttemptKeeps, DropKeeps DEF RebootWork
  <2>4. CASE UNCHANGED vars
    BY <2>4 DEF vars, IndInv, Rest, NoOrphans, NothingStuck, StepInv, LastInv, DropInv, AttemptInv,
       Holds, HeldBy, Leaves, Running, Attempted
  <2> QED BY <2>1, <2>3, <2>4, OmniKeeps, StatusKeeps, FailureKeeps DEF Next
<1> QED BY <1>1, <1>2 DEF IndInv, Rest

\* What holds of every state, for the theorems.
LEMMA Invariance == Spec => []IndInv
<1> QED BY InitInv, InvStep, PTL DEF Spec

-----------------------------------------------------------------------------
LEMMA ReleaseComesAfter == IndInv /\ [Next]_vars =>
  (held /\ Holds(Reboot) /\ ~Holds(Reboot)' => attempt \in {"needless", "made"})
<1> SUFFICES ASSUME IndInv, Next, held, Holds(Reboot), ~Holds(Reboot)'
             PROVE  Attempted
  BY DEF vars, Holds, Attempted
<1> USE Names DEF IndInv, TypeOK, histories
<1>1. im' # im
  BY DEF Holds
<1>2. ~Running
  BY DEF AttemptInv
<1>3. Remove => FALSE
  BY DEF Remove, Holds
<1>4. PICK c \in Controllers : Release(c)
  BY <1>1, <1>2, <1>3
     DEF Next, Omni, Register, Teardown, StatusWrite, Work, Reconcile, Adopt, Transform,
         TeardownOutput, DestroyOutput, RebootWork, HoldStatus, HoldBMC, Hold, AttemptReboot,
         DropStatus, DropBMC, Drop, Failures, ReconcileFail, ProviderRestart, Holds, bounds
<1>5. c = Reboot
  BY <1>4, RecordsAreTyped, NilIsNoResource DEF Release, Holds, Resource
<1> QED BY <1>4, <1>5 DEF AttemptInv, Release, Leaving

\* A machine the RebootStatusController is prepared to reboot on removal is not let go of before
\* it has been rebooted, or found in the agent (reboot_status.go, finalizerRemoval; machine_status.go,
\* reconcileTearingDown; bmc_configuration.go, WithIgnoreTeardownUntil).
THEOREM RebootIsAttempted == Spec => RebootPrecedesRelease
<1>1. IndInv /\ [Next]_vars =>
        [held /\ Holds(Reboot) /\ ~Holds(Reboot)' => attempt \in {"needless", "made"}]_vars
  BY ReleaseComesAfter
<1> QED BY <1>1, Invariance, PTL DEF Spec, RebootPrecedesRelease

-----------------------------------------------------------------------------
(* No removal comes to a stand. *)

\* Only the RebootStatusController holds what is not its own, and only two outputs.
HoldersInv ==
  \A k \in Controllers :
    out[k] # Nil => out[k].finalizers \subseteq {Reboot} /\ (k \notin {Status, BMC} => out[k].finalizers = {})

\* Whoever still holds a machine that leaves is awake, or waits for another: the
\* MachineStatusController for the RebootStatusController, the BMCConfigurationController for
\* everybody.
Awake(c) == c \in pending \/ rec[c] \in Leaving

Waits(c) ==
  \/ c = Status /\ Reboot \in im.finalizers
  \/ c = BMC /\ im.finalizers # {BMC}

AwakeInv == Leaves => \A c \in im.finalizers : Awake(c) \/ Waits(c)

LEMMA HoldersStep == IndInv /\ HoldersInv /\ [Next]_vars => HoldersInv'
<1> SUFFICES ASSUME IndInv, HoldersInv, [Next]_vars PROVE HoldersInv'
  OBVIOUS
<1> USE Names DEF IndInv, TypeOK, histories, bounds
<1>1. ASSUME out' = out PROVE HoldersInv'
  BY <1>1 DEF HoldersInv
<1>2. ASSUME NEW k \in Controllers, \A l \in Controllers \ {k} : out'[l] = out[l],
             out'[k] # Nil => out'[k].finalizers \subseteq {Reboot}
                              /\ (k \notin {Status, BMC} => out'[k].finalizers = {})
      PROVE  HoldersInv'
  BY <1>2 DEF HoldersInv
<1>3. CASE Omni \/ Failures \/ UNCHANGED vars
  BY <1>1, <1>3 DEF Omni, Register, Teardown, Remove, Failures, ReconcileFail, ProviderRestart, vars
<1>4. CASE StatusWrite
  <2>1. \A l \in Controllers \ {Status} : out'[l] = out[l]
    BY <1>4 DEF StatusWrite
  <2>2. out'[Status] = out[Status] \/ out'[Status] = Fresh
    BY <1>4 DEF StatusWrite
  <2> QED BY <1>2, <2>1, <2>2 DEF HoldersInv, Fresh
<1>5. ASSUME NEW c \in Controllers, Work(c) PROVE HoldersInv'
  <2>1. CASE Reconcile(c) \/ Adopt(c) \/ Release(c)
    BY <1>1, <2>1 DEF Reconcile, Adopt, Release
  <2>2. CASE Transform(c)
    <3>1. \A l \in Controllers \ {c} : out'[l] = out[l]
      BY <2>2 DEF Transform
    <3>2. out'[c] = out[c] \/ out'[c] = Fresh
      BY <2>2 DEF Transform
    <3> QED BY <1>2, <3>1, <3>2 DEF HoldersInv, Fresh
  <2>3. CASE TeardownOutput(c)
    <3>1. out' = out \/ (out[c] # Nil /\ out' = [out EXCEPT ![c].phase = "tearingDown"])
      BY <2>3 DEF TeardownOutput
    <3>2. CASE out[c] # Nil /\ out' = [out EXCEPT ![c].phase = "tearingDown"]
      <4>1. out[c] \in Resource /\ out'[c] = [out[c] EXCEPT !.phase = "tearingDown"]
        BY <3>2
      <4>2. out'[c].finalizers = out[c].finalizers /\ \A l \in Controllers \ {c} : out'[l] = out[l]
        BY <3>2, <4>1 DEF Resource
      <4> QED BY <1>2, <3>2, <4>2 DEF HoldersInv
    <3> QED BY <1>1, <3>1, <3>2
  <2>4. CASE DestroyOutput(c)
    <3>1. out'[c] = Nil /\ \A l \in Controllers \ {c} : out'[l] = out[l]
      BY <2>4 DEF DestroyOutput
    <3> QED BY <1>2, <3>1
  <2> QED BY <1>5, <2>1, <2>2, <2>3, <2>4 DEF Work
<1>6. CASE HoldStatus \/ HoldBMC \/ DropStatus \/ DropBMC
  <2>1. PICK k \in {Status, BMC} :
          \/ out' = out
          \/ out[k] # Nil /\ out' = [out EXCEPT ![k].finalizers = @ \cup {Reboot}]
          \/ out[k] # Nil /\ out' = [out EXCEPT ![k].finalizers = @ \ {Reboot}]
    BY <1>6 DEF HoldStatus, HoldBMC, DropStatus, DropBMC, Hold, Drop, HeldBy
  <2>2. CASE out[k] # Nil /\ out' = [out EXCEPT ![k].finalizers = @ \cup {Reboot}]
    <3>1. out[k] \in Resource /\ out'[k] = [out[k] EXCEPT !.finalizers = @ \cup {Reboot}]
      BY <2>2
    <3>2. out'[k].finalizers = out[k].finalizers \cup {Reboot}
          /\ \A l \in Controllers \ {k} : out'[l] = out[l]
      BY <2>2, <3>1 DEF Resource
    <3> QED BY <1>2, <2>2, <3>2 DEF HoldersInv
  <2>3. CASE out[k] # Nil /\ out' = [out EXCEPT ![k].finalizers = @ \ {Reboot}]
    <3>1. out[k] \in Resource /\ out'[k] = [out[k] EXCEPT !.finalizers = @ \ {Reboot}]
      BY <2>3
    <3>2. out'[k].finalizers = out[k].finalizers \ {Reboot}
          /\ \A l \in Controllers \ {k} : out'[l] = out[l]
      BY <2>3, <3>1 DEF Resource
    <3> QED BY <1>2, <2>3, <3>2 DEF HoldersInv
  <2> QED BY <1>1, <2>1, <2>2, <2>3
<1>7. CASE AttemptReboot
  BY <1>1, <1>7 DEF AttemptReboot
<1> QED BY <1>3, <1>4, <1>5, <1>6, <1>7 DEF Next, RebootWork

\* A step that leaves the machine as it is, and awake who is awake, keeps it so.
LEMMA WhoIsAwakeStays ==
  ASSUME TypeOK, AwakeInv, im' = im, \A c \in Controllers : Awake(c) => Awake(c)'
  PROVE  AwakeInv'
<1>1. im # Nil => im.finalizers \subseteq Controllers
  BY DEF TypeOK, Resource
<1> QED BY <1>1 DEF AwakeInv, Leaves, Waits

\* One that wakes everybody does in any case.
LEMMA EverybodyIsAwake ==
  ASSUME TypeOK', pending' = Controllers
  PROVE  AwakeInv'
BY DEF TypeOK, Resource, AwakeInv, Leaves, Awake

LEMMA AwakeStep == IndInv /\ HoldersInv /\ AwakeInv /\ [Next]_vars => AwakeInv'
<1> SUFFICES ASSUME IndInv, HoldersInv, AwakeInv, [Next]_vars PROVE AwakeInv'
  OBVIOUS
<1>t. TypeOK /\ TypeOK'
  BY TypeStep DEF IndInv
<1> USE Names, <1>t DEF IndInv, histories, bounds
<1>1. CASE Omni
  BY <1>1, EverybodyIsAwake DEF Omni, Register, Teardown, Remove
<1>2. CASE StatusWrite \/ UNCHANGED vars
  <2>1. im' = im /\ rec' = rec /\ pending \subseteq pending'
    BY <1>2 DEF StatusWrite, vars
  <2> QED BY <2>1, WhoIsAwakeStays DEF Awake
<1>3. ASSUME NEW c \in Controllers, Work(c) PROVE AwakeInv'
  <2>1. CASE Reconcile(c)
    <3>1. PICK step : Goto(c, step) /\ (step \in Leaving \/ (step = "adopt" /\ WorksOn(c)))
      BY <2>1 DEF Reconcile, Leaving
    <3>2. im' = im /\ pending' = pending \ {c}
      BY <2>1 DEF Reconcile
    <3>3. rec'[c] = step /\ \A d \in Controllers \ {c} : rec'[d] = rec[d]
      BY <3>1, GotoIs
    <3>4. \A d \in Controllers \ {c} : Awake(d) => Awake(d)'
      BY <3>2, <3>3 DEF Awake
    <3>5. CASE step \in Leaving
      BY <3>2, <3>3, <3>4, <3>5, WhoIsAwakeStays DEF Awake
    <3>6. CASE WorksOn(c)
      <4>1. Leaves => c = BMC /\ im.finalizers # {BMC}
        BY <3>6 DEF WorksOn, Running, Leaves, IgnoresTeardown
      <4>2. im # Nil => im.finalizers \subseteq Controllers
        BY DEF TypeOK, Resource
      <4> QED BY <3>2, <3>4, <4>1, <4>2 DEF AwakeInv, Leaves, Waits
    <3> QED BY <3>1, <3>5, <3>6
  <2>2. CASE Adopt(c)
    <3>1. CASE pending' = Controllers
      BY <3>1, EverybodyIsAwake
    <3>2. CASE pending' # Controllers
      <4>1. im' = im /\ pending \subseteq pending' /\ rec[c] = "adopt"
        BY <2>2, <3>2 DEF Adopt, Retry
      <4>2. PICK step : Goto(c, step)
        BY <2>2 DEF Adopt, Retry
      <4>3. \A d \in Controllers \ {c} : rec'[d] = rec[d]
        BY <4>2 DEF Goto
      <4> QED BY <4>1, <4>3, WhoIsAwakeStays DEF Awake, Leaving
    <3> QED BY <3>1, <3>2
  <2>3. CASE Transform(c)
    <3>1. im' = im /\ pending \subseteq pending' /\ rec[c] = "transform"
      BY <2>3 DEF Transform
    <3>2. \A d \in Controllers \ {c} : rec'[d] = rec[d]
      BY <2>3 DEF Transform, Goto
    <3> QED BY <3>1, <3>2, WhoIsAwakeStays DEF Awake, Leaving
  <2>4. CASE TeardownOutput(c)
    <3>1. im' = im /\ pending \subseteq pending' /\ rec[c] = "teardown"
      BY <2>4 DEF TeardownOutput
    <3>2. PICK step \in {"release", "destroy", "idle"} :
            Goto(c, step) /\ (step = "idle" => out[c] # Nil /\ out[c].finalizers # {})
      BY <2>4 DEF TeardownOutput
    <3>3. rec'[c] = step /\ \A d \in Controllers \ {c} : rec'[d] = rec[d]
      BY <3>2, GotoIs
    <3>4. CASE step # "idle"
      BY <3>1, <3>2, <3>3, <3>4, WhoIsAwakeStays DEF Awake, Leaving
    <3>5. CASE step = "idle"
      <4>1. c \in {Status, BMC} /\ HeldBy(Reboot, c)
        BY <3>2, <3>5 DEF HoldersInv, HeldBy
      <4>2. Holds(Reboot)
        BY <4>1 DEF NothingStuck
      <4>3. c = BMC => ~Holds(BMC)
        BY <3>1, <4>2 DEF LastInv, Leaving, Holds, Distinct
      <4>4. im \in Resource
        BY <4>2 DEF TypeOK, Holds
      <4> QED BY <3>1, <3>3, <4>1, <4>2, <4>3, <4>4 DEF AwakeInv, Awake, Waits, Leaves, Holds, Resource
    <3> QED BY <3>4, <3>5
  <2>5. CASE DestroyOutput(c)
    <3>1. im' = im /\ pending \subseteq pending' /\ Goto(c, "release")
      BY <2>5 DEF DestroyOutput
    <3>2. rec'[c] = "release" /\ \A d \in Controllers \ {c} : rec'[d] = rec[d]
      BY <3>1, GotoIs
    <3> QED BY <3>1, <3>2, WhoIsAwakeStays DEF Awake, Leaving
  <2>6. CASE Release(c)
    <3>1. CASE Holds(c)
      BY <2>6, <3>1, EverybodyIsAwake DEF Release
    <3>2. CASE ~Holds(c)
      <4>1. im' = im /\ pending' = pending /\ \A d \in Controllers \ {c} : rec'[d] = rec[d]
        BY <2>6, <3>2 DEF Release, Goto
      <4>2. im # Nil => im.finalizers \subseteq Controllers \ {c}
        BY <3>2 DEF TypeOK, Resource, Holds
      <4> QED BY <4>1, <4>2 DEF AwakeInv, Leaves, Awake, Waits
    <3> QED BY <3>1, <3>2
  <2> QED BY <1>3, <2>1, <2>2, <2>3, <2>4, <2>5, <2>6 DEF Work
<1>4. CASE HoldStatus \/ HoldBMC
  <2>1. PICK k \in {Status, BMC}, here \in Kept, next \in Kept : Hold(k, here, next)
    BY <1>4 DEF HoldStatus, HoldBMC, Kept
  <2>2. im' = im /\ pending \subseteq pending' /\ rec[Reboot] \notin Leaving
    BY <2>1 DEF Hold, Retry, Kept, Leaving
  <2>3. PICK step : Goto(Reboot, step)
    BY <2>1 DEF Hold, Retry
  <2>4. \A d \in Controllers \ {Reboot} : rec'[d] = rec[d]
    BY <2>3 DEF Goto
  <2> QED BY <2>2, <2>4, WhoIsAwakeStays DEF Awake
<1>5. CASE AttemptReboot \/ DropStatus \/ DropBMC
  <2>1. PICK step \in Leaving : Goto(Reboot, step) /\ im' = im /\ pending \subseteq pending'
    BY <1>5 DEF AttemptReboot, DropStatus, DropBMC, Drop, Leaving
  <2>2. rec'[Reboot] = step /\ \A d \in Controllers \ {Reboot} : rec'[d] = rec[d]
    BY <2>1, GotoIs
  <2> QED BY <2>1, <2>2, WhoIsAwakeStays DEF Awake
<1>6. CASE Failures
  <2>1. ASSUME NEW c \in Controllers, ReconcileFail(c) PROVE AwakeInv'
    <3>1. im' = im /\ pending' = pending \cup {c} /\ \A d \in Controllers \ {c} : rec'[d] = rec[d]
      BY <2>1 DEF ReconcileFail, Retry, Goto
    <3> QED BY <3>1, WhoIsAwakeStays DEF Awake
  <2>2. CASE ProviderRestart
    <3>1. im' = im /\ (im # Nil => pending' = Controllers)
      BY <2>2 DEF ProviderRestart
    <3>2. CASE im = Nil
      BY <3>1, <3>2 DEF AwakeInv, Leaves
    <3> QED BY <3>1, <3>2, EverybodyIsAwake
  <2> QED BY <1>6, <2>1, <2>2 DEF Failures
<1> QED BY <1>1, <1>2, <1>3, <1>4, <1>5, <1>6 DEF Next, RebootWork

\* Those who wait for each other do not do so in a circle: if the RebootStatusController holds the
\* machine it is awake, else whoever does is but the BMCConfigurationController, else that one is.
LEMMA SomebodyIsAwake == IndInv /\ AwakeInv => NeverStalls
<1> SUFFICES ASSUME IndInv, AwakeInv, Leaves, im.finalizers # {}
             PROVE  \E c \in im.finalizers : c \in pending \/ rec[c] # "idle"
  BY DEF NeverStalls, Leaves
<1> USE Names DEF AwakeInv, Waits
<1>1. \A c : Awake(c) => c \in pending \/ rec[c] # "idle"
  BY DEF Awake, Leaving
<1>2. CASE Reboot \in im.finalizers
  BY <1>1, <1>2 DEF Distinct
<1>3. CASE Reboot \notin im.finalizers /\ im.finalizers # {BMC}
  <2>1. PICK c \in im.finalizers : c # BMC
    BY <1>3
  <2> QED BY <1>1, <1>3, <2>1
<1>4. CASE im.finalizers = {BMC}
  <2>1. Awake(BMC) \/ Waits(BMC)
    BY <1>4
  <2>2. ~Waits(BMC)
    BY <1>4 DEF Distinct
  <2> QED BY <1>1, <1>4, <2>1, <2>2
<1> QED BY <1>2, <1>3, <1>4

\* A removal never comes to a stand, whatever holds what and whoever is woken by what, for any set
\* of controllers: as long as the machine is held, somebody who holds it is at work or will be.
\* What RemovalEnds adds is that they are let run (reboot_status.go, finalizerRemoval;
\* bmc_configuration.go, WithIgnoreTeardownUntil; qtransform reconcile).
THEOREM RemovalNeverStalls == Spec => []NeverStalls
<1>1. Init => HoldersInv /\ AwakeInv
  BY DEF Init, HoldersInv, AwakeInv, Leaves
<1>2. IndInv /\ HoldersInv /\ AwakeInv /\ [Next]_vars => HoldersInv' /\ AwakeInv'
  BY HoldersStep, AwakeStep
<1>3. IndInv /\ AwakeInv => NeverStalls
  BY SomebodyIsAwake
<1> QED BY <1>1, <1>2, <1>3, Invariance, PTL DEF Spec

\* Nothing is kept of a machine its controller does not hold, what the RebootStatusController
\* holds it will come to let go, and no removal comes to a stand (qtransform finalizers;
\* reboot_status.go, finalizerRemoval).
THEOREM RemovalInvariance == Spec => []RemovalInv
<1>1. IndInv /\ NeverStalls => RemovalInv
  BY DEF IndInv, RemovalInv
<1> QED BY <1>1, Invariance, RemovalNeverStalls, PTL

-----------------------------------------------------------------------------
(* The refinement of OrderlyRemoval. *)

KeptKinds == {c \in Controllers \ {Status} : out[c] # Nil}
WorkingKinds == {c \in Controllers \ {Status} : rec[c] \in Kept}

LEMMA PromiseStep == IndInv /\ [Next]_vars => [Promise!Next]_(Promise!vars)
<1> SUFFICES ASSUME IndInv, [Next]_vars PROVE [Promise!Next]_(Promise!vars)
  OBVIOUS
<1> USE Names DEF IndInv, TypeOK, histories, bounds
<1> USE DEF Promise!Next, Promise!vars
<1>1. CASE Register
  <2>1. im = Nil /\ im' # Nil /\ im'.phase = "running" /\ UNCHANGED <<out, rec>>
    BY <1>1, FreshIsResource, NilIsNoResource DEF Register, Fresh
  <2> QED BY <2>1 DEF Promise!Register
<1>2. CASE Teardown
  <2>1. /\ im # Nil /\ im' # Nil /\ im.phase = "running" /\ im'.phase = "tearingDown"
        /\ UNCHANGED <<out, rec>>
    <3>1. im \in Resource /\ im.phase = "running" /\ im' = [im EXCEPT !.phase = "tearingDown"]
      BY <1>2 DEF Teardown, Running
    <3>2. im' \in Resource /\ im'.phase = "tearingDown"
      BY <3>1 DEF Resource
    <3> QED BY <1>2, <3>1, <3>2, NilIsNoResource DEF Teardown
  <2> QED BY <2>1 DEF Promise!Leave
<1>3. CASE Remove
  <2>1. im # Nil /\ im' = Nil /\ im.phase = "tearingDown" /\ UNCHANGED <<out, rec>>
    BY <1>3 DEF Remove
  <2>2. \A c \in Controllers \ {Status} : out[c] = Nil /\ rec[c] \notin Kept
    BY <1>3 DEF Remove, NoOrphans, StepInv, Holds
  <2> QED BY <2>1, <2>2 DEF Kept, Promise!Gone
<1>4. ASSUME im' = im, \A c \in Controllers \ {Status} : out[c] = Nil <=> out'[c] = Nil,
             \A c \in Controllers : rec'[c] \in Kept => rec[c] \in Kept
      PROVE  Promise!End
  BY <1>4 DEF Promise!End, Kept
<1>5. ASSUME NEW c \in Controllers, Work(c) PROVE [Promise!Next]_(Promise!vars)
  <2>g. \A d \in Controllers \ {c} : rec'[d] = rec[d]
    BY <1>5 DEF Work, Reconcile, Adopt, Transform, TeardownOutput, DestroyOutput, Release, Goto, Retry
  <2>1. CASE Reconcile(c)
    <3>1. rec'[c] \notin Kept
      BY <2>1 DEF Reconcile, Goto, Kept
    <3> QED BY <1>4, <2>1, <2>g, <3>1 DEF Reconcile
  <2>2. CASE Adopt(c)
    <3>1. im' # im => im # Nil /\ im' # Nil /\ im'.phase = im.phase
      BY <2>2, RecordsAreTyped, NilIsNoResource DEF Adopt, Running, Resource
    <3>2. CASE rec'[c] \notin Kept
      BY <2>2, <2>g, <3>1, <3>2 DEF Adopt, Kept, Promise!End
    <3>3. CASE rec'[c] \in Kept
      <4>1. im # Nil /\ c # Status
        <5>1. PICK step \in {"idle", AfterAdoption(c)} :
                Goto(c, step) /\ (step # "idle" => im # Nil)
          BY <2>2 DEF Adopt, Holds, Running, Retry
        <5>2. rec'[c] = step
          BY <5>1, GotoIs
        <5>3. step # "idle"
          BY <3>3, <5>2 DEF Kept
        <5>4. AfterAdoption(Status) = "idle"
          BY DEF AfterAdoption, Distinct
        <5> QED BY <5>1, <5>3, <5>4
      <4>2. WorkingKinds' = WorkingKinds \cup {c}
        BY <2>g, <3>3, <4>1 DEF WorkingKinds
      <4> QED BY <2>2, <3>1, <4>1, <4>2 DEF Adopt, Kept, WorkingKinds, Promise!Begin
    <3> QED BY <3>2, <3>3
  <2>3. CASE Transform(c)
    <3>1. im # Nil /\ im' = im /\ rec'[c] = "idle"
      BY <2>3 DEF Transform, StepInv, Kept, Holds, Goto
    <3>2. CASE out[c] = Nil /\ out' = [out EXCEPT ![c] = Fresh] /\ c # Status
      <4>1. KeptKinds' = KeptKinds \cup {c}
        BY <3>2, FreshIsResource, NilIsNoResource DEF KeptKinds
      <4>2. WorkingKinds' = WorkingKinds \ {c} /\ c \in WorkingKinds
        BY <2>3, <2>g, <3>1, <3>2 DEF WorkingKinds, Transform, Kept
      <4> QED BY <3>1, <3>2, <4>1, <4>2 DEF KeptKinds, WorkingKinds, Kept, Promise!Keep
    <3>3. CASE out' = out \/ (c = Status /\ out' = [out EXCEPT ![c] = Fresh])
      BY <1>4, <2>g, <3>1, <3>3 DEF Kept
    <3> QED BY <2>3, <3>2, <3>3 DEF Transform
  <2>4. CASE TeardownOutput(c)
    <3>1. out[c] # Nil => out'[c] # Nil
      BY <2>4, OutputsStay DEF TeardownOutput
    <3>2. rec'[c] \notin Kept
      BY <2>4 DEF TeardownOutput, Goto, Kept
    <3> QED BY <1>4, <2>4, <2>g, <3>1, <3>2 DEF TeardownOutput
  <2>5. CASE DestroyOutput(c)
    <3>1. out[c] # Nil /\ out' = [out EXCEPT ![c] = Nil] /\ im' = im
          /\ rec[c] = "destroy" /\ rec'[c] = "release"
      BY <2>5 DEF DestroyOutput, StepInv, Goto
    <3>2. CASE c = Status
      BY <1>4, <2>g, <3>1, <3>2 DEF Kept
    <3>3. CASE c # Status
      <4>1. Holds(c) /\ Leaves
        BY <2>5, <3>1, <3>3 DEF NoOrphans, StepInv, DestroyOutput, Leaving
      <4>2. KeptKinds' = KeptKinds \ {c} /\ c \in KeptKinds
        BY <3>1, <3>3 DEF KeptKinds
      <4>3. WorkingKinds' = WorkingKinds /\ c \notin WorkingKinds
        BY <2>g, <3>1 DEF WorkingKinds, Kept
      <4>4. c = BMC => KeptKinds = {BMC} /\ WorkingKinds = {}
        <5>1. c = BMC => \A d \in Controllers \ {BMC} : ~Holds(d)
          BY <3>1, <4>1 DEF LastInv, Leaving, Holds
        <5> QED BY <4>2, <4>3, <5>1 DEF KeptKinds, WorkingKinds, NoOrphans, StepInv
      <4> QED BY <3>1, <4>1, <4>2, <4>3, <4>4 DEF KeptKinds, WorkingKinds, Kept, Leaves, Promise!Drop
    <3> QED BY <3>2, <3>3
  <2>6. CASE Release(c)
    <3>1. im' # im => im # Nil /\ im' # Nil /\ im'.phase = im.phase
      BY <2>6, RecordsAreTyped, NilIsNoResource DEF Release, Holds, Resource
    <3>2. rec'[c] \notin Kept
      BY <2>6 DEF Release, Goto, Kept
    <3> QED BY <2>6, <2>g, <3>1, <3>2 DEF Release, Kept, Promise!End
  <2> QED BY <1>5, <2>1, <2>2, <2>3, <2>4, <2>5, <2>6 DEF Work
<1>6. CASE StatusWrite
  BY <1>4, <1>6 DEF StatusWrite
<1>7. CASE HoldStatus \/ HoldBMC
  <2>1. PICK k \in {Status, BMC}, here \in Kept, next \in Kept : Hold(k, here, next)
    BY <1>7 DEF HoldStatus, HoldBMC, Kept
  <2>2. \/ out' = out
        \/ out[k] # Nil /\ out' = [out EXCEPT ![k].finalizers = @ \cup {Reboot}]
    BY <2>1 DEF Hold
  <2>3. out[k] # Nil => out'[k] # Nil
    BY <2>2, OutputsStay
  <2>4. im' = im /\ \A d \in Controllers \ {k} : out'[d] = out[d]
    BY <2>1, <2>2 DEF Hold
  <2>5. rec[Reboot] \in Kept /\ \A d \in Controllers \ {Reboot} : rec'[d] = rec[d]
    BY <2>1 DEF Hold, Goto, Retry
  <2> QED BY <1>4, <2>2, <2>3, <2>4, <2>5
<1>8. CASE DropStatus \/ DropBMC
  <2>1. PICK k \in {Status, BMC}, here, next \in Leaving : Drop(k, here, next)
    BY <1>8 DEF DropStatus, DropBMC, Leaving
  <2>2. \/ out' = out
        \/ out[k] # Nil /\ out' = [out EXCEPT ![k].finalizers = @ \ {Reboot}]
    BY <2>1 DEF Drop, HeldBy
  <2>3. out[k] # Nil => out'[k] # Nil
    BY <2>2, OutputsStay
  <2>4. im' = im /\ \A d \in Controllers \ {k} : out'[d] = out[d]
    BY <2>1, <2>2 DEF Drop
  <2>5. rec'[Reboot] \notin Kept /\ \A d \in Controllers \ {Reboot} : rec'[d] = rec[d]
    BY <2>1 DEF Drop, Goto, Kept, Leaving
  <2> QED BY <1>4, <2>2, <2>3, <2>4, <2>5
<1>9. CASE AttemptReboot \/ Failures \/ UNCHANGED vars
  <2>1. \A c \in Controllers : rec'[c] \in Kept => rec[c] \in Kept
    BY <1>9 DEF AttemptReboot, Failures, ReconcileFail, ProviderRestart, vars, Goto, Retry, Kept
  <2> QED BY <1>4, <1>9, <2>1 DEF AttemptReboot, Failures, ReconcileFail, ProviderRestart, vars
<1> QED BY <1>1, <1>2, <1>3, <1>5, <1>6, <1>7, <1>8, <1>9 DEF Next, Omni, RebootWork

\* What is kept of a machine comes of work on it only and goes only once it is removed and that
\* work is over, the configuration of its BMC after the rest, and the machine only then
\* (qtransform finalizers; bmc_configuration.go, WithIgnoreTeardownUntil).
THEOREM RemovalIsOrderly == Spec => IsOrderly
<1>1. Init => Promise!Init
  BY DEF Init, Promise!Init
<1>2. IndInv /\ [Next]_vars => [Promise!Next]_(Promise!vars)
  BY PromiseStep
<1> QED BY <1>1, <1>2, Invariance, PTL DEF Spec, IsOrderly, Promise!Spec

-----------------------------------------------------------------------------
(* The refinement of HeldOutput. *)

Registration == IF im = Nil THEN "none" ELSE IF im.phase = "running" THEN "there" ELSE "leaving"
HeldKinds == {k \in {Status, BMC} : HeldBy(Reboot, k)}
ThereKinds == {k \in {Status, BMC} : out[k] # Nil}
LeavingKinds == {k \in {Status, BMC} : out[k] # Nil /\ out[k].phase = "tearingDown"}

\* What the machine is to the contract, what the outputs are to it.
OutputsAlone == UNCHANGED <<HeldKinds, ThereKinds, LeavingKinds>>
MachineAlone == UNCHANGED <<Registration, Holds(Reboot)>>

LEMMA UnchangedIsAlone ==
  /\ UNCHANGED im => MachineAlone
  /\ UNCHANGED <<out[Status], out[BMC]>> => OutputsAlone
<1>1. UNCHANGED im => MachineAlone
  BY DEF MachineAlone, Registration, Holds
<1>2. ASSUME UNCHANGED <<out[Status], out[BMC]>> PROVE OutputsAlone
  BY <1>2 DEF OutputsAlone, HeldKinds, ThereKinds, LeavingKinds, HeldBy
<1> QED BY <1>1, <1>2

LEMMA Stutters == OutputsAlone /\ MachineAlone => UNCHANGED Protocol!vars
BY DEF OutputsAlone, MachineAlone, HeldKinds, ThereKinds, LeavingKinds, Registration, Protocol!vars

\* Omni registers and removes as the contract says.
LEMMA OmniKeepsProtocol == IndInv /\ Omni => Protocol!Next
<1> SUFFICES ASSUME IndInv, Omni PROVE Protocol!Next
  OBVIOUS
<1> USE Names DEF IndInv, TypeOK
<1>1. OutputsAlone
  BY UnchangedIsAlone DEF Omni, Register, Teardown, Remove
<1>2. CASE Register
  <2>1. Registration = "none" /\ Registration' = "there" /\ Holds(Reboot) = FALSE
    BY <1>2, FreshIsResource, NilIsNoResource DEF Register, Registration, Holds, Fresh
  <2>2. Holds(Reboot)' = FALSE
    BY <1>2 DEF Register, Holds, Fresh
  <2> QED BY <1>1, <2>1, <2>2 DEF OutputsAlone, Registration, HeldKinds, ThereKinds, LeavingKinds,
             Protocol!Next, Protocol!Register
<1>3. CASE Teardown
  <2>1. im \in Resource /\ im.phase = "running" /\ im' = [im EXCEPT !.phase = "tearingDown"]
    BY <1>3 DEF Teardown, Running
  <2>2. im' \in Resource /\ im'.phase = "tearingDown" /\ im'.finalizers = im.finalizers
    BY <2>1 DEF Resource
  <2>3. Registration = "there" /\ Registration' = "leaving"
    BY <2>1, <2>2, NilIsNoResource DEF Registration
  <2>4. Holds(Reboot)' = Holds(Reboot)
    BY <2>1, <2>2, NilIsNoResource DEF Holds
  <2> QED BY <1>1, <2>3, <2>4 DEF OutputsAlone, Registration, HeldKinds, ThereKinds, LeavingKinds,
             Protocol!Next, Protocol!Leave
<1>4. CASE Remove
  <2>1. Registration = "leaving" /\ Registration' = "none" /\ Holds(Reboot) = FALSE
    BY <1>4 DEF Remove, Registration, Holds
  <2>2. Holds(Reboot)' = FALSE
    BY <1>4 DEF Remove, Holds
  <2> QED BY <1>1, <2>1, <2>2 DEF OutputsAlone, Registration, HeldKinds, ThereKinds, LeavingKinds,
             Protocol!Next, Protocol!Gone
<1> QED BY <1>2, <1>3, <1>4 DEF Omni

\* The controllers take hold of the machine and let go of it.
LEMMA HoldersKeepProtocol ==
  ASSUME IndInv, NEW c \in Controllers, Adopt(c) \/ Release(c)
  PROVE  [Protocol!Next]_(Protocol!vars)
<1> USE Names DEF IndInv, TypeOK
<1>1. OutputsAlone
  BY UnchangedIsAlone DEF Adopt, Release
<1>2. CASE im' = im
  BY <1>1, <1>2, UnchangedIsAlone, Stutters
<1>3. CASE im' # im /\ c # Reboot
  <2>1. im \in Resource /\ im' \in Resource /\ im'.phase = im.phase
        /\ (Reboot \in im'.finalizers <=> Reboot \in im.finalizers)
    BY <1>3, RecordsAreTyped DEF Adopt, Release, Running, Holds, Resource
  <2>2. Registration' = Registration
    BY <2>1, NilIsNoResource DEF Registration
  <2>3. Holds(Reboot)' = Holds(Reboot)
    BY <2>1, NilIsNoResource DEF Holds
  <2> QED BY <1>1, <2>2, <2>3, Stutters DEF MachineAlone
<1>4. CASE im' # im /\ c = Reboot /\ Adopt(c)
  <2>1. Running /\ im' = [im EXCEPT !.finalizers = @ \cup {Reboot}]
    BY <1>4 DEF Adopt
  <2>2. im \in Resource /\ im' \in Resource /\ im'.phase = "running" /\ Reboot \in im'.finalizers
    BY <2>1, RecordsAreTyped DEF Running, Resource
  <2>3. Registration = "there" /\ Registration' = "there"
    BY <2>1, <2>2, NilIsNoResource DEF Running, Registration
  <2>4. Holds(Reboot)' = TRUE
    BY <2>2, NilIsNoResource DEF Holds
  <2> QED BY <1>1, <2>3, <2>4 DEF OutputsAlone, Registration, HeldKinds, ThereKinds, LeavingKinds,
             Protocol!Next, Protocol!Hold
<1>5. CASE im' # im /\ c = Reboot /\ Release(c)
  <2>1. Holds(Reboot) /\ Leaves /\ im' = [im EXCEPT !.finalizers = @ \ {Reboot}]
    BY <1>5 DEF Release, StepInv, Leaving
  <2>2. im' \in Resource /\ im'.phase = "tearingDown" /\ Reboot \notin im'.finalizers
    BY <2>1, RecordsAreTyped DEF Leaves, Resource
  <2>3. Registration = "leaving" /\ Registration' = "leaving"
    BY <2>1, <2>2, NilIsNoResource DEF Leaves, Registration
  <2>4. Holds(Reboot)' = FALSE
    BY <2>2 DEF Holds
  <2>5. HeldKinds = {} /\ HeldKinds' = {}
    BY <1>1, <1>5 DEF Release, DropInv, OutputsAlone, HeldKinds
  <2> QED BY <1>1, <2>3, <2>4, <2>5 DEF OutputsAlone, Registration, HeldKinds, ThereKinds,
             LeavingKinds, Protocol!Next, Protocol!LetGo
<1> QED BY <1>2, <1>3, <1>4, <1>5

\* The owners create, tear down and destroy their outputs.
LEMMA OwnersKeepProtocol ==
  ASSUME IndInv, NEW c \in Controllers,
         Transform(c) \/ TeardownOutput(c) \/ DestroyOutput(c) \/ (StatusWrite /\ c = Status)
  PROVE  [Protocol!Next]_(Protocol!vars)
<1> USE Names DEF IndInv, TypeOK
<1>1. MachineAlone
  BY UnchangedIsAlone DEF Transform, TeardownOutput, DestroyOutput, StatusWrite
<1>2. \A k \in Controllers \ {c} : out'[k] = out[k]
  BY DEF Transform, TeardownOutput, DestroyOutput, StatusWrite
<1>3. CASE out' = out \/ c \notin {Status, BMC}
  BY <1>1, <1>2, <1>3, UnchangedIsAlone, Stutters
<1>4. CASE c \in {Status, BMC} /\ out[c] = Nil /\ out' = [out EXCEPT ![c] = Fresh]
  <2>1. out'[c] = Fresh /\ Fresh # Nil /\ Fresh.phase = "running" /\ Fresh.finalizers = {}
    BY <1>4, FreshIsResource, NilIsNoResource DEF Fresh
  <2>2. ThereKinds' = ThereKinds \cup {c} /\ c \notin ThereKinds
    BY <1>2, <1>4, <2>1 DEF ThereKinds
  <2>3. HeldKinds' = HeldKinds
    BY <1>2, <1>4, <2>1 DEF HeldKinds, HeldBy
  <2>4. LeavingKinds' = LeavingKinds
    BY <1>2, <1>4, <2>1 DEF LeavingKinds
  <2> QED BY <1>1, <1>4, <2>2, <2>3, <2>4 DEF MachineAlone, Registration, HeldKinds, ThereKinds,
             LeavingKinds, Protocol!Next, Protocol!Create
<1>5. CASE c \in {Status, BMC} /\ out[c] # Nil /\ out' = [out EXCEPT ![c].phase = "tearingDown"]
  <2>1. out'[c] = [out[c] EXCEPT !.phase = "tearingDown"] /\ out[c] \in Resource /\ out'[c] \in Resource
    BY <1>5, RecordsAreTyped
  <2>2. out'[c] # Nil /\ out'[c].phase = "tearingDown" /\ out'[c].finalizers = out[c].finalizers
    BY <2>1, NilIsNoResource DEF Resource
  <2>3. ThereKinds' = ThereKinds /\ c \in ThereKinds
    BY <1>2, <1>5, <2>2 DEF ThereKinds
  <2>4. HeldKinds' = HeldKinds
    BY <1>2, <1>5, <2>2 DEF HeldKinds, HeldBy
  <2>5. LeavingKinds' = LeavingKinds \cup {c}
    BY <1>2, <1>5, <2>2 DEF LeavingKinds
  <2> QED BY <1>1, <2>3, <2>4, <2>5 DEF MachineAlone, Registration, HeldKinds, ThereKinds,
             LeavingKinds, Protocol!Next, Protocol!TearDown
<1>6. CASE c \in {Status, BMC} /\ DestroyOutput(c)
  <2>1. /\ out[c] # Nil /\ out[c].phase = "tearingDown" /\ out[c].finalizers = {}
        /\ out'[c] = Nil
    BY <1>6 DEF DestroyOutput, StepInv
  <2>2. ThereKinds' = ThereKinds \ {c}
    BY <1>2, <2>1 DEF ThereKinds
  <2>3. HeldKinds' = HeldKinds /\ c \notin HeldKinds
    BY <1>2, <2>1 DEF HeldKinds, HeldBy
  <2>4. LeavingKinds' = LeavingKinds \ {c} /\ c \in LeavingKinds
    BY <1>2, <1>6, <2>1 DEF LeavingKinds
  <2> QED BY <1>1, <2>2, <2>3, <2>4 DEF MachineAlone, Registration, HeldKinds, ThereKinds,
             LeavingKinds, Protocol!Next, Protocol!Destroy
<1> QED BY <1>3, <1>4, <1>5, <1>6 DEF Transform, TeardownOutput, StatusWrite

\* The RebootStatusController takes hold of the outputs and lets go of them.
LEMMA RebootKeepsProtocol ==
  ASSUME IndInv, HoldStatus \/ HoldBMC \/ DropStatus \/ DropBMC
  PROVE  [Protocol!Next]_(Protocol!vars)
<1> USE Names DEF IndInv, TypeOK
<1>1. MachineAlone
  BY UnchangedIsAlone DEF HoldStatus, HoldBMC, Hold, DropStatus, DropBMC, Drop
<1>2. CASE out' = out
  BY <1>1, <1>2, UnchangedIsAlone, Stutters
<1>3. CASE (HoldStatus \/ HoldBMC) /\ out' # out
  <2>1. PICK k \in {Status, BMC}, here \in Kept, next \in Kept : Hold(k, here, next)
    BY <1>3 DEF HoldStatus, HoldBMC, Kept
  <2>2. /\ out[k] # Nil /\ ~HeldBy(Reboot, k) /\ out[k].phase = "running"
        /\ out' = [out EXCEPT ![k].finalizers = @ \cup {Reboot}]
    BY <1>3, <2>1 DEF Hold
  <2>3. Holds(Reboot) /\ Holds(Reboot)'
    BY <1>1, <2>1 DEF Hold, StepInv, MachineAlone
  <2>4. out[k] \in Resource /\ out'[k] \in Resource /\ out'[k].phase = "running"
        /\ Reboot \in out'[k].finalizers
    BY <2>2, RecordsAreTyped DEF Resource
  <2>5. \A d \in Controllers \ {k} : out'[d] = out[d]
    BY <2>2
  <2>6. HeldKinds' = HeldKinds \cup {k}
    BY <2>4, <2>5, NilIsNoResource DEF HeldKinds, HeldBy
  <2>7. ThereKinds' = ThereKinds /\ LeavingKinds' = LeavingKinds /\ k \in ThereKinds \ LeavingKinds
    BY <2>2, <2>4, <2>5, NilIsNoResource DEF ThereKinds, LeavingKinds
  <2>8. Holds(Reboot)' = TRUE
    BY <2>3 DEF Holds
  <2> QED BY <1>1, <2>3, <2>6, <2>7, <2>8 DEF MachineAlone, Registration, HeldKinds, ThereKinds,
             LeavingKinds, Protocol!Next, Protocol!Hold
<1>4. CASE (DropStatus \/ DropBMC) /\ out' # out
  <2>1. PICK k \in {Status, BMC}, here \in Leaving, next \in Leaving : Drop(k, here, next)
    BY <1>4 DEF DropStatus, DropBMC, Leaving
  <2>2. HeldBy(Reboot, k) /\ out' = [out EXCEPT ![k].finalizers = @ \ {Reboot}]
    BY <1>4, <2>1 DEF Drop
  <2>3. Holds(Reboot) /\ Leaves
    BY <2>1, <2>2 DEF Drop, NothingStuck, StepInv
  <2>4. out[k] \in Resource /\ out'[k] \in Resource /\ out'[k].phase = out[k].phase
        /\ Reboot \notin out'[k].finalizers
    BY <2>2, RecordsAreTyped DEF HeldBy, Resource
  <2>5. \A d \in Controllers \ {k} : out'[d] = out[d]
    BY <2>2
  <2>6. HeldKinds' = HeldKinds \ {k}
    BY <2>4, <2>5 DEF HeldKinds, HeldBy
  <2>7. ThereKinds' = ThereKinds /\ LeavingKinds' = LeavingKinds
    BY <2>4, <2>5, NilIsNoResource DEF ThereKinds, LeavingKinds
  <2>8. Registration = "leaving"
    BY <2>3 DEF Leaves, Registration
  <2>9. Holds(Reboot)' = Holds(Reboot) /\ Holds(Reboot) = TRUE
    BY <1>1, <2>3 DEF MachineAlone, Holds
  <2> QED BY <1>1, <2>6, <2>7, <2>8, <2>9 DEF MachineAlone, Registration, HeldKinds, ThereKinds,
             LeavingKinds, Protocol!Next, Protocol!LetGo
<1> QED BY <1>2, <1>3, <1>4

LEMMA ProtocolStep == IndInv /\ [Next]_vars => [Protocol!Next]_(Protocol!vars)
<1> SUFFICES ASSUME IndInv, [Next]_vars PROVE [Protocol!Next]_(Protocol!vars)
  OBVIOUS
<1>1. CASE Omni
  BY <1>1, OmniKeepsProtocol
<1>2. CASE StatusWrite
  BY <1>2, Names, OwnersKeepProtocol
<1>3. CASE UNCHANGED <<im, out>>
  BY <1>3, UnchangedIsAlone, Stutters
<1>4. ASSUME NEW c \in Controllers, Work(c) PROVE [Protocol!Next]_(Protocol!vars)
  <2>1. CASE Reconcile(c)
    BY <1>3, <2>1 DEF Reconcile
  <2> QED BY <1>4, <2>1, HoldersKeepProtocol, OwnersKeepProtocol DEF Work
<1>5. CASE RebootWork
  <2>1. CASE AttemptReboot
    BY <1>3, <2>1 DEF AttemptReboot
  <2> QED BY <1>5, <2>1, RebootKeepsProtocol DEF RebootWork
<1>6. CASE Failures \/ UNCHANGED vars
  BY <1>3, <1>6 DEF Failures, ReconcileFail, ProviderRestart, vars
<1> QED BY <1>1, <1>2, <1>4, <1>5, <1>6 DEF Next

\* The RebootStatusController takes hold of the machine first, lets go of it last, and finds
\* what it holds on removal, whatever the owners of it do (reboot_status.go, transform and
\* finalizerRemoval).
THEOREM HoldsWhatItNeeds == Spec => HoldsInTurn
<1>1. Init => Protocol!Init
  BY Names DEF Init, Protocol!Init, Holds, HeldBy
<1> QED BY <1>1, ProtocolStep, Invariance, PTL DEF Spec, HoldsInTurn, Protocol!Spec

\* The two promises about a removal are kept together.
THEOREM PromisesAreKept == Spec => KeepsPromises
BY RemovalIsOrderly, HoldsWhatItNeeds DEF KeepsPromises

\* All of it holds of the specification with fairness.
THEOREM FairIsSafe ==
  FairSpec => []RemovalInv /\ RebootPrecedesRelease /\ KeepsPromises
BY RemovalInvariance, RebootIsAttempted, PromisesAreKept, PTL DEF FairSpec
=============================================================================
