---------------------------- MODULE ProviderProofs ----------------------------
(***************************************************************************)
(* Proofs about Provider, for any options, any kinds of resources, any     *)
(* life of a certificate and any clock.                                    *)
(***************************************************************************)
EXTENDS Provider, TLAPS

\* What an agent trusts may change, and it is an agent still.
LEMMA DistrustedIsAgent ==
  ASSUME NEW a \in Agent \cup {Nil}
  PROVE  /\ Distrusted(a) \in Agent \cup {Nil}
         /\ Distrusted(a) # Nil => Distrusted(a).trusts # "current"
BY NilIsNothing DEF Distrusted, Agent

LEMMA NewCA == [age |-> 0, expired |-> FALSE] \in CA \ {Nil}
<1>1. 0 \in 0..Lag
  BY ProviderAssumption
<1>2. [age |-> 0, expired |-> FALSE] \in CA
  BY <1>1 DEF CA
<1> QED
  BY <1>2, NilIsNothing

\* Time and expiry make nothing else of a CA or a certificate.
LEMMA AgedCA ==
  ASSUME NEW c \in CA
  PROVE  /\ c.age < Lag => [c EXCEPT !.age = @ + 1] \in CA \ {Nil}
         /\ [c EXCEPT !.expired = TRUE] \in CA \ {Nil}
<1>1. c.age < Lag => c.age + 1 \in 0..Lag
  BY ProviderAssumption DEF CA
<1>2. c.age < Lag => [c EXCEPT !.age = @ + 1] \in CA
  BY <1>1 DEF CA
<1>3. [c EXCEPT !.expired = TRUE] \in CA
  BY DEF CA
<1> QED
  BY <1>2, <1>3, NilIsNothing

LEMMA AgedCertificate ==
  ASSUME NEW c \in Certificate
  PROVE  /\ c.left > 0 => /\ [c EXCEPT !.left = @ - 1] \in Certificate \ {Nil}
                          /\ [c EXCEPT !.left = @ - 1].by = c.by
         /\ [c EXCEPT !.left = 0] \in Certificate \ {Nil}
         /\ [c EXCEPT !.left = 0].by = c.by
<1>1. c.left > 0 => c.left - 1 \in 0..CertTTL
  BY ProviderAssumption DEF Certificate
<1>2. 0 \in 0..CertTTL
  BY ProviderAssumption
<1> QED
  BY <1>1, <1>2, NilIsNothing DEF Certificate

LEMMA InvInit == Init => ProcessInv
BY ProviderAssumption
   DEF Init, ProcessInv, TypeOK, RefusedEarly, ClearedWhole, SignerIsStored, EndsWhole

LEMMA InvStep == ProcessInv /\ [Next]_vars => ProcessInv'
<1> SUFFICES ASSUME ProcessInv, [Next]_vars PROVE ProcessInv'
  OBVIOUS
<1> USE ProviderAssumption, NilIsNothing DEF ProcessInv, TypeOK, omni, machine, Listeners
<1>1. ASSUME NEW o \in OptionSets, Start(o) PROVE ProcessInv'
  BY <1>1 DEF Start, RefusedEarly, ClearedWhole, SignerIsStored, EndsWhole
<1>2. ASSUME Validate PROVE ProcessInv'
  <2>1. TypeOK'
    BY <1>2 DEF Validate, StartingAt, GoesOn, Ended
  <2>2. RefusedEarly'
    BY <1>2, <2>1 DEF Validate, StartingAt, GoesOn, Ended, RefusedEarly
  <2>3. ClearedWhole'
    BY <1>2, <2>1 DEF Validate, StartingAt, GoesOn, Ended, ClearedWhole
  <2>4. SignerIsStored'
    BY <1>2, <2>1 DEF Validate, StartingAt, GoesOn, Ended, SignerIsStored
  <2>5. EndsWhole'
    BY <1>2, <2>1 DEF Validate, StartingAt, GoesOn, Ended, EndsWhole
  <2> QED
    BY <2>1, <2>2, <2>3, <2>4, <2>5
<1>3. ASSUME ListState PROVE ProcessInv'
  BY <1>3 DEF ListState, StartingAt, RefusedEarly, ClearedWhole, SignerIsStored, EndsWhole
<1>4. ASSUME NEW k \in Kinds \cup {TLSConfig}, Destroy(k) PROVE ProcessInv'
  <2>1. TypeOK'
    BY <1>4, DistrustedIsAgent DEF Destroy, StartingAt
  <2>2. RefusedEarly'
    BY <1>4, <2>1, DistrustedIsAgent DEF Destroy, StartingAt, RefusedEarly
  <2>3. ClearedWhole'
    BY <1>4, <2>1, DistrustedIsAgent DEF Destroy, StartingAt, ClearedWhole
  <2>4. SignerIsStored'
    BY <1>4, <2>1, DistrustedIsAgent DEF Destroy, StartingAt, SignerIsStored
  <2>5. EndsWhole'
    BY <1>4, <2>1, DistrustedIsAgent DEF Destroy, StartingAt, EndsWhole
  <2> QED
    BY <2>1, <2>2, <2>3, <2>4, <2>5
<1>5. ASSUME StateCleared PROVE ProcessInv'
  BY <1>5 DEF StateCleared, StartingAt, GoesOn, Ended, RefusedEarly, ClearedWhole, SignerIsStored, EndsWhole
<1>6. ASSUME EnsureProviderStatus PROVE ProcessInv'
  BY <1>6 DEF EnsureProviderStatus, StartingAt, GoesOn, RefusedEarly, ClearedWhole, SignerIsStored, EndsWhole
<1>7. ASSUME LoadCerts PROVE ProcessInv'
  <2>1. TypeOK'
    BY <1>7 DEF LoadCerts, StartingAt, Certificate
  <2>2. RefusedEarly'
    BY <1>7, <2>1 DEF LoadCerts, StartingAt, Certificate, RefusedEarly
  <2>3. ClearedWhole'
    BY <1>7, <2>1 DEF LoadCerts, StartingAt, Certificate, ClearedWhole
  <2>4. SignerIsStored'
    BY <1>7, <2>1 DEF LoadCerts, StartingAt, Certificate, SignerIsStored
  <2>5. EndsWhole'
    BY <1>7, <2>1 DEF LoadCerts, StartingAt, Certificate, EndsWhole
  <2> QED
    BY <2>1, <2>2, <2>3, <2>4, <2>5
<1>8. ASSUME InitCA PROVE ProcessInv'
  <2>1. TypeOK'
    <3>1. ca' \in CA
      BY <1>8, NewCA DEF InitCA, NeedsCA
    <3>2. agent' \in Agent \cup {Nil}
      BY <1>8, DistrustedIsAgent DEF InitCA
    <3> QED
      BY <1>8, <3>1, <3>2 DEF InitCA, StartingAt, GoesOn, Ended
  <2>2. RefusedEarly'
    BY <1>8, <2>1, DistrustedIsAgent, AgedCA DEF InitCA, NeedsCA, StartingAt, GoesOn, Ended, RefusedEarly
  <2>3. ClearedWhole'
    BY <1>8, <2>1, DistrustedIsAgent, AgedCA DEF InitCA, NeedsCA, StartingAt, GoesOn, Ended, ClearedWhole
  <2>4. SignerIsStored'
    <3>1. ca' # Nil
      BY <1>8, NewCA DEF InitCA, NeedsCA
    <3> QED
      BY <1>8, <3>1 DEF InitCA, StartingAt, GoesOn, Ended, SignerIsStored
  <2>5. EndsWhole'
    BY <1>8, <2>1, DistrustedIsAgent, AgedCA DEF InitCA, NeedsCA, StartingAt, GoesOn, Ended, EndsWhole
  <2> QED
    BY <2>1, <2>2, <2>3, <2>4, <2>5
<1>9. ASSUME Build PROVE ProcessInv'
  <2>1. TypeOK'
    BY <1>9 DEF Build, StartingAt, Ended, Parts
  <2>2. RefusedEarly'
    BY <1>9, <2>1 DEF Build, StartingAt, Ended, Parts, RefusedEarly
  <2>3. ClearedWhole'
    BY <1>9, <2>1 DEF Build, StartingAt, Ended, Parts, ClearedWhole
  <2>4. SignerIsStored'
    BY <1>9, <2>1 DEF Build, StartingAt, Ended, Parts, SignerIsStored
  <2>5. EndsWhole'
    BY <1>9, <2>1 DEF Build, StartingAt, Ended, Parts, EndsWhole
  <2> QED
    BY <2>1, <2>2, <2>3, <2>4, <2>5
<1>10. ASSUME StartFails PROVE ProcessInv'
  BY <1>10 DEF StartFails, StartingAt, Ended, RefusedEarly, ClearedWhole, SignerIsStored, EndsWhole
<1>11. ASSUME Signal PROVE ProcessInv'
  BY <1>11 DEF Signal, surroundings, RefusedEarly, ClearedWhole, SignerIsStored, EndsWhole
<1>12. ASSUME NEW c \in up, ComponentFails(c) PROVE ProcessInv'
  BY <1>12 DEF ComponentFails, surroundings, RefusedEarly, ClearedWhole, SignerIsStored, EndsWhole
<1>13. ASSUME NEW c \in up, ComponentStops(c) PROVE ProcessInv'
  BY <1>13 DEF ComponentStops, surroundings, RefusedEarly, ClearedWhole, SignerIsStored, EndsWhole
<1>14. ASSUME NEW c \in up, ServeFails(c) PROVE ProcessInv'
  BY <1>14 DEF ServeFails, surroundings, RefusedEarly, ClearedWhole, SignerIsStored, EndsWhole
<1>15. ASSUME ShutdownOnCancel PROVE ProcessInv'
  BY <1>15 DEF ShutdownOnCancel, surroundings, RefusedEarly, ClearedWhole, SignerIsStored, EndsWhole
<1>16. ASSUME NEW l \in Listeners, Drained(l) PROVE ProcessInv'
  <2>1. TypeOK'
    BY <1>16 DEF Drained, ListenerGone, surroundings
  <2>2. RefusedEarly'
    BY <1>16, <2>1 DEF Drained, ListenerGone, surroundings, RefusedEarly
  <2>3. ClearedWhole'
    BY <1>16, <2>1 DEF Drained, ListenerGone, surroundings, ClearedWhole
  <2>4. SignerIsStored'
    BY <1>16, <2>1 DEF Drained, ListenerGone, surroundings, SignerIsStored
  <2>5. EndsWhole'
    BY <1>16, <2>1 DEF Drained, ListenerGone, surroundings, EndsWhole
  <2> QED
    BY <2>1, <2>2, <2>3, <2>4, <2>5
<1>17. ASSUME NEW l \in Listeners, ShutdownTimesOut(l) PROVE ProcessInv'
  <2>1. TypeOK'
    BY <1>17 DEF ShutdownTimesOut, ListenerGone, surroundings
  <2>2. RefusedEarly'
    BY <1>17, <2>1 DEF ShutdownTimesOut, ListenerGone, surroundings, RefusedEarly
  <2>3. ClearedWhole'
    BY <1>17, <2>1 DEF ShutdownTimesOut, ListenerGone, surroundings, ClearedWhole
  <2>4. SignerIsStored'
    BY <1>17, <2>1 DEF ShutdownTimesOut, ListenerGone, surroundings, SignerIsStored
  <2>5. EndsWhole'
    BY <1>17, <2>1 DEF ShutdownTimesOut, ListenerGone, surroundings, EndsWhole
  <2> QED
    BY <2>1, <2>2, <2>3, <2>4, <2>5
<1>18. ASSUME Exit PROVE ProcessInv'
  BY <1>18 DEF Exit, Ended, RefusedEarly, ClearedWhole, SignerIsStored, EndsWhole
<1>19. ASSUME Crash PROVE ProcessInv'
  BY <1>19 DEF Crash, Ended, RefusedEarly, ClearedWhole, SignerIsStored, EndsWhole
<1>20. ASSUME RunControllers PROVE ProcessInv'
  BY <1>20 DEF RunControllers, process, RefusedEarly, ClearedWhole, SignerIsStored, EndsWhole
<1>21. ASSUME BootAgent PROVE ProcessInv'
  <2>1. TypeOK'
    BY <1>21 DEF BootAgent, Trusted, Serving, process, Agent, Options
  <2>2. RefusedEarly'
    BY <1>21, <2>1 DEF BootAgent, Trusted, Serving, process, Agent, Options, RefusedEarly
  <2>3. ClearedWhole'
    BY <1>21, <2>1 DEF BootAgent, Trusted, Serving, process, Agent, Options, ClearedWhole
  <2>4. SignerIsStored'
    BY <1>21, <2>1 DEF BootAgent, Trusted, Serving, process, Options, SignerIsStored, EndsWhole
  <2>5. EndsWhole'
    BY <1>21, <2>1 DEF BootAgent, Trusted, Serving, process, Agent, Options, EndsWhole
  <2> QED
    BY <2>1, <2>2, <2>3, <2>4, <2>5
<1>22. ASSUME Reset PROVE ProcessInv'
  BY <1>22 DEF Reset, process, RefusedEarly, ClearedWhole, SignerIsStored, EndsWhole
<1>23. ASSUME TunnelEnds PROVE ProcessInv'
  BY <1>23 DEF TunnelEnds, process, RefusedEarly, ClearedWhole, SignerIsStored, EndsWhole
<1>24. ASSUME Connect PROVE ProcessInv'
  BY <1>24 DEF Connect, Serving, process, RefusedEarly, ClearedWhole, SignerIsStored, EndsWhole
<1>25. ASSUME Handshake PROVE ProcessInv'
  <2>1. TypeOK'
    BY <1>25 DEF Handshake, WantsTLS, Serving, GetCertificate, ShouldRenew, process, Certificate, Parts, Options
  <2>2. RefusedEarly'
    BY <1>25, <2>1 DEF Handshake, WantsTLS, Serving, GetCertificate, ShouldRenew, process, Certificate, Parts, Options, RefusedEarly, EndsWhole, Parts
  <2>3. ClearedWhole'
    BY <1>25, <2>1 DEF Handshake, WantsTLS, Serving, GetCertificate, ShouldRenew, process, Certificate, Parts, Options, ClearedWhole, EndsWhole, Parts
  <2>4. SignerIsStored'
    BY <1>25, <2>1 DEF Handshake, WantsTLS, Serving, GetCertificate, ShouldRenew, process, Certificate, Parts, Options, SignerIsStored, EndsWhole, Parts
  <2>5. EndsWhole'
    BY <1>25, <2>1 DEF Handshake, WantsTLS, Serving, GetCertificate, ShouldRenew, process, Certificate, Parts, Options, EndsWhole
  <2> QED
    BY <2>1, <2>2, <2>3, <2>4, <2>5
<1>26. ASSUME Tick PROVE ProcessInv'
  <2>1. TypeOK'
    <3>1. ca' \in CA \cup {Nil}
      BY <1>26, AgedCA DEF Tick
    <3>2. cert' \in Certificate \cup {Nil}
      BY <1>26, AgedCertificate DEF Tick
    <3> QED
      BY <1>26, <3>1, <3>2 DEF Tick, process
  <2>2. RefusedEarly'
    BY <1>26, <2>1, AgedCA, AgedCertificate DEF Tick, process, RefusedEarly
  <2>3. ClearedWhole'
    BY <1>26, <2>1, AgedCA, AgedCertificate DEF Tick, process, ClearedWhole
  <2>4. SignerIsStored'
    BY <1>26, <2>1, AgedCA, AgedCertificate DEF Tick, process, SignerIsStored
  <2>5. EndsWhole'
    BY <1>26, <2>1, AgedCA, AgedCertificate DEF Tick, process, EndsWhole
  <2> QED
    BY <2>1, <2>2, <2>3, <2>4, <2>5
<1>27. ASSUME Expire PROVE ProcessInv'
  <2>1. TypeOK'
    <3>1. CASE ca # Nil /\ ca' = [ca EXCEPT !.expired = TRUE] /\ UNCHANGED cert
      <4>1. ca' \in CA
        BY <3>1, AgedCA
      <4> QED
        BY <1>27, <3>1, <4>1 DEF Expire, process
    <3>2. CASE cert # Nil /\ cert' = [cert EXCEPT !.left = 0] /\ UNCHANGED ca
      <4>1. cert' \in Certificate
        BY <3>2, AgedCertificate
      <4> QED
        BY <1>27, <3>2, <4>1 DEF Expire, process
    <3> QED
      BY <1>27, <3>1, <3>2 DEF Expire
  <2>2. RefusedEarly'
    BY <1>27, <2>1, AgedCA, AgedCertificate DEF Expire, process, RefusedEarly
  <2>3. ClearedWhole'
    BY <1>27, <2>1, AgedCA, AgedCertificate DEF Expire, process, ClearedWhole
  <2>4. SignerIsStored'
    BY <1>27, <2>1, AgedCA, AgedCertificate DEF Expire, process, SignerIsStored
  <2>5. EndsWhole'
    BY <1>27, <2>1, AgedCA, AgedCertificate DEF Expire, process, EndsWhole
  <2> QED
    BY <2>1, <2>2, <2>3, <2>4, <2>5
<1>28. CASE UNCHANGED vars
  BY <1>28 DEF vars, RefusedEarly, ClearedWhole, SignerIsStored, EndsWhole
<1> QED
  BY <1>1, <1>2, <1>3, <1>4, <1>5, <1>6, <1>7, <1>8, <1>9, <1>10, <1>11, <1>12, <1>13, <1>14, <1>15, <1>16, <1>17, <1>18, <1>19, <1>20, <1>21, <1>22, <1>23, <1>24, <1>25, <1>26, <1>27, <1>28 DEF Next, Actions, StartUp, Ending, Mishaps

\* What holds of the process, of Omni and of the certificates at all times (provider.go,
\* Run, clearState and runComponents; tls.go).
THEOREM ProcessInvariance == Spec => []ProcessInv
<1> QED
  BY InvInit, InvStep, PTL DEF Spec

\* A start refused for its options leaves in Omni what there was (provider.go, validateOptions).
THEOREM RefusedIsUntouched == Spec => RefusedUntouched
<1>1. ProcessInv /\ [Next]_vars =>
        (phase # "down" /\ ~Accepted(options) => UNCHANGED omni /\ (ca' = Nil) = (ca = Nil))
  <2> SUFFICES ASSUME ProcessInv, [Next]_vars, phase # "down", ~Accepted(options)
               PROVE  UNCHANGED omni /\ (ca' = Nil) = (ca = Nil)
    OBVIOUS
  <2>1. phase = "options" /\ up = {} /\ draining = {} /\ ca \in CA \cup {Nil}
    BY DEF ProcessInv, TypeOK, RefusedEarly, EndsWhole
  <2>2. CASE Tick \/ Expire
    BY <2>1, <2>2, AgedCA, NilIsNothing DEF Tick, Expire
  <2>3. CASE UNCHANGED vars
    BY <2>3 DEF vars, omni
  <2>4. CASE Next /\ ~Tick /\ ~Expire
    BY <2>1, <2>4
    DEF Next, Actions, StartUp, Ending, Mishaps, Start, Validate, ListState, Destroy, StateCleared,
        EnsureProviderStatus, LoadCerts, InitCA, Build, StartFails, StartingAt, Signal, Ended,
        ComponentFails, ComponentStops, ServeFails, ShutdownOnCancel, Drained, ShutdownTimesOut,
        Exit, Crash, RunControllers, BootAgent, Trusted, Reset, TunnelEnds, Connect, Handshake, WantsTLS,
        Serving, surroundings, omni
  <2> QED
    BY <2>2, <2>3, <2>4
<1> QED
  BY <1>1, ProcessInvariance, PTL DEF Spec, RefusedUntouched

\* The CA a running machine trusts is replaced only once it has expired or the state has been
\* cleared (tls.go, initCA and generateCA).
THEOREM TrustIsKept == Spec => TrustSurvives
<1>1. ProcessInv /\ [Next]_vars =>
        (agent # Nil /\ agent' # Nil /\ agent.trusts = "current" /\ agent'.trusts = "stale"
           => options.clear \/ ca.expired)
  <2> SUFFICES ASSUME ProcessInv, [Next]_vars, agent # Nil, agent' # Nil,
                      agent.trusts = "current", agent'.trusts = "stale"
               PROVE  options.clear \/ ca.expired
    OBVIOUS
  <2>1. agent' # agent
    OBVIOUS
  <2>2. (\E k \in Kinds \cup {TLSConfig} : Destroy(k)) \/ InitCA \/ BootAgent
    BY <2>1
    DEF Next, Actions, StartUp, Ending, Mishaps, Start, Validate, ListState, StateCleared,
        EnsureProviderStatus, LoadCerts, Build, StartFails, Signal, ComponentFails,
        ComponentStops, ServeFails, ShutdownOnCancel, Drained, ShutdownTimesOut, Exit, Crash,
        RunControllers, Reset, TunnelEnds, Connect, Handshake, Tick, Expire, surroundings, machine, vars
  <2>3. CASE BootAgent
    BY <2>3, ProviderAssumption DEF BootAgent, Trusted, ProcessInv, TypeOK, Options
  <2>4. CASE InitCA
    BY <2>1, <2>4 DEF InitCA, NeedsCA, ProcessInv, SignerIsStored
  <2>5. CASE \E k \in Kinds \cup {TLSConfig} : Destroy(k)
    BY <2>5 DEF Destroy, StartingAt, ProcessInv, ClearedWhole
  <2> QED
    BY <2>2, <2>3, <2>4, <2>5
<1> QED
  BY <1>1, ProcessInvariance, PTL DEF Spec, TrustSurvives

-----------------------------------------------------------------------------
(* The process never runs on in part.  A start has no failure behind it: the one step that    *)
(* goes on after a failure is the clearing of the state, which ends the process.              *)
CleanStart == phase \in {"options", "list", "register", "tls", "build"} => ~failed

WholeInv == CleanStart /\ WholeOrEnding

\* All that a step of the start, or one beside the process, makes of it.
LEMMA WholeStep == ProcessInv /\ WholeInv /\ [Next]_vars => WholeInv'
<1> SUFFICES ASSUME ProcessInv, WholeInv, [Next]_vars PROVE WholeInv'
  OBVIOUS
<1> USE DEF WholeInv, CleanStart, WholeOrEnding
<1>1. ASSUME NEW o \in OptionSets, Start(o) PROVE WholeInv'
  BY <1>1 DEF Start
<1>2. CASE StartUp
  <2>1. CASE Validate \/ ListState
    BY <2>1 DEF Validate, ListState, StartingAt, GoesOn, Ended
  <2>2. ASSUME NEW k \in Kinds \cup {TLSConfig}, Destroy(k) PROVE WholeInv'
    BY <2>2 DEF Destroy, StartingAt
  <2>3. CASE StateCleared \/ EnsureProviderStatus
    BY <2>3 DEF StateCleared, EnsureProviderStatus, StartingAt, GoesOn, Ended
  <2>4. CASE LoadCerts \/ InitCA
    BY <2>4 DEF LoadCerts, InitCA, StartingAt, GoesOn, Ended
  <2>5. CASE Build
    BY <2>5 DEF Build, StartingAt, Ended, ProcessInv, EndsWhole, Parts
  <2>6. CASE StartFails
    BY <2>6 DEF StartFails, Ended
  <2> QED BY <1>2, <2>1, <2>2, <2>3, <2>4, <2>5, <2>6 DEF StartUp
<1>3. CASE Signal
  BY <1>3 DEF Signal, surroundings
<1>4. CASE \E c \in up : ComponentFails(c) \/ ComponentStops(c)
  <2>1. phase = "running" /\ cancelled' /\ UNCHANGED phase
    BY <1>4 DEF ComponentFails, ComponentStops, surroundings, ProcessInv, EndsWhole, TypeOK
  <2> QED BY <2>1
\* The other listener is told as well.
<1>5. CASE \E c \in up : ServeFails(c)
  <2>1. PICK c \in up : ServeFails(c)
    BY <1>5
  <2>2. phase = "running" /\ UNCHANGED phase
    BY <2>1 DEF ServeFails, ProcessInv, EndsWhole
  <2>3. draining' # {} /\ draining' = up' \cap Listeners
    BY <2>1 DEF ServeFails
  <2> QED BY <2>2, <2>3
<1>6. CASE ShutdownOnCancel
  BY <1>6 DEF ShutdownOnCancel, surroundings, ProcessInv, EndsWhole
\* The last listener that goes has the rest told to end.
<1>7. CASE \E l \in Listeners : Drained(l) \/ ShutdownTimesOut(l)
  <2>1. PICK l \in Listeners : l \in draining /\ ListenerGone(l)
    BY <1>7 DEF Drained, ShutdownTimesOut
  <2>2. phase = "running" /\ UNCHANGED phase
    BY <1>7, <2>1 DEF Drained, ShutdownTimesOut, surroundings, ProcessInv, EndsWhole
  <2>3. CASE cancelled \/ up' \cap Listeners = {}
    BY <2>1, <2>2, <2>3 DEF ListenerGone
  <2>4. CASE ~cancelled /\ up' \cap Listeners # {}
    <3>1. draining = up \cap Listeners
      BY <2>1, <2>2, <2>4
    <3>2. draining' = up' \cap Listeners
      BY <2>1, <3>1 DEF ListenerGone
    <3> QED BY <2>2, <2>4, <3>2
  <2> QED BY <2>3, <2>4
<1>8. CASE Exit \/ Crash
  BY <1>8 DEF Exit, Crash, Ended
<1>9. CASE TunnelEnds \/ Reset \/ Expire \/ RunControllers \/ BootAgent \/ Connect \/ Handshake \/ Tick
  <2>1. UNCHANGED process
    BY <1>9 DEF TunnelEnds, Reset, Expire, RunControllers, BootAgent, Connect, Handshake, Tick
  <2> QED BY <2>1 DEF process, Parts
<1>10. CASE UNCHANGED vars
  BY <1>10 DEF vars, Parts
<1> QED
  BY <1>1, <1>2, <1>3, <1>4, <1>5, <1>6, <1>7, <1>8, <1>9, <1>10 DEF Next, Actions, Ending, Mishaps

\* The process runs whole, or all that is left of it is on its way to end: the safety half of
\* EndsTogether (provider.go, runComponents; server.go, Run).
THEOREM RunsWholeOrEnds == Spec => []WholeOrEnding
<1>1. Init => WholeInv
  BY DEF Init, WholeInv, CleanStart, WholeOrEnding
<1>2. ProcessInv /\ WholeInv /\ [Next]_vars => WholeInv'
  BY WholeStep
<1>3. WholeInv => WholeOrEnding
  BY DEF WholeInv
<1> QED
  BY <1>1, <1>2, <1>3, ProcessInvariance, PTL DEF Spec

\* What the run checks of every state, for any options, kinds of resources and certificates.
THEOREM ProviderInvariance == Spec => []ProviderInv
<1>1. ProcessInv /\ WholeOrEnding => ProviderInv
  BY DEF ProviderInv
<1> QED
  BY <1>1, ProcessInvariance, RunsWholeOrEnds, PTL

\* All this holds under the fairness assumed for liveness, too.
THEOREM FairIsSafe ==
  FairSpec => []ProviderInv /\ RefusedUntouched /\ TrustSurvives
<1>1. [Actions \/ TimelyTick]_vars => [Next]_vars
  BY DEF Next, TimelyTick
<1>2. FairSpec => Spec
  BY <1>1, PTL DEF FairSpec, Spec
<1> QED
  BY <1>2, ProviderInvariance, RefusedIsUntouched, TrustIsKept
=============================================================================
