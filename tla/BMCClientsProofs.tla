--------------------------- MODULE BMCClientsProofs ----------------------------
(***************************************************************************)
(* Proofs about BMCClients, for any machines, addresses and callers, either *)
(* value of the flags, and any bounds.                                     *)
(***************************************************************************)
EXTENDS BMCClients, TLAPS

LEMMA KeysAreKnown ==
  ASSUME TypeOK, DecisionInv, NEW c \in Callers, Undecided(c)
  PROVE  /\ call[c].bmc.address \in Addresses /\ call[c].machine \in Machines
         /\ KeyOf(c) \in Keys
<1>1. call[c] \in Progress /\ call[c] # Idle
  BY DEF TypeOK, Undecided, Idle
<1>2. call[c].machine \in Machines /\ call[c].bmc \in BMCConfiguration
  BY <1>1 DEF Progress
<1>3. call[c].bmc.address \in Addresses
  BY <1>2 DEF DecisionInv, DecisionIsRight, BMCConfiguration
<1> QED BY <1>2, <1>3 DEF KeyOf, Key, Keys

LEMMA StartedIsProgress ==
  ASSUME NEW m \in Machines, NEW config \in BMCConfiguration
  PROVE  Started(m, config) \in Progress
BY DEF Started, Start, Progress, BMCConfiguration

\* A step within a call changes that call only.
LEMMA StepIsProgress ==
  ASSUME TypeOK, NEW c \in Callers, call[c] # Idle,
         NEW step \in {"wait", "probe", "connect", "use", "close"},
         NEW over \in {"undecided", "manual", "api", "redfish", "ipmi"},
         Step(c, step, over)
  PROVE  /\ call' \in [Callers -> Progress]
         /\ call'[c].step = step /\ call'[c].over = over
         /\ call'[c].machine = call[c].machine /\ call'[c].bmc = call[c].bmc
         /\ \A d \in Callers \ {c} : call'[d] = call[d]
<1>1. call[c] \in Progress \ {Idle}
  BY DEF TypeOK
<1>2. [call[c] EXCEPT !.step = step, !.over = over] \in Progress
  BY <1>1 DEF Progress
<1>3. call' = [call EXCEPT ![c] = [call[c] EXCEPT !.step = step, !.over = over]]
  BY DEF Step, TypeOK
<1> QED BY <1>1, <1>2, <1>3 DEF TypeOK, Progress

LEMMA InitInv == Init => ClientsInv
<1> SUFFICES ASSUME Init PROVE ClientsInv
  OBVIOUS
<1>1. TypeOK
  BY ClientsAssumption DEF Init, TypeOK, EmptyCache, Answers, Progress
<1>2. \A c \in Callers : call[c] = Idle /\ lock # c
  BY ClientsAssumption DEF Init
<1>3. \A m \in Machines, a \in Addresses : cache[Key(m, a)] = "unknown"
  BY DEF Init, EmptyCache, Keys, Key
<1> QED BY <1>1, <1>2, <1>3 DEF Init, ClientsInv, LockInv, CacheInv, DecisionInv, DecisionIsRight,
                               SessionInv, Undecided, Decided, Idle

\* What the calls other than c are, and what is known already, stays.
Untouched(c) ==
  /\ UNCHANGED redfish
  /\ \A d \in Callers \ {c} : call'[d] = call[d]
  /\ \A k \in Keys : cache[k] # "unknown" => cache'[k] = cache[k]

\* Then so does all that the invariant says of them, but for the lock.
LEMMA OthersStay ==
  ASSUME ClientsInv, NEW c \in Callers, Untouched(c), NEW d \in Callers \ {c}
  PROVE  DecisionIsRight(d)'
<1>1. KeyOf(d)' = KeyOf(d) /\ Decided(d)' = Decided(d) /\ Undecided(d)' = Undecided(d)
  BY DEF Untouched, KeyOf, Key, Decided, Undecided
<1>2. DecisionIsRight(d) /\ call'[d] = call[d]
  BY DEF ClientsInv, DecisionInv, Untouched
<1>3. ASSUME cache[KeyOf(d)] # "unknown", Decided(d), call[d].bmc.source = "ipmi"
      PROVE  cache'[KeyOf(d)] = cache[KeyOf(d)]
  <2>1. call[d] \in Progress /\ call[d] # Idle
    BY <1>3 DEF ClientsInv, TypeOK, Decided, Idle
  <2>2. call[d].machine \in Machines /\ call[d].bmc.address \in Addresses
    BY <2>1, <1>3 DEF Progress, BMCConfiguration
  <2> QED BY <2>2, <1>3 DEF KeyOf, Key, Keys, Untouched
<1> QED BY <1>1, <1>2, <1>3 DEF DecisionIsRight

\* A step of a call that is not a probe touches neither the lock nor what is known.
LEMMA QuietStep ==
  ASSUME ClientsInv, NEW c \in Callers,
         call[c].step # "probe", call'[c].step # "probe",
         UNCHANGED <<redfish, cache, lock>>,
         \A d \in Callers \ {c} : call'[d] = call[d],
         DecisionIsRight(c)'
  PROVE  LockInv' /\ CacheInv' /\ DecisionInv'
<1>1. LockInv'
  BY DEF ClientsInv, LockInv, KeyOf, Key
<1>2. CacheInv'
  BY DEF ClientsInv, CacheInv, Key
<1>3. DecisionInv'
  <2>1. Untouched(c)
    BY DEF Untouched
  <2> QED BY <2>1, OthersStay DEF DecisionInv
<1> QED BY <1>1, <1>2, <1>3

LEMMA GetClientStep ==
  ASSUME ClientsInv, NEW c \in Callers, GetClient(c)
  PROVE  ClientsInv'
<1> DEFINE new(m) == Started(m, bmc[m])
<1>1. PICK m \in Machines : call' = [call EXCEPT ![c] = new(m)]
  BY DEF GetClient
<1>2. new(m) \in Progress
  BY StartedIsProgress DEF ClientsInv, TypeOK
<1>3. call'[c] = new(m) /\ \A d \in Callers \ {c} : call'[d] = call[d]
  BY <1>1 DEF ClientsInv, TypeOK
<1>4. call[c].step = "idle" /\ new(m).step \in {"use", "wait", "connect"}
  BY DEF GetClient, Idle, Started, Start
<1>5. TypeOK'
  BY <1>1, <1>2 DEF ClientsInv, TypeOK, GetClient
<1>6. DecisionIsRight(c)'
  BY <1>3 DEF DecisionIsRight, Started, Start, Undecided, Decided
<1>7. LockInv' /\ CacheInv' /\ DecisionInv'
  BY <1>3, <1>4, <1>6, QuietStep DEF GetClient
<1>8. SessionInv'
  BY <1>3, <1>4 DEF ClientsInv, SessionInv, GetClient, TypeOK
<1> QED BY <1>5, <1>7, <1>8 DEF ClientsInv

\* What the cache says decides.
LEMMA AnsweredIsRight ==
  ASSUME ClientsInv, NEW c \in Callers, Undecided(c),
         NEW answer \in {"available", "unavailable"}, Answered(c, answer),
         cache'[KeyOf(c)] = answer
  PROVE  /\ call' \in [Callers -> Progress]
         /\ DecisionIsRight(c)'
         /\ call'[c].step \in {"use", "connect"}
         /\ \A d \in Callers \ {c} : call'[d] = call[d]
<1>1. call[c] # Idle /\ TypeOK
  BY DEF Undecided, Idle, ClientsInv
<1>2. PICK step \in {"use", "connect"}, over \in {"redfish", "ipmi"} :
        /\ Step(c, step, over)
        /\ over = "redfish" <=> answer = "available"
        /\ step = "connect" => over = "ipmi"
  BY DEF Answered
<1>3. /\ call' \in [Callers -> Progress]
      /\ call'[c].step = step /\ call'[c].over = over
      /\ call'[c].machine = call[c].machine /\ call'[c].bmc = call[c].bmc
      /\ \A d \in Callers \ {c} : call'[d] = call[d]
  BY <1>1, <1>2, StepIsProgress
<1>4. call[c].bmc.source = "ipmi" /\ ~UseAlways /\ UseWhenAvailable
  BY DEF ClientsInv, DecisionInv, DecisionIsRight
<1>5. KeyOf(c)' = KeyOf(c)
  BY <1>3 DEF KeyOf, Key
<1>6. DecisionIsRight(c)'
  BY <1>2, <1>3, <1>4, <1>5 DEF DecisionIsRight, Undecided
<1> QED BY <1>3, <1>6

LEMMA CacheHitStep ==
  ASSUME ClientsInv, NEW c \in Callers, CacheHit(c)
  PROVE  ClientsInv'
<1>1. Undecided(c) /\ call[c].step = "wait"
  BY DEF CacheHit, Undecided
<1>2. cache[KeyOf(c)] \in {"available", "unavailable"}
  <2>1. KeyOf(c) \in Keys
    BY <1>1, KeysAreKnown DEF ClientsInv
  <2> QED BY <2>1 DEF CacheHit, ClientsInv, TypeOK, Answers
<1>3. cache'[KeyOf(c)] = cache[KeyOf(c)]
  BY DEF CacheHit
<1>4. /\ call' \in [Callers -> Progress]
      /\ DecisionIsRight(c)'
      /\ call'[c].step \in {"use", "connect"}
      /\ \A d \in Callers \ {c} : call'[d] = call[d]
  BY <1>1, <1>2, <1>3, AnsweredIsRight DEF CacheHit
<1>5. TypeOK'
  BY <1>4 DEF ClientsInv, TypeOK, CacheHit
<1>6. LockInv' /\ CacheInv' /\ DecisionInv'
  BY <1>1, <1>4, QuietStep DEF CacheHit
<1>7. SessionInv'
  BY <1>1, <1>4 DEF ClientsInv, SessionInv, CacheHit, TypeOK
<1> QED BY <1>5, <1>6, <1>7 DEF ClientsInv

LEMMA BeginProbeStep ==
  ASSUME ClientsInv, NEW c \in Callers, BeginProbe(c)
  PROVE  ClientsInv'
<1>1. /\ call' \in [Callers -> Progress]
      /\ call'[c].step = "probe" /\ call'[c].over = "undecided"
      /\ call'[c].machine = call[c].machine /\ call'[c].bmc = call[c].bmc
      /\ \A d \in Callers \ {c} : call'[d] = call[d]
  BY StepIsProgress DEF BeginProbe, ClientsInv, Idle
<1>2. Undecided(c) /\ call[c].step = "wait"
  BY DEF BeginProbe, Undecided
<1>3. TypeOK'
  BY <1>1 DEF ClientsInv, TypeOK, BeginProbe
<1>4. LockInv'
  BY <1>1, ClientsAssumption DEF ClientsInv, LockInv, BeginProbe, KeyOf, Key
<1>5. CacheInv'
  BY DEF ClientsInv, CacheInv, Key, BeginProbe
<1>6. DecisionInv'
  <2>1. Untouched(c)
    BY <1>1 DEF Untouched, BeginProbe
  <2>2. DecisionIsRight(c)'
    BY <1>1, <1>2 DEF ClientsInv, DecisionInv, DecisionIsRight, Decided, Undecided
  <2> QED BY <2>1, <2>2, OthersStay DEF DecisionInv
<1>7. SessionInv'
  BY <1>1, <1>2 DEF ClientsInv, SessionInv, BeginProbe, TypeOK
<1> QED BY <1>3, <1>4, <1>5, <1>6, <1>7 DEF ClientsInv

\* The answer to a probe is true, is not known before, and lets go of the lock.
LEMMA ProbedStep ==
  ASSUME ClientsInv, NEW c \in Callers, call[c].step = "probe",
         NEW answer \in {"available", "unavailable"}, Probed(c, answer),
         answer = "available" => Speaks(call[c].bmc),
         lock' = Nil, mishaps' \in 0..MaxMishaps
  PROVE  ClientsInv'
<1>1. Undecided(c)
  BY DEF Undecided
<1>2. KeyOf(c) \in Keys /\ call[c].bmc.address \in Addresses /\ call[c].machine \in Machines
  BY <1>1, KeysAreKnown DEF ClientsInv
<1>3. /\ cache' = [cache EXCEPT ![KeyOf(c)] = answer] /\ cache'[KeyOf(c)] = answer
      /\ \A k \in Keys \ {KeyOf(c)} : cache'[k] = cache[k]
      /\ UNCHANGED <<bmc, redfish, sessions, reconfigurations>>
  BY <1>2 DEF Probed, ClientsInv, TypeOK
<1>4. /\ call' \in [Callers -> Progress]
      /\ DecisionIsRight(c)'
      /\ call'[c].step \in {"use", "connect"}
      /\ \A d \in Callers \ {c} : call'[d] = call[d]
  BY <1>1, <1>3, AnsweredIsRight DEF Probed
<1>5. cache[KeyOf(c)] = "unknown" /\ \A d \in Callers \ {c} : call[d].step # "probe"
  BY DEF ClientsInv, LockInv
<1>6. TypeOK'
  BY <1>3, <1>4 DEF ClientsInv, TypeOK, Answers
<1>7. LockInv'
  BY <1>4, <1>5, ClientsAssumption DEF LockInv
<1>8. CacheInv'
  <2> SUFFICES ASSUME NEW m \in Machines, NEW a \in Addresses, cache'[Key(m, a)] = "available"
               PROVE  a \in redfish
    BY <1>3 DEF CacheInv, Key
  <2>1. CASE Key(m, a) = KeyOf(c)
    BY <2>1, <1>3 DEF Key, KeyOf, Speaks
  <2>2. CASE Key(m, a) # KeyOf(c)
    BY <2>2, <1>3 DEF ClientsInv, CacheInv, Key, Keys
  <2> QED BY <2>1, <2>2
<1>9. DecisionInv'
  <2>1. Untouched(c)
    BY <1>3, <1>4, <1>5 DEF Untouched
  <2> QED BY <2>1, <1>4, OthersStay DEF DecisionInv
<1>10. SessionInv'
  BY <1>3, <1>4 DEF ClientsInv, SessionInv, TypeOK
<1> QED BY <1>6, <1>7, <1>8, <1>9, <1>10 DEF ClientsInv

LEMMA ConnectStep ==
  ASSUME ClientsInv, NEW c \in Callers, Connect(c)
  PROVE  ClientsInv'
<1>1. /\ call' \in [Callers -> Progress]
      /\ call'[c].step = "use" /\ call'[c].over = "ipmi"
      /\ call'[c].machine = call[c].machine /\ call'[c].bmc = call[c].bmc
      /\ \A d \in Callers \ {c} : call'[d] = call[d]
  BY StepIsProgress DEF Connect, ClientsInv, Idle
<1>2. call[c].step = "connect" /\ call[c].over = "ipmi"
  BY DEF Connect, ClientsInv, DecisionInv, DecisionIsRight
<1>3. DecisionIsRight(c)'
  BY <1>1, <1>2 DEF ClientsInv, DecisionInv, DecisionIsRight, Decided, Undecided, Connect, KeyOf, Key
<1>4. TypeOK'
  BY <1>1 DEF ClientsInv, TypeOK, Connect
<1>5. LockInv' /\ CacheInv' /\ DecisionInv'
  BY <1>1, <1>2, <1>3, QuietStep DEF Connect
<1>6. SessionInv'
  BY <1>1 DEF ClientsInv, SessionInv, Connect, TypeOK
<1> QED BY <1>4, <1>5, <1>6 DEF ClientsInv

\* A call that ends, with or without a client, leaves no session of its own.
LEMMA EndStep ==
  ASSUME ClientsInv, NEW c \in Callers, call[c].step # "probe",
         call' = [call EXCEPT ![c] = Idle],
         UNCHANGED <<bmc, redfish, cache, lock, reconfigurations>>,
         sessions' \in SUBSET sessions, c \notin sessions', mishaps' \in 0..MaxMishaps
  PROVE  ClientsInv'
<1>1. call'[c] = Idle /\ \A d \in Callers \ {c} : call'[d] = call[d]
  BY DEF ClientsInv, TypeOK
<1>2. TypeOK'
  BY DEF ClientsInv, TypeOK, Progress
<1>3. DecisionIsRight(c)'
  BY <1>1 DEF DecisionIsRight, Decided, Undecided, Idle
<1>4. LockInv' /\ CacheInv' /\ DecisionInv'
  BY <1>1, <1>3, QuietStep DEF Idle
<1>5. SessionInv'
  BY <1>1 DEF ClientsInv, SessionInv, TypeOK
<1> QED BY <1>2, <1>4, <1>5 DEF ClientsInv

LEMMA UsedStep ==
  ASSUME ClientsInv, NEW c \in Callers,
         NEW over \in {"redfish", "ipmi", "api", "manual"}, Used(c, over)
  PROVE  ClientsInv'
<1>1. /\ call' \in [Callers -> Progress]
      /\ call'[c].step = "close" /\ call'[c].over = over /\ over = call[c].over
      /\ call'[c].machine = call[c].machine /\ call'[c].bmc = call[c].bmc
      /\ \A d \in Callers \ {c} : call'[d] = call[d]
  BY StepIsProgress DEF Used, ClientsInv, Idle
<1>2. DecisionIsRight(c)'
  BY <1>1 DEF ClientsInv, DecisionInv, DecisionIsRight, Decided, Undecided, Used, KeyOf, Key
<1>3. TypeOK'
  BY <1>1 DEF ClientsInv, TypeOK, Used
<1>4. LockInv' /\ CacheInv' /\ DecisionInv'
  BY <1>1, <1>2, QuietStep DEF Used
<1>5. SessionInv'
  BY <1>1 DEF ClientsInv, SessionInv, Used, TypeOK
<1> QED BY <1>3, <1>4, <1>5 DEF ClientsInv

LEMMA ReconfigureStep ==
  ASSUME ClientsInv, NEW machine \in Machines, Reconfigure(machine)
  PROVE  ClientsInv'
<1>1. TypeOK'
  BY ClientsAssumption DEF ClientsInv, TypeOK, Reconfigure
<1> QED BY <1>1 DEF ClientsInv, Reconfigure, LockInv, CacheInv, DecisionInv, DecisionIsRight,
                    SessionInv, KeyOf, Key, Decided, Undecided

LEMMA RestartStep ==
  ASSUME ClientsInv, ProviderRestart
  PROVE  ClientsInv'
<1>1. \A c \in Callers : call'[c] = Idle /\ lock' # c
  BY ClientsAssumption DEF ProviderRestart
<1>2. TypeOK'
  BY ClientsAssumption DEF ClientsInv, TypeOK, ProviderRestart, Mishap, Progress, EmptyCache, Answers
<1>3. CacheInv'
  BY DEF CacheInv, ProviderRestart, EmptyCache, Keys, Key
<1> QED BY <1>1, <1>2, <1>3 DEF ProviderRestart, ClientsInv, LockInv, DecisionInv, DecisionIsRight,
                               SessionInv, Decided, Undecided, Idle

LEMMA CallStep ==
  ASSUME ClientsInv, NEW c \in Callers, GetClient(c) \/ TakeLock(c) \/ Proceed(c)
  PROVE  ClientsInv'
<1>1. CASE GetClient(c) \/ TakeLock(c)
  BY <1>1, GetClientStep, CacheHitStep, BeginProbeStep DEF TakeLock
<1>2. CASE ProbeSucceeds(c)
  BY <1>2, ProbedStep DEF ProbeSucceeds, ClientsInv, TypeOK
<1>3. CASE ProbeFails(c)
  BY <1>3, ProbedStep, ClientsAssumption DEF ProbeFails, ClientsInv, TypeOK, Mishap
<1>4. CASE Connect(c)
  BY <1>4, ConnectStep
<1>5. CASE ConnectFails(c)
  <2>1. c \notin sessions
    BY <1>5 DEF ConnectFails, ClientsInv, SessionInv
  <2>2. mishaps' \in 0..MaxMishaps
    BY <1>5, ClientsAssumption DEF ConnectFails, ClientsInv, TypeOK, Mishap
  <2> QED BY <1>5, <2>1, <2>2, EndStep DEF ConnectFails
<1>6. CASE UseRedfish(c) \/ UseIpmi(c) \/ UseApi(c) \/ UseManual(c)
  BY <1>6, UsedStep DEF UseRedfish, UseIpmi, UseApi, UseManual
<1>7. CASE Close(c)
  BY <1>7, EndStep DEF Close, ClientsInv, TypeOK
<1> QED BY <1>1, <1>2, <1>3, <1>4, <1>5, <1>6, <1>7 DEF Proceed

LEMMA InvStep == ClientsInv /\ [Next]_vars => ClientsInv'
<1> SUFFICES ASSUME ClientsInv, [Next]_vars PROVE ClientsInv'
  OBVIOUS
<1>1. CASE UNCHANGED vars
  BY <1>1 DEF vars, ClientsInv, TypeOK, LockInv, CacheInv, DecisionInv, DecisionIsRight,
              SessionInv, KeyOf, Key, Decided, Undecided
<1> QED BY <1>1, CallStep, ReconfigureStep, RestartStep DEF Next

-----------------------------------------------------------------------------

\* The lock, the cache, the decisions and the sessions are as ClientsInv says, always.
THEOREM ClientsInvariance == Spec => []ClientsInv
BY InitInv, InvStep, PTL DEF Spec

\* What is known to be available is, and a decision for Redfish goes by it.
THEOREM RedfishIsOnlySpokenWhereKnown == Spec => []RedfishIsSpoken
<1>1. ClientsInv => RedfishIsSpoken
  <2> SUFFICES ASSUME ClientsInv, NEW c \in Callers, Decided(c), call[c].over = "redfish", ~UseAlways
               PROVE  call[c].bmc.address \in redfish
    BY DEF RedfishIsSpoken
  <2>1. call[c].machine \in Machines /\ call[c].bmc \in BMCConfiguration
    BY DEF ClientsInv, TypeOK, Progress, Decided, Idle
  <2>2. call[c].bmc.source = "ipmi" /\ cache[KeyOf(c)] = "available"
    BY <2>1 DEF ClientsInv, DecisionInv, DecisionIsRight, BMCConfiguration
  <2>3. call[c].bmc.address \in Addresses
    BY <2>1, <2>2 DEF BMCConfiguration
  <2> QED BY <2>1, <2>2, <2>3 DEF ClientsInv, CacheInv, KeyOf
<1> QED BY <1>1, ClientsInvariance, PTL

\* Two decisions about one BMC of one machine go by the same entry of the cache.
THEOREM ProtocolIsOne == Spec => []OneProtocol
<1>1. ClientsInv => OneProtocol
  BY DEF ClientsInv, DecisionInv, DecisionIsRight, OneProtocol, KeyOf, Key
<1> QED BY <1>1, ClientsInvariance, PTL

\* No answer of a BMC is overwritten by another: who asks it holds the lock, so that its answer
\* is not known before.
THEOREM AnswersAreFinal == Spec => AnswersStand
<1> DEFINE Stand == \/ \A k \in Keys : cache[k] # "unknown" => cache'[k] = cache[k]
                    \/ cache' = EmptyCache
<1>1. ClientsInv /\ [Next]_vars => [Stand]_vars
  <2> SUFFICES ASSUME ClientsInv, Next PROVE Stand
    OBVIOUS
  <2>1. CASE \E machine \in Machines : Reconfigure(machine)
    BY <2>1 DEF Reconfigure
  <2>2. CASE ProviderRestart
    BY <2>2 DEF ProviderRestart
  <2>3. ASSUME NEW c \in Callers, ProbeSucceeds(c) \/ ProbeFails(c) PROVE Stand
    <3>1. PICK answer : cache' = [cache EXCEPT ![KeyOf(c)] = answer]
      BY <2>3 DEF ProbeSucceeds, ProbeFails, Probed
    <3>2. cache[KeyOf(c)] = "unknown"
      BY <2>3 DEF ProbeSucceeds, ProbeFails, ClientsInv, LockInv
    <3> QED BY <3>1, <3>2 DEF ClientsInv, TypeOK
  <2>4. ASSUME NEW c \in Callers,
               \/ GetClient(c) \/ TakeLock(c) \/ Connect(c) \/ ConnectFails(c) \/ Close(c)
               \/ UseRedfish(c) \/ UseIpmi(c) \/ UseApi(c) \/ UseManual(c)
        PROVE  UNCHANGED cache
    BY <2>4 DEF GetClient, TakeLock, CacheHit, BeginProbe, Connect, ConnectFails, Close, UseRedfish,
       UseIpmi, UseApi, UseManual, Used
  <2> QED BY <2>1, <2>2, <2>3, <2>4 DEF Next, Proceed
<1> QED BY <1>1, ClientsInvariance, PTL DEF Spec, AnswersStand

\* All who use a BMC speak one protocol, Redfish only where it is spoken.
THEOREM ProtocolIsAlwaysRight == Spec => []ProtocolIsRight
<1>1. RedfishIsSpoken /\ OneProtocol => ProtocolIsRight
  BY DEF ProtocolIsRight
<1> QED BY <1>1, RedfishIsOnlySpokenWhereKnown, ProtocolIsOne, PTL

\* All of it holds of the specification with fairness, which the run checks.
THEOREM FairIsSafe == FairSpec => [](ClientsInv /\ ProtocolIsRight) /\ AnswersStand
<1>1. FairSpec => Spec
  BY PTL DEF FairSpec
<1>2. Spec => [](ClientsInv /\ ProtocolIsRight)
  BY ClientsInvariance, ProtocolIsAlwaysRight, PTL
<1> QED BY <1>1, <1>2, AnswersAreFinal
================================================================================
