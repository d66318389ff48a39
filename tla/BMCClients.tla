------------------------------ MODULE BMCClients ------------------------------
(***************************************************************************)
(* The clients by which the controllers reach the BMCs of all machines: the *)
(* ClientFactory, its cache of which BMCs speak Redfish, and the lock about *)
(* it.                                                                     *)
(*                                                                         *)
(* A caller (a reconcile, or the poll) reads the configuration of a         *)
(* machine, gets a client for it, makes its calls and closes it.  Where     *)
(* Redfish is to be used if available, it is probed first, once per machine *)
(* and address, under a lock all machines share.  Which calls are made, and *)
(* what they do to the machine, is in Power.                               *)
(***************************************************************************)
EXTENDS Integers

CONSTANTS
  Nil,                  \* nobody
  Machines, Addresses,
  Callers,              \* what may want a client at one time
  UseAlways,            \* the --redfish-use-always flag
  UseWhenAvailable,     \* the --redfish-use-when-available flag
  MaxReconfigurations,  \* bound: changes of BMC configurations
  MaxMishaps            \* bound: timeouts, broken connections, restarts

ASSUME ClientsAssumption ==
  /\ Nil \notin Callers
  /\ {UseAlways, UseWhenAvailable} \subseteq BOOLEAN
  /\ {MaxReconfigurations, MaxMishaps} \subseteq Nat

VARIABLES
  bmc,              \* the BMCConfiguration of each machine
  redfish,          \* the addresses where Redfish is spoken
  cache,            \* redfishAvailabilityCache
  lock,             \* who holds redfishAvailabilityMu, or Nil
  call,             \* what each caller is doing
  sessions,         \* the callers that have an IPMI session open
  reconfigurations, mishaps

vars == <<bmc, redfish, cache, lock, call, sessions, reconfigurations, mishaps>>

\* The one source of a configuration that is used.  A login is right or not.
BMCConfiguration ==
  [source: {"manual", "api"}] \cup [source: {"ipmi"}, address: Addresses, loginRight: BOOLEAN]

Answers == {"unknown", "available", "unavailable"}
Keys == Machines \X Addresses
EmptyCache == [k \in Keys |-> "unknown"]

\* Mutant: the answer is that of the machine, wherever its BMC is.
KeyOfMachine(machine, address) == <<machine, CHOOSE a \in Addresses : TRUE>>

Key(machine, address) == <<machine, address>>

Idle == [step |-> "idle"]

Progress ==
  {Idle} \cup [step: {"wait", "probe", "connect", "use", "close"}, machine: Machines,
               bmc: BMCConfiguration, over: {"undecided", "manual", "api", "redfish", "ipmi"}]

TypeOK ==
  /\ bmc \in [Machines -> BMCConfiguration]
  /\ redfish \in SUBSET Addresses
  /\ cache \in [Keys -> Answers]
  /\ lock \in Callers \cup {Nil}
  /\ call \in [Callers -> Progress]
  /\ sessions \in SUBSET Callers
  /\ reconfigurations \in 0..MaxReconfigurations
  /\ mishaps \in 0..MaxMishaps

Init ==
  /\ bmc \in [Machines -> BMCConfiguration]
  /\ redfish \in SUBSET Addresses
  /\ cache = EmptyCache
  /\ lock = Nil
  /\ call = [c \in Callers |-> Idle]
  /\ sessions = {}
  /\ reconfigurations = 0 /\ mishaps = 0

Mishap == mishaps < MaxMishaps /\ mishaps' = mishaps + 1

\* The key a call looks up, and whether Redfish would answer it.
KeyOf(c) == Key(call[c].machine, call[c].bmc.address)
Speaks(config) == config.address \in redfish /\ config.loginRight

Step(c, step, over) == call' = [call EXCEPT ![c].step = step, ![c].over = over]

-----------------------------------------------------------------------------
(* Getting a client. *)

\* A configuration that is not for IPMI needs no choice, nor does one whose flag decides.
Start(machine, config, step, over) ==
  [step |-> step, machine |-> machine, bmc |-> config, over |-> over]

Started(machine, config) ==
  IF config.source # "ipmi" THEN Start(machine, config, "use", config.source)
  ELSE IF UseAlways THEN Start(machine, config, "use", "redfish")
  ELSE IF UseWhenAvailable THEN Start(machine, config, "wait", "undecided")
  ELSE Start(machine, config, "connect", "ipmi")

GetClient(c) ==
  /\ call[c] = Idle
  /\ \E machine \in Machines : call' = [call EXCEPT ![c] = Started(machine, bmc[machine])]
  /\ UNCHANGED <<bmc, redfish, cache, lock, sessions, reconfigurations, mishaps>>

Answered(c, answer) ==
  IF answer = "available" THEN Step(c, "use", "redfish") ELSE Step(c, "connect", "ipmi")

\* An answer that is known is taken, and the lock let go at once.
CacheHit(c) ==
  /\ call[c].step = "wait" /\ lock = Nil
  /\ cache[KeyOf(c)] # "unknown"
  /\ Answered(c, cache[KeyOf(c)])
  /\ UNCHANGED <<bmc, redfish, cache, lock, sessions, reconfigurations, mishaps>>

\* Mutant: the lock is not held while the BMC is asked.
BeginProbeUnlocked(c) ==
  /\ call[c].step = "wait" /\ lock = Nil
  /\ cache[KeyOf(c)] = "unknown"
  /\ Step(c, "probe", "undecided")
  /\ UNCHANGED <<bmc, redfish, cache, lock, sessions, reconfigurations, mishaps>>

BeginProbe(c) ==
  /\ call[c].step = "wait" /\ lock = Nil
  /\ cache[KeyOf(c)] = "unknown"
  /\ lock' = c
  /\ Step(c, "probe", "undecided")
  /\ UNCHANGED <<bmc, redfish, cache, sessions, reconfigurations, mishaps>>

Probed(c, answer) ==
  /\ cache' = [cache EXCEPT ![KeyOf(c)] = answer]
  /\ Answered(c, answer)
  /\ UNCHANGED <<bmc, redfish, sessions, reconfigurations>>

ProbeSucceeds(c) ==
  /\ call[c].step = "probe"
  /\ Speaks(call[c].bmc)
  /\ Probed(c, "available")
  /\ lock' = Nil
  /\ UNCHANGED mishaps

\* Mutant: the lock is not released when the probe fails.
ProbeFailsHolding(c) ==
  /\ call[c].step = "probe"
  /\ IF Speaks(call[c].bmc) THEN Mishap ELSE UNCHANGED mishaps
  /\ Probed(c, "unavailable")
  /\ UNCHANGED lock

\* A probe that times out or is refused counts as an answer.
ProbeFails(c) ==
  /\ call[c].step = "probe"
  /\ IF Speaks(call[c].bmc) THEN Mishap ELSE UNCHANGED mishaps
  /\ Probed(c, "unavailable")
  /\ lock' = Nil

Connect(c) ==
  /\ call[c].step = "connect"
  /\ call[c].bmc.loginRight
  /\ Step(c, "use", "ipmi")
  /\ sessions' = sessions \cup {c}
  /\ UNCHANGED <<bmc, redfish, cache, lock, reconfigurations, mishaps>>

\* There is no client then, and the caller fails.
ConnectFails(c) ==
  /\ call[c].step = "connect"
  /\ IF call[c].bmc.loginRight THEN Mishap ELSE UNCHANGED mishaps
  /\ call' = [call EXCEPT ![c] = Idle]
  /\ UNCHANGED <<bmc, redfish, cache, lock, sessions, reconfigurations>>

-----------------------------------------------------------------------------
(* Using it. *)

\* The calls are made, or the first to fail ends them.
Used(c, over) ==
  /\ call[c].step = "use" /\ call[c].over = over
  /\ Step(c, "close", over)
  /\ UNCHANGED <<bmc, redfish, cache, lock, sessions, reconfigurations, mishaps>>

UseRedfish(c) == Used(c, "redfish")
UseIpmi(c) == Used(c, "ipmi")
UseApi(c) == Used(c, "api")

\* A caller that asks for the capabilities of this client does not call it.
UseManual(c) == Used(c, "manual")

\* Mutant: the session is left to the BMC to end.
CloseWithoutSession(c) ==
  /\ call[c].step = "close"
  /\ call' = [call EXCEPT ![c] = Idle]
  /\ UNCHANGED <<bmc, redfish, cache, lock, sessions, reconfigurations, mishaps>>

\* Only IPMI has something to close.
Close(c) ==
  /\ call[c].step = "close"
  /\ call' = [call EXCEPT ![c] = Idle]
  /\ sessions' = sessions \ {c}
  /\ UNCHANGED <<bmc, redfish, cache, lock, reconfigurations, mishaps>>

-----------------------------------------------------------------------------
(* What goes on meanwhile. *)

\* The user or the agent gives another address or login, or another way altogether.
Reconfigure(machine) ==
  /\ reconfigurations < MaxReconfigurations
  /\ reconfigurations' = reconfigurations + 1
  /\ \E config \in BMCConfiguration \ {bmc[machine]} :
       bmc' = [bmc EXCEPT ![machine] = config]
  /\ UNCHANGED <<redfish, cache, lock, call, sessions, mishaps>>

\* The BMCs let go of the sessions of the old process.
ProviderRestart ==
  /\ Mishap
  /\ cache' = EmptyCache
  /\ lock' = Nil
  /\ call' = [c \in Callers |-> Idle]
  /\ sessions' = {}
  /\ UNCHANGED <<bmc, redfish, reconfigurations>>

-----------------------------------------------------------------------------

TakeLock(c) == CacheHit(c) \/ BeginProbe(c)

Proceed(c) == ProbeSucceeds(c) \/ ProbeFails(c) \/ Connect(c) \/ ConnectFails(c)
              \/ UseRedfish(c) \/ UseIpmi(c) \/ UseApi(c) \/ UseManual(c) \/ Close(c)

Next ==
  \/ \E c \in Callers : GetClient(c) \/ TakeLock(c) \/ Proceed(c)
  \/ \E machine \in Machines : Reconfigure(machine)
  \/ ProviderRestart

Spec == Init /\ [][Next]_vars

\* Every call over the network has a timeout (10 s, 5 s, 30 s), and a sync.Mutex is handed to
\* whoever has waited for too long.
FairSpec == Spec /\ \A c \in Callers : SF_vars(TakeLock(c)) /\ WF_vars(Proceed(c))

-----------------------------------------------------------------------------
(* Properties. *)

Undecided(c) == call[c].step \in {"wait", "probe"}
Decided(c) == call[c].step \in {"connect", "use", "close"}

\* Whoever asks a BMC whether it speaks Redfish holds the lock, and nobody else; so what it asks
\* is not known before it has answered.
LockInv ==
  \A c \in Callers :
    /\ call[c].step = "probe" <=> lock = c
    /\ call[c].step = "probe" => cache[KeyOf(c)] = "unknown"

\* A BMC is known to speak Redfish only where it does (bmc.go, redfishAvailable: "a stale
\* result is not reused against the new endpoint").
CacheInv == \A m \in Machines, a \in Addresses : cache[Key(m, a)] = "available" => a \in redfish

\* How a call reaches a BMC is what is known of that machine at that address.
DecisionIsRight(c) ==
  /\ Undecided(c) => call[c].bmc.source = "ipmi" /\ ~UseAlways /\ UseWhenAvailable
  /\ Decided(c) =>
       IF call[c].bmc.source # "ipmi" THEN call[c].over = call[c].bmc.source
       ELSE IF UseAlways THEN call[c].over = "redfish"
       ELSE IF UseWhenAvailable
            THEN \/ call[c].over = "redfish" /\ cache[KeyOf(c)] = "available"
                 \/ call[c].over = "ipmi" /\ cache[KeyOf(c)] = "unavailable"
            ELSE call[c].over = "ipmi"
  /\ call[c].step = "connect" => call[c].over = "ipmi"

DecisionInv == \A c \in Callers : DecisionIsRight(c)

\* Sessions are held by calls over IPMI, and end with them (ipmi.go, NewClient: "It needs to be
\* closed after use to release resources").
SessionInv ==
  \A c \in sessions : call[c].step \in {"use", "close"} /\ call[c].over = "ipmi"

ClientsInv == TypeOK /\ LockInv /\ CacheInv /\ DecisionInv /\ SessionInv

\* Redfish is not spoken to a BMC that does not speak it, however its machine has been
\* reconfigured since it was asked (bmc.go, redfishAvailable).
RedfishIsSpoken ==
  \A c \in Callers :
    Decided(c) /\ call[c].over = "redfish" => UseAlways \/ call[c].bmc.address \in redfish

\* All who use one BMC of a machine at one time do so over the same protocol, so that what
\* one sets, as a boot device for the next boot, is what the other one starts (bmc.go,
\* GetClient).
OneProtocol ==
  \A c, d \in Callers :
    /\ Decided(c) /\ Decided(d)
    /\ call[c].machine = call[d].machine
    /\ call[c].bmc.source = "ipmi" /\ call[d].bmc.source = "ipmi"
    /\ call[c].bmc.address = call[d].bmc.address
    => call[c].over = call[d].over

\* Whoever uses a BMC speaks to it what it understands, and what all the others speak.
ProtocolIsRight == RedfishIsSpoken /\ OneProtocol

\* What was found out of a BMC stands for the life of the process: two callers never ask the
\* same one at a time and overwrite each other's answer, which may be a timeout (bmc.go,
\* redfishAvailable).
AnswersStand ==
  [][\/ \A k \in Keys : cache[k] # "unknown" => cache'[k] = cache[k]
     \/ cache' = EmptyCache]_vars

\* Every call ends, whatever BMC does not answer, and although the lock is for all of them
\* (bmc.go, redfishAvailable; redfish.go, withClient).
CallsEnd == \A c \in Callers : call[c] # Idle ~> call[c] = Idle
=============================================================================
