-------------------------------- MODULE Provider --------------------------------
(***************************************************************************)
(* The process: a start with some options, which fails at any step or gets *)
(* to the components that run together; their end; and the next start.     *)
(* With it what outlives the process, the CA among them, and one machine   *)
(* whose agent connects with what it was given when it booted.             *)
(*                                                                         *)
(* A certificate is what is left of its life, CertTTL in the beginning.  A *)
(* CA lives for decades: it expires at any time or never, and of its age   *)
(* there is no more than a clock that is behind by Lag can tell.           *)
(***************************************************************************)
EXTENDS Integers

CONSTANTS
  Nil,
  OptionSets,  \* the options the provider may be started with
  Kinds,       \* the kinds of resources kept of machines
  Holdable,    \* those a controller may hold by a finalizer
  CertTTL,     \* the life of a certificate, in ticks
  Lag          \* by how much the clock of the machine is behind

TLSConfig == "TLSConfig"
Listeners == {"http", "tls"}

Options ==
  [bootMode : {"uefi", "bios", "other"}, secureBoot : BOOLEAN, localAssets : BOOLEAN,
   assets : BOOLEAN, testMode : BOOLEAN, stateDir : {"unset", "directory", "file", "missing"},
   advertised : BOOLEAN, routableIPs : Nat, endpoint : BOOLEAN, clear : BOOLEAN,
   tls : {"off", "ca", "files"}, shortTTL : BOOLEAN, skipVerify : BOOLEAN,
   labels : BOOLEAN, extraConfig : BOOLEAN, bootFiles : BOOLEAN, proxy : BOOLEAN]

ASSUME ProviderAssumption ==
  /\ OptionSets \subseteq Options /\ OptionSets # {}
  /\ Holdable \subseteq Kinds /\ TLSConfig \notin Kinds
  /\ CertTTL \in Nat \ {0} /\ Lag \in Nat

CA == [age : 0..Lag, expired : BOOLEAN]
Certificate == [by : {"ca", "files"}, left : 0..CertTTL]
Agent == [via : Listeners, verify : BOOLEAN, trusts : {"nothing", "current", "stale", "operator"}]

ASSUME NilIsNothing == Nil \notin CA \cup Certificate \cup Agent

VARIABLES
  options, phase,     \* how the process was started, and how far it is
  signalled,          \* whether it was told to end
  failed, exit,       \* whether something failed, and how the process has ended
  toClear,            \* what ClearState has yet to destroy
  up, draining,       \* what of the components runs, and the listeners shutting down
  cancelled,          \* whether the components are told to end
  cert,               \* the certificate served
  ca, kept, held, registered,  \* in Omni: the CA, resources, those held, the ProviderStatus
  agent, tunnel,      \* what runs on the machine, and the listener it is connected to
  tried               \* whether the agent has tried to connect since the last tick

process == <<options, phase, signalled, failed, exit, toClear, up, draining, cancelled>>
omni == <<kept, held, registered>>
machine == <<agent, tunnel, tried>>
vars == <<options, phase, signalled, failed, exit, toClear, up, draining, cancelled, cert,
          ca, kept, held, registered, agent, tunnel, tried>>

TypeOK ==
  /\ options \in OptionSets
  /\ phase \in {"down", "options", "list", "clear", "register", "tls", "build", "running"}
  /\ signalled \in BOOLEAN /\ failed \in BOOLEAN /\ cancelled \in BOOLEAN /\ tried \in BOOLEAN
  /\ exit \in {"none", "ok", "error", "crash"}
  /\ toClear \subseteq Kinds \cup {TLSConfig}
  /\ up \subseteq {"runtime", "tftp", "proxy"} \cup Listeners /\ draining \subseteq Listeners
  /\ cert \in Certificate \cup {Nil} /\ ca \in CA \cup {Nil}
  /\ kept \subseteq Kinds /\ held \subseteq Holdable /\ registered \in BOOLEAN
  /\ agent \in Agent \cup {Nil} /\ tunnel \in Listeners \cup {"none"}

Init ==
  /\ options \in OptionSets /\ phase = "down"
  /\ signalled = FALSE /\ failed = FALSE /\ cancelled = FALSE /\ exit = "none"
  /\ toClear = {} /\ up = {} /\ draining = {} /\ cert = Nil
  /\ ca = Nil /\ kept = {} /\ held = {} /\ registered = FALSE
  /\ agent = Nil /\ tunnel = "none" /\ tried = FALSE

-----------------------------------------------------------------------------
(* The options. *)

ValidOptions(o) ==
  /\ o.secureBoot => o.bootMode = "uefi" /\ ~o.localAssets
  /\ o.testMode => o.stateDir # "unset"
  /\ o.stateDir \in {"unset", "directory"}

HasAdvertiseAddress(o) == o.advertised \/ o.routableIPs = 1

\* What is looked at before anything is done.
Accepted(o) ==
  /\ o.bootMode \in {"uefi", "bios"}
  /\ ValidOptions(o)
  /\ o.localAssets => o.assets
  /\ HasAdvertiseAddress(o)
  /\ o.endpoint

\* What is looked at only when it is needed.
Buildable(o) == o.extraConfig /\ o.labels /\ o.bootFiles

Parts(o) ==
  {"runtime", "http", "tftp"} \cup (IF o.tls = "off" THEN {} ELSE {"tls"})
    \cup (IF o.proxy THEN {"proxy"} ELSE {})

-----------------------------------------------------------------------------
(* A start. *)

\* The process is gone, and with it all that was in memory.
Ended(how) ==
  /\ phase' = "down" /\ exit' = how
  /\ toClear' = {} /\ up' = {} /\ draining' = {} /\ cancelled' = FALSE
  /\ cert' = Nil /\ tunnel' = "none"

\* One more step of the start.
StartingAt(here) == phase = here /\ UNCHANGED <<options, signalled, tried>>

GoesOn(next) ==
  /\ phase' = next
  /\ UNCHANGED <<exit, toClear, up, draining, cancelled, cert, tunnel>>

Start(o) ==
  /\ phase = "down"
  /\ options' = o /\ phase' = "options"
  /\ signalled' = FALSE /\ failed' = FALSE /\ exit' = "none"
  /\ UNCHANGED <<toClear, up, draining, cancelled, cert, ca, omni, machine>>

\* Mutant: the state is cleared first.
ValidateCleared ==
  /\ StartingAt("options")
  /\ IF options.clear THEN GoesOn("list")
     ELSE IF Accepted(options) THEN GoesOn("register") ELSE Ended("error")
  /\ UNCHANGED <<failed, ca, omni, agent>>

Validate ==
  /\ StartingAt("options")
  /\ \/ /\ Accepted(options)
        /\ GoesOn(IF options.clear THEN "list" ELSE "register")
     \/ /\ ~Accepted(options)
        /\ Ended("error")
  /\ UNCHANGED <<failed, ca, omni, agent>>

\* ClearState, in a debug build: everything is listed first.
ListState ==
  /\ StartingAt("list")
  /\ phase' = "clear"
  /\ toClear' = kept \cup (IF ca = Nil THEN {} ELSE {TLSConfig})
  /\ UNCHANGED <<failed, exit, up, draining, cancelled, cert, tunnel, ca, omni, agent>>

\* The machine goes on trusting what it was given.
Distrusted(a) ==
  IF a # Nil /\ a.trusts = "current" THEN [a EXCEPT !.trusts = "stale"] ELSE a

\* Mutant: an error does not count.
DestroyAnyway(k) ==
  /\ StartingAt("clear") /\ k \in toClear
  /\ toClear' = toClear \ {k}
  /\ \/ k \notin held /\ kept' = kept \ {k}
     \/ UNCHANGED kept
  /\ UNCHANGED <<ca, agent, failed, phase, exit, up, draining, cancelled, cert, tunnel, held, registered>>

\* What is held by a finalizer is not destroyed, nor is anything if the call fails; the
\* others are all the same.
Destroy(k) ==
  /\ StartingAt("clear") /\ k \in toClear
  /\ toClear' = toClear \ {k}
  /\ \/ /\ k \notin held
        /\ kept' = kept \ {k}
        /\ IF k = TLSConfig THEN ca' = Nil /\ agent' = Distrusted(agent) ELSE UNCHANGED <<ca, agent>>
        /\ UNCHANGED failed
     \/ /\ failed' = TRUE
        /\ UNCHANGED <<kept, ca, agent>>
  /\ UNCHANGED <<phase, exit, up, draining, cancelled, cert, tunnel, held, registered>>

StateCleared ==
  /\ StartingAt("clear") /\ toClear = {}
  /\ IF failed THEN Ended("error") ELSE GoesOn("register")
  /\ UNCHANGED <<failed, ca, omni, agent>>

EnsureProviderStatus ==
  /\ StartingAt("register")
  /\ GoesOn(IF options.tls = "off" THEN "build" ELSE "tls")
  /\ registered' = TRUE
  /\ UNCHANGED <<failed, ca, kept, held, agent>>

\* Loaded once, expired or not.
LoadCerts ==
  /\ StartingAt("tls") /\ options.tls = "files"
  /\ phase' = "build"
  /\ \E left \in {0, CertTTL} : cert' = [by |-> "files", left |-> left]
  /\ UNCHANGED <<failed, exit, toClear, up, draining, cancelled, tunnel, ca, omni, agent>>

\* Mutant: a CA is made at every start.
NeedsCAAlways == TRUE

NeedsCA == ca = Nil \/ ca.expired

\* The CA is stored before anything is made of it, and before certTTL is looked at.
InitCA ==
  /\ StartingAt("tls") /\ options.tls = "ca"
  /\ ca' = IF NeedsCA THEN [age |-> 0, expired |-> FALSE] ELSE ca
  /\ agent' = IF NeedsCA THEN Distrusted(agent) ELSE agent
  /\ IF options.shortTTL THEN Ended("error") ELSE GoesOn("build")
  /\ UNCHANGED <<failed, omni>>

Build ==
  /\ StartingAt("build")
  /\ \/ /\ Buildable(options)
        /\ phase' = "running"
        /\ up' = Parts(options)
        /\ cancelled' = signalled
        /\ UNCHANGED <<exit, toClear, draining, cert, tunnel>>
     \/ /\ ~Buildable(options)
        /\ Ended("error")
  /\ UNCHANGED <<failed, ca, omni, agent>>

\* A call to Omni fails, a file is not there, a CA does not decode.
StartFails ==
  /\ \E here \in {"list", "register", "tls", "build"} : StartingAt(here)
  /\ Ended("error")
  /\ UNCHANGED <<failed, ca, omni, agent>>

StartUp ==
  \/ Validate \/ ListState \/ (\E k \in Kinds \cup {TLSConfig} : Destroy(k)) \/ StateCleared
  \/ EnsureProviderStatus \/ LoadCerts \/ InitCA \/ Build \/ StartFails

-----------------------------------------------------------------------------
(* The components, and their end. *)

surroundings == <<options, exit, toClear, cert, ca, omni, machine>>

\* SIGTERM or an interrupt.
Signal ==
  /\ phase # "down" /\ ~signalled
  /\ signalled' = TRUE
  /\ cancelled' = (phase = "running")
  /\ UNCHANGED <<phase, failed, up, draining, surroundings>>

\* A component that fails has all others told to end.
ComponentFails(c) ==
  /\ c \in up \ Listeners
  /\ up' = up \ {c}
  /\ failed' = TRUE /\ cancelled' = TRUE
  /\ UNCHANGED <<phase, signalled, draining, surroundings>>

ComponentStops(c) ==
  /\ cancelled /\ c \in up \ Listeners
  /\ up' = up \ {c}
  /\ UNCHANGED <<phase, signalled, failed, draining, cancelled, surroundings>>

\* Mutant: a listener that fails ends by itself.
ServeFailsAlone(l) ==
  /\ l \in (up \cap Listeners) \ draining
  /\ draining' = draining \cup {l}
  /\ failed' = TRUE
  /\ UNCHANGED <<phase, signalled, up, cancelled, surroundings>>

\* A listener that fails has the other one shut down.
ServeFails(l) ==
  /\ l \in (up \cap Listeners) \ draining
  /\ draining' = up \cap Listeners
  /\ failed' = TRUE
  /\ UNCHANGED <<phase, signalled, up, cancelled, surroundings>>

ShutdownOnCancel ==
  /\ cancelled /\ draining # up \cap Listeners
  /\ draining' = up \cap Listeners
  /\ UNCHANGED <<phase, signalled, failed, up, cancelled, surroundings>>

\* The server has ended when both listeners have.
ListenerGone(l) ==
  /\ up' = up \ {l} /\ draining' = draining \ {l}
  /\ cancelled' = (cancelled \/ up' \cap Listeners = {})

Drained(l) ==
  /\ l \in draining /\ tunnel # l
  /\ ListenerGone(l)
  /\ UNCHANGED <<phase, signalled, failed, surroundings>>

\* Five seconds are over, with a tunnel or a download open.
ShutdownTimesOut(l) ==
  /\ l \in draining
  /\ ListenerGone(l)
  /\ failed' = TRUE
  /\ UNCHANGED <<phase, signalled, surroundings>>

Exit ==
  /\ phase = "running" /\ up = {}
  /\ Ended(IF failed THEN "error" ELSE "ok")
  /\ UNCHANGED <<options, signalled, failed, ca, omni, agent, tried>>

Crash ==
  /\ phase # "down"
  /\ Ended("crash")
  /\ UNCHANGED <<options, signalled, failed, ca, omni, agent, tried>>

-----------------------------------------------------------------------------
(* What goes on while it runs. *)

\* The controllers create, destroy and hold what they keep of machines.
RunControllers ==
  /\ "runtime" \in up
  /\ kept' \in SUBSET Kinds /\ held' \in SUBSET (kept' \cap Holdable)
  /\ UNCHANGED <<process, cert, ca, registered, machine>>

Serving(l) == l \in up \ draining

\* The CA goes into the config of the machine, next to what Omni has there.
Trusted(tls) ==
  CASE tls = "off" -> "nothing"
    [] tls = "ca" -> "current"
    [] tls = "files" -> "operator"

\* The agent is given the address to connect to, and the CA to trust.
BootAgent ==
  /\ Serving("http") /\ tunnel = "none"
  /\ agent' = [via |-> IF options.tls = "off" THEN "http" ELSE "tls",
               verify |-> ~options.skipVerify,
               trusts |-> Trusted(options.tls)]
  /\ UNCHANGED <<process, cert, ca, omni, tunnel, tried>>

Reset ==
  /\ agent # Nil
  /\ agent' = Nil /\ tunnel' = "none"
  /\ UNCHANGED <<process, cert, ca, omni, tried>>

TunnelEnds ==
  /\ tunnel # "none"
  /\ tunnel' = "none"
  /\ UNCHANGED <<process, cert, ca, omni, agent, tried>>

Connect ==
  /\ agent # Nil /\ agent.via = "http" /\ tunnel = "none" /\ Serving("http")
  /\ tunnel' = "http"
  /\ UNCHANGED <<process, cert, ca, omni, agent, tried>>

\* Mutant: every handshake gets a certificate of its own.
ShouldRenewAlways(c) == TRUE

ShouldRenew(c) == c = Nil \/ c.left * 10 < CertTTL

\* A certificate is valid from the moment it is made, by the clock of the provider.
GetCertificate ==
  IF options.tls = "ca" /\ ShouldRenew(cert) THEN [by |-> "ca", left |-> CertTTL] ELSE cert

Accepts(a, c) ==
  \/ ~a.verify
  \/ c.by = "files" /\ a.trusts = "operator" /\ c.left > 0
  \/ c.by = "ca" /\ a.trusts = "current" /\ c.left > 0 /\ CertTTL - c.left >= Lag
       /\ ~ca.expired /\ ca.age >= Lag

WantsTLS == agent # Nil /\ agent.via = "tls" /\ tunnel = "none" /\ Serving("tls")

Handshake ==
  /\ WantsTLS
  /\ cert' = GetCertificate
  /\ tunnel' = IF Accepts(agent, cert') THEN "tls" ELSE "none"
  /\ tried' = TRUE
  /\ UNCHANGED <<process, ca, omni, agent>>

Tick ==
  /\ cert' = IF cert # Nil /\ cert.by = "ca" /\ cert.left > 0
             THEN [cert EXCEPT !.left = @ - 1] ELSE cert
  /\ ca' = IF ca # Nil /\ ca.age < Lag THEN [ca EXCEPT !.age = @ + 1] ELSE ca
  /\ tried' = FALSE
  /\ UNCHANGED <<process, omni, agent, tunnel>>

Expire ==
  /\ \/ ca # Nil /\ ca' = [ca EXCEPT !.expired = TRUE] /\ UNCHANGED cert
     \/ cert # Nil /\ cert.by = "files" /\ cert' = [cert EXCEPT !.left = 0] /\ UNCHANGED ca
  /\ UNCHANGED <<process, omni, machine>>

-----------------------------------------------------------------------------

Ending ==
  \/ \E c \in up : ComponentStops(c)
  \/ ShutdownOnCancel
  \/ \E l \in Listeners : Drained(l) \/ ShutdownTimesOut(l)
  \/ Exit

Mishaps == \/ Crash \/ TunnelEnds \/ Reset \/ Expire
           \/ \E c \in up : ComponentFails(c) \/ ServeFails(c)

Actions ==
  \/ \E o \in OptionSets : Start(o)
  \/ StartUp \/ Signal \/ Ending \/ Mishaps
  \/ RunControllers \/ BootAgent \/ Connect \/ Handshake

Next == Actions \/ Tick

Spec == Init /\ [][Next]_vars

\* An agent tries again within seconds or minutes, a tick is a tenth of a day or so.
TimelyTick == (WantsTLS => tried) /\ Tick

\* A signal ends every call a start is waiting for, the timeouts end all that a shutdown waits for, and an
\* agent goes on trying.
Fairness ==
  /\ WF_vars(signalled /\ StartUp) /\ WF_vars(Ending)
  /\ WF_vars(Connect) /\ WF_vars(Handshake) /\ WF_vars(TimelyTick)

FairSpec == Init /\ [][Actions \/ TimelyTick]_vars /\ Fairness

-----------------------------------------------------------------------------
(* Properties. *)

\* Options that cannot work get the process no further than to look at them.
RefusedEarly == ~Accepted(options) => phase \in {"down", "options"}

\* A start that clears the state gets on only if nothing is left of it.
ClearedWhole ==
  /\ phase \in {"list", "clear"} => options.clear
  /\ options.clear =>
    /\ phase = "clear" /\ ~failed => kept \subseteq toClear /\ (ca # Nil => TLSConfig \in toClear)
    /\ phase \in {"register", "tls", "build"} => kept = {}
    /\ phase = "register" => ca = Nil

\* What is served is signed by a CA that a later start will find, and so is what is trusted.
SignerIsStored ==
  /\ agent # Nil /\ agent.trusts = "current" => ca # Nil
  /\ cert # Nil => phase \in {"build", "running"} /\ cert.by = options.tls
  /\ phase \in {"build", "running"} /\ options.tls = "ca" => ca # Nil
  /\ phase \in {"build", "running"} /\ options.tls = "files" => cert # Nil

\* Nothing of the process outlives it, and it says it ended well only if it was told to end
\* and nothing failed.
EndsWhole ==
  /\ phase # "running" => up = {} /\ draining = {} /\ ~cancelled /\ tunnel = "none"
  /\ up \subseteq Parts(options) /\ draining \subseteq up
  /\ phase = "running" /\ ~cancelled => "runtime" \in up
  /\ cancelled \/ draining # {} => signalled \/ failed
  /\ phase # "down" => exit = "none"
  /\ exit = "ok" => signalled /\ ~failed

ProcessInv == TypeOK /\ RefusedEarly /\ ClearedWhole /\ SignerIsStored /\ EndsWhole

\* The process never runs on in part: all of it runs and nothing has happened, or what is
\* left has been told to end, or all the listeners left are being shut down, whose end is told
\* to the rest (provider.go, runComponents; server.go, Run).
WholeOrEnding ==
  phase = "running" =>
    \/ up = Parts(options) /\ draining = {} /\ ~signalled /\ ~failed
    \/ cancelled
    \/ draining # {} /\ draining = up \cap Listeners

ProviderInv == ProcessInv /\ WholeOrEnding

\* A start that is refused for its options leaves in Omni what there was.
RefusedUntouched ==
  [][phase # "down" /\ ~Accepted(options) => UNCHANGED omni /\ (ca' = Nil) = (ca = Nil)]_vars

\* The CA that a running machine trusts is the provider's through all restarts, until it expires
\* or the state is cleared.
TrustSurvives ==
  [][agent # Nil /\ agent' # Nil /\ agent.trusts = "current" /\ agent'.trusts = "stale"
       => options.clear \/ ca.expired]_vars

\* A process that is told to end, or in which something has failed, ends.
EndsTogether == signalled \/ (phase = "running" /\ failed) ~> phase = "down"

\* What the agent was given still fits.
Welcome ==
  /\ phase = "running" /\ ~cancelled /\ draining = {} /\ agent # Nil
  /\ \/ agent.via = "http"
     \/ options.tls # "off" /\ ~agent.verify
     \/ options.tls = "files" /\ agent.trusts = "operator" /\ cert.left > 0
     \/ options.tls = "ca" /\ agent.trusts = "current" /\ ~ca.expired

\* An agent whose clock is behind gets through, whatever renewals and restarts there were.
AgentGetsThrough == Welcome ~> tunnel # "none" \/ ~Welcome
=============================================================================
