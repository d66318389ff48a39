------------------------------- MODULE BMCSetup -------------------------------
(***************************************************************************)
(* How the provider comes to know the BMC of one machine: the              *)
(* BMCConfigurationController, the user who may give a configuration in    *)
(* Omni, the agent that reports one and sets a password on it, and the     *)
(* choice of a client by those who use the result.                         *)
(*                                                                         *)
(* The controller runs when an input of it has changed, or its last run    *)
(* failed.  It reads its inputs, calls the agent twice, and records what   *)
(* came of it; anything may happen in between.                             *)
(*                                                                         *)
(* A login is known by who gave it and by a number: of the user's          *)
(* configuration, or of the generated password.                            *)
(***************************************************************************)
EXTENDS Integers

CONSTANTS
  Nil,                      \* what is not there
  Unset,                    \* what is in a BMCConfig without any configuration
  AllowMachinesWithoutBMC,  \* the --allow-machines-without-bmc flag
  Passwords,                \* passwords that may be generated
  MaxUserConfigs,           \* bound: configurations the user gives
  MaxMishaps                \* bound: failed calls, lost answers, restarts

ASSUME BMCAssumption ==
  /\ Nil \notin Int \cup Passwords \cup {Unset}
  /\ AllowMachinesWithoutBMC \in BOOLEAN
  /\ MaxUserConfigs \in Nat /\ MaxMishaps \in Nat

VARIABLES
  im,          \* the infra.Machine: absent, left alone, or managed
  accessible,  \* MachineStatus.AgentAccessible, taken to be true to the facts
  user,        \* what is in the infra.BMCConfig, or Nil
  configs,     \* how many the user has given
  emptied,     \* history: whether one of them had a configuration that names no interface
  cfg,         \* the BMCConfiguration, or Nil
  rec,         \* the reconcile
  pending,     \* whether there is a reason for another
  hardware,    \* what the agent finds on the machine
  password,    \* the password set on the BMC for the provider, or Nil
  mishaps

omniVars == <<im, user, configs, emptied>>
machineVars == <<accessible, hardware>>
vars == <<im, accessible, user, configs, emptied, cfg, rec, pending, hardware, password, mishaps>>

Interfaces == {"ipmi", "api"}

\* The user gives logins by interface.  He may give none: that is a configuration all the same.
UserConfigs == [Interfaces -> (1..MaxUserConfigs) \cup {Nil}]
Empty == [i \in Interfaces |-> Nil]

UserLogin(n) == [source |-> "user", id |-> n]
AgentLogin(p) == [source |-> "agent", id |-> p]
ForAPI == AgentLogin(Nil)   \* no password goes with it

Logins == [source: {"user"}, id: 1..MaxUserConfigs] \cup [source: {"agent"}, id: Passwords \cup {Nil}]

BMCConfiguration ==
  [ipmi: Logins \cup {Nil}, api: Logins \cup {Nil}, manual: BOOLEAN,
   manuallyConfigured: BOOLEAN]

NewConfiguration == [ipmi |-> Nil, api |-> Nil, manual |-> FALSE, manuallyConfigured |-> FALSE]

\* The errors of the agent: whether it is its own, and whether it is about IPMI.
Errors == [internal: BOOLEAN, mentionsIPMI: BOOLEAN]

ASSUME NilIsNothing ==
  /\ Nil \notin UserConfigs \cup Logins \cup BMCConfiguration \cup Errors
  /\ Unset \notin UserConfigs

Idle == [step |-> "idle"]

Progress ==
  {Idle} \cup [step: {"read"}, im: {"managed", "unmanaged"}, accessible: BOOLEAN, user: UserConfigs \cup {Nil, Unset}]
         \cup [step: {"get"}]
         \cup [step: {"set"}, interfaces: SUBSET Interfaces]
         \cup [step: {"commit"}, cfg: BMCConfiguration]

TypeOK ==
  /\ im \in {"absent", "unmanaged", "managed"}
  /\ accessible \in BOOLEAN
  /\ user \in UserConfigs \cup {Nil, Unset}
  /\ configs \in 0..MaxUserConfigs
  /\ emptied \in BOOLEAN
  /\ cfg \in BMCConfiguration \cup {Nil}
  /\ rec \in Progress
  /\ pending \in BOOLEAN
  /\ hardware \in SUBSET Interfaces
  /\ password \in Passwords \cup {Nil}
  /\ mishaps \in 0..MaxMishaps

Init ==
  /\ im = "absent"
  /\ accessible = FALSE
  /\ user = Nil /\ configs = 0 /\ emptied = FALSE
  /\ cfg = Nil
  /\ rec = Idle /\ pending = FALSE
  /\ hardware \in SUBSET Interfaces
  /\ password = Nil
  /\ mishaps = 0

Wake == pending' = TRUE

Mishap == mishaps < MaxMishaps /\ mishaps' = mishaps + 1

-----------------------------------------------------------------------------
(* Omni, the user and the machine. *)

\* The machine appears, is accepted, cordoned or no longer so.
Register ==
  /\ im' \in {"unmanaged", "managed"} \ {im}
  /\ Wake
  /\ UNCHANGED <<user, configs, emptied, cfg, rec, password, mishaps, machineVars>>

UserConfigures ==
  /\ configs < MaxUserConfigs
  /\ configs' = configs + 1
  /\ \/ user' = Unset
     \/ \E given \in SUBSET Interfaces :
          user' = [i \in Interfaces |-> IF i \in given THEN configs' ELSE Nil]
  /\ emptied' = (emptied \/ user' = Empty)
  /\ Wake
  /\ UNCHANGED <<im, cfg, rec, password, mishaps, machineVars>>

UserWithdraws ==
  /\ user # Nil
  /\ user' = Nil
  /\ Wake
  /\ UNCHANGED <<im, configs, emptied, cfg, rec, password, mishaps, machineVars>>

AgentComesOrGoes ==
  /\ accessible' = ~accessible
  /\ Wake
  /\ UNCHANGED <<hardware, cfg, rec, password, mishaps, omniVars>>

\* The machine is removed.  The configuration goes last, once nobody uses it.
Remove ==
  /\ im # "absent"
  /\ rec = Idle
  /\ im' = "absent" /\ cfg' = Nil
  /\ pending' = FALSE
  /\ UNCHANGED <<user, configs, emptied, rec, password, mishaps, machineVars>>

-----------------------------------------------------------------------------
(* BMCConfigurationController. *)

Read ==
  /\ pending /\ rec = Idle
  /\ im # "absent"
  /\ rec' = [step |-> "read", im |-> im, accessible |-> accessible, user |-> user]
  /\ pending' = FALSE
  /\ UNCHANGED <<cfg, password, mishaps, omniVars, machineVars>>

Current == IF cfg = Nil THEN NewConfiguration ELSE cfg

\* Mutant: a recorded IPMI login does not count.
AlreadyInitializedButIpmi(c) ==
  /\ ~c.manuallyConfigured
  /\ c.api # Nil \/ c.manual

AlreadyInitialized(c) ==
  /\ ~c.manuallyConfigured
  /\ c.api # Nil \/ c.ipmi # Nil \/ c.manual

\* Of an interface that the user's configuration does not name, what is recorded stays.
StoreUserProvided(u, c) ==
  [ipmi |-> IF u.ipmi # Nil THEN UserLogin(u.ipmi) ELSE c.ipmi,
   api |-> IF u.api # Nil THEN UserLogin(u.api) ELSE c.api,
   manual |-> FALSE,
   manuallyConfigured |-> TRUE]

StoreManual(c) == [c EXCEPT !.manual = TRUE, !.manuallyConfigured = FALSE]

StoreAgentProvided(interfaces, p, c) ==
  [c EXCEPT !.manuallyConfigured = FALSE,
            !.api = IF "api" \in interfaces THEN ForAPI ELSE @,
            !.ipmi = IF "ipmi" \in interfaces THEN AgentLogin(p) ELSE @]

Skip ==
  /\ rec.step = "read"
  /\ \/ rec.im # "managed"
     \/ ~rec.accessible
     \/ rec.user = Nil /\ AlreadyInitialized(Current)
  /\ rec' = Idle
  /\ UNCHANGED <<cfg, pending, password, mishaps, omniVars, machineVars>>

Decide ==
  /\ rec.step = "read"
  /\ rec.im = "managed" /\ rec.accessible
  /\ \/ /\ rec.user = Unset
        /\ rec' = Idle
        /\ Wake
     \/ /\ rec.user \notin {Nil, Unset}
        /\ rec' = [step |-> "commit", cfg |-> StoreUserProvided(rec.user, Current)]
        /\ UNCHANGED pending
     \/ /\ rec.user = Nil /\ ~AlreadyInitialized(Current)
        /\ rec' = [step |-> "get"]
        /\ UNCHANGED pending
  /\ UNCHANGED <<cfg, password, mishaps, omniVars, machineVars>>

\* An answer of the agent is the interfaces it has found, or an error.
NoIPMIDevice == [internal |-> TRUE, mentionsIPMI |-> TRUE]
Found(interfaces) == [error |-> Nil, interfaces |-> interfaces]
Failed(error) == [error |-> error, interfaces |-> {}]

\* Where there is nothing to find, the agent fails to open the IPMI device, or says so.
AgentAnswers ==
  IF hardware = {} THEN {Found({}), Failed(NoIPMIDevice)} ELSE {Found(hardware)}

\* Whatever else may go wrong, on the way or in the agent.
FailedAnswers == {Failed(e) : e \in Errors \ {NoIPMIDevice}}

\* Mutant: trouble on the way counts if it is about IPMI.
IsNoBMCErrorByWording(e) == e.mentionsIPMI

IsNoBMCError(e) == e.internal /\ e.mentionsIPMI

\* Mutant: only an empty answer counts.
HasNoBMCIfEmpty(answer) ==
  /\ AllowMachinesWithoutBMC
  /\ answer.error = Nil /\ answer.interfaces = {}

HasNoBMC(answer) ==
  /\ AllowMachinesWithoutBMC
  /\ IF answer.error # Nil THEN IsNoBMCError(answer.error) ELSE answer.interfaces = {}

GetPowerManagement ==
  /\ rec.step = "get"
  /\ accessible
  /\ \E answer \in AgentAnswers \cup FailedAnswers :
       /\ IF answer \in AgentAnswers THEN UNCHANGED mishaps ELSE Mishap
       /\ \/ /\ HasNoBMC(answer)
             /\ rec' = [step |-> "commit", cfg |-> StoreManual(Current)]
             /\ UNCHANGED pending
          \/ /\ ~HasNoBMC(answer)
             /\ answer.interfaces # {}
             /\ rec' = [step |-> "set", interfaces |-> answer.interfaces]
             /\ UNCHANGED pending
          \/ /\ ~HasNoBMC(answer)
             /\ answer.interfaces = {}   \* so it is after an error
             /\ rec' = Idle
             /\ Wake
  /\ UNCHANGED <<cfg, password, omniVars, machineVars>>

\* The generated password has never been used before.
NewPasswords ==
  {p \in Passwords : p # password /\ (cfg # Nil => cfg.ipmi # AgentLogin(p))}

\* The password is set on the BMC, and recorded only afterwards.
SetPowerManagement ==
  /\ rec.step = "set"
  /\ accessible
  /\ \E p \in NewPasswords :
       /\ password' = IF "ipmi" \in rec.interfaces THEN p ELSE password
       /\ \/ /\ rec' = [step |-> "commit", cfg |-> StoreAgentProvided(rec.interfaces, p, Current)]
             /\ UNCHANGED <<pending, mishaps>>
          \/ /\ Mishap   \* the answer is lost
             /\ rec' = Idle
             /\ Wake
  /\ UNCHANGED <<cfg, omniVars, machineVars>>

\* Without a tunnel a call fails at once.
Unavailable ==
  /\ rec.step \in {"get", "set"}
  /\ ~accessible
  /\ rec' = Idle
  /\ Wake
  /\ UNCHANGED <<cfg, password, mishaps, omniVars, machineVars>>

\* Mutant: whatever has come during the run is taken for done.
CommitAndForget ==
  /\ rec.step = "commit"
  /\ cfg' = rec.cfg
  /\ rec' = Idle
  /\ pending' = FALSE
  /\ UNCHANGED <<password, mishaps, omniVars, machineVars>>

Commit ==
  /\ rec.step = "commit"
  /\ cfg' = rec.cfg
  /\ rec' = Idle
  /\ UNCHANGED <<pending, password, mishaps, omniVars, machineVars>>

\* A call fails, the address of the API cannot be read, the record cannot be written, or the
\* provider restarts.
Fail ==
  /\ rec # Idle
  /\ Mishap
  /\ rec' = Idle
  /\ Wake
  /\ UNCHANGED <<cfg, password, omniVars, machineVars>>

-----------------------------------------------------------------------------

\* The client everybody gets for a configuration: a manual one first, then the API.
Client(c) ==
  CASE c.manual -> [kind |-> "manual", login |-> Nil]
    [] ~c.manual /\ c.api # Nil -> [kind |-> "api", login |-> c.api]
    [] ~c.manual /\ c.api = Nil /\ c.ipmi # Nil -> [kind |-> "ipmi", login |-> c.ipmi]
    [] OTHER -> [kind |-> "none", login |-> Nil]

Reconcile ==
  Read \/ Skip \/ Decide \/ GetPowerManagement \/ SetPowerManagement \/ Unavailable \/ Commit

Next ==
  \/ Register \/ UserConfigures \/ UserWithdraws \/ AgentComesOrGoes \/ Remove
  \/ Reconcile
  \/ Fail

Spec == Init /\ [][Next]_vars

\* The runtime runs the controller while it has a reason to.
FairSpec == Spec /\ WF_vars(Reconcile)

-----------------------------------------------------------------------------
(* Properties. *)

UsesOwnLogin == cfg # Nil /\ Client(cfg).kind = "ipmi" /\ cfg.ipmi.source = "agent"

\* The login everybody uses works, if the provider has made it: the password recorded is
\* the one set last, although every run that gets that far sets another and may end before
\* recording it (bmc_configuration.go, transform, ensurePowerManagementOnAgent).  The exception
\* is a login the user has made his own by a configuration that names no interface, which
\* storeUserProvidedBMCConfig does not refuse: once that is withdrawn, the password is set
\* anew while the old one is still in use.
PasswordWorks ==
  UsesOwnLogin => cfg.ipmi = AgentLogin(password) \/ (cfg.manuallyConfigured /\ emptied)

\* A machine that has a BMC never loses it to an error (bmc_configuration.go, isNoBMCError:
\* "a machine must never lose its BMC to a momentary blip").
KeepsItsBMC == hardware # {} /\ cfg # Nil => Client(cfg).kind # "manual"

Reachable == im = "managed" /\ accessible

\* The exception to PasswordWorks ends with the user's configuration: once he has withdrawn it
\* and the controller rests, with the machine within reach, the password works again.
WorksAgain ==
  Reachable /\ user = Nil /\ rec = Idle /\ ~pending /\ UsesOwnLogin => cfg.ipmi = AgentLogin(password)

\* However often its BMC is set up, the machine can be managed by what is recorded.
StaysManageable == PasswordWorks /\ WorksAgain /\ KeepsItsBMC

\* Why it can: a login of the provider's own that is in use is never set anew, unless it
\* has become the user's, and what is about to be recorded keeps this so.
LoginWorks(c) ==
  c.ipmi # Nil /\ c.ipmi.source = "agent" /\ c.api = Nil /\ ~c.manual
    => IF c.manuallyConfigured THEN emptied ELSE c.ipmi = AgentLogin(password)

EmptyIsKnown ==
  /\ user = Empty => emptied
  /\ rec.step = "read" /\ rec.user = Empty => emptied

SetupInv ==
  /\ TypeOK
  /\ cfg # Nil => LoginWorks(cfg)
  /\ rec.step \in {"get", "set"} => ~AlreadyInitialized(Current)
  /\ EmptyIsKnown
  /\ rec.step = "set" => rec.interfaces # {}
  /\ rec.step = "commit" => LoginWorks(rec.cfg)
  /\ hardware # {} => /\ cfg # Nil => ~cfg.manual
                      /\ rec.step = "commit" => ~rec.cfg.manual

\* What there is to do with a configuration has been done: there is one, of the agent's, or
\* what the user gives is in it.
Settles(u, c) ==
  /\ u # Unset
  /\ u = Nil => AlreadyInitialized(c)
  /\ u # Nil => c.manuallyConfigured /\ ~c.manual /\ \A i \in Interfaces : u[i] # Nil => c[i] = UserLogin(u[i])

\* The controller never rests with work left: with a machine within reach and nothing under
\* way, what is recorded is what the user gives now, or what the agent has reported, whatever
\* changed while it was being recorded (bmc_configuration.go, transform and its inputs).  So a
\* login that has become the user's is replaced once he withdraws his configuration.
RestsWhenDone ==
  Reachable /\ rec = Idle /\ ~pending => Settles(user, Current)

\* A machine left to the provider with its agent running gets a configuration in the end by
\* which it can be powered, manual if it has no BMC, unless the user leaves one that names no
\* interface (bmc_configuration.go, hasNoBMC; README.md, Machines without a BMC).
GetsConfigured ==
  <>[](Reachable /\ user # Unset) /\ (hardware # {} \/ AllowMachinesWithoutBMC)
    => <>[](cfg # Nil /\ (user # Empty => Client(cfg).kind # "none"))

\* What the user gives is recorded in the end, even if it was given or changed while a run
\* was under way, and ends the manual power of the machine (bmc_configuration.go,
\* storeUserProvidedBMCConfig).
UserConfigIsStored ==
  <>[](Reachable /\ user \notin {Nil, Unset})
    => <>[](user # Nil /\ cfg # Nil /\ Settles(user, cfg))

\* In the end there is a configuration, and it is the user's if he gives one.
EndsConfigured == GetsConfigured /\ UserConfigIsStored
=============================================================================
