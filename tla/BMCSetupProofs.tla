---------------------------- MODULE BMCSetupProofs -----------------------------
(***************************************************************************)
(* Proofs about BMCSetup, for any bounds, any passwords, and either flag.  *)
(***************************************************************************)
EXTENDS BMCSetup, TLAPS

\* Each of the three ways to store a configuration yields one.
LEMMA StoredIsConfiguration ==
  ASSUME NEW c \in BMCConfiguration
  PROVE  /\ \A u \in UserConfigs : StoreUserProvided(u, c) \in BMCConfiguration
         /\ StoreManual(c) \in BMCConfiguration
         /\ \A interfaces \in SUBSET Interfaces, p \in Passwords :
              StoreAgentProvided(interfaces, p, c) \in BMCConfiguration
<1>1. ASSUME NEW u \in UserConfigs PROVE StoreUserProvided(u, c) \in BMCConfiguration
  <2>1. \A i \in Interfaces : u[i] # Nil => UserLogin(u[i]) \in Logins
    BY <1>1 DEF UserConfigs, UserLogin, Logins
  <2> QED BY <2>1 DEF StoreUserProvided, BMCConfiguration, Interfaces
<1>2. StoreManual(c) \in BMCConfiguration
  BY DEF StoreManual, BMCConfiguration
<1>3. ASSUME NEW interfaces \in SUBSET Interfaces, NEW p \in Passwords
      PROVE  StoreAgentProvided(interfaces, p, c) \in BMCConfiguration
  <2>1. AgentLogin(p) \in Logins /\ ForAPI \in Logins
    BY <1>3 DEF AgentLogin, ForAPI, Logins
  <2> QED BY <2>1, <1>3 DEF StoreAgentProvided, BMCConfiguration
<1> QED BY <1>1, <1>2, <1>3

\* Storing what the user gives leaves a login of the agent in use only if he names no interface.
LEMMA UserLoginWorks ==
  ASSUME NEW c \in BMCConfiguration, NEW u \in UserConfigs, u = Empty => emptied
  PROVE  LoginWorks(StoreUserProvided(u, c))
<1>1. CASE emptied
  BY <1>1 DEF LoginWorks, StoreUserProvided
<1>2. CASE ~emptied
  <2>1. u.ipmi # Nil \/ u.api # Nil
    BY <1>2 DEF UserConfigs, Empty, Interfaces
  <2>2. \A i \in Interfaces : u[i] # Nil => UserLogin(u[i]) \in Logins
    BY DEF UserConfigs, UserLogin, Logins
  <2>3. u.api # Nil => UserLogin(u.api) # Nil
    BY <2>2, NilIsNothing DEF Interfaces
  <2>4. \A n : UserLogin(n).source # "agent"
    BY DEF UserLogin
  <2> QED BY <2>1, <2>3, <2>4 DEF LoginWorks, StoreUserProvided
<1> QED BY <1>1, <1>2

\* A machine recorded as manual has none in use.
LEMMA ManualLoginWorks ==
  ASSUME NEW c \in BMCConfiguration
  PROVE  LoginWorks(StoreManual(c))
BY DEF LoginWorks, StoreManual, BMCConfiguration

\* What the agent reports is used with the password just set, if it is used.
LEMMA AgentLoginIsNew ==
  ASSUME NEW c \in BMCConfiguration, NEW interfaces \in SUBSET Interfaces, interfaces # {},
         NEW p \in Passwords, StoreAgentProvided(interfaces, p, c).api = Nil
  PROVE  /\ "ipmi" \in interfaces
         /\ ~StoreAgentProvided(interfaces, p, c).manuallyConfigured
         /\ StoreAgentProvided(interfaces, p, c).ipmi = AgentLogin(p)
<1>1. ForAPI # Nil
  BY NilIsNothing DEF ForAPI, AgentLogin, Logins
<1>2. "api" \notin interfaces
  BY <1>1 DEF StoreAgentProvided, BMCConfiguration
<1>3. "ipmi" \in interfaces
  BY <1>2 DEF Interfaces
<1> QED BY <1>3 DEF StoreAgentProvided, BMCConfiguration

-----------------------------------------------------------------------------
LEMMA InitInv == Init => SetupInv
<1> SUFFICES ASSUME Init PROVE SetupInv
  OBVIOUS
<1>1. Idle \in Progress /\ Idle.step = "idle"
  BY DEF Progress, Idle
<1>2. 0 \in 0..MaxUserConfigs /\ 0 \in 0..MaxMishaps
  BY BMCAssumption
<1>3. TypeOK
  BY <1>1, <1>2 DEF Init, TypeOK
<1>4. Nil # Empty
  BY NilIsNothing DEF Empty, UserConfigs
<1>5. EmptyIsKnown
  BY <1>1, <1>4 DEF Init, EmptyIsKnown
<1> QED BY <1>1, <1>3, <1>5 DEF Init, SetupInv

LEMMA TypeStep == SetupInv /\ [Next]_vars => TypeOK'
<1> SUFFICES ASSUME SetupInv, [Next]_vars PROVE TypeOK'
  OBVIOUS
<1> USE BMCAssumption DEF SetupInv, TypeOK, omniVars, machineVars, Wake
<1>i. Idle \in Progress
  BY DEF Progress
<1>m. mishaps' = mishaps \/ Mishap => mishaps' \in 0..MaxMishaps
  BY DEF Mishap
<1>c. Current \in BMCConfiguration
  BY DEF Current, NewConfiguration, BMCConfiguration
<1>1. CASE Register \/ UserWithdraws \/ AgentComesOrGoes \/ Remove
  BY <1>1 DEF Register, UserWithdraws, AgentComesOrGoes, Remove
<1>2. CASE UserConfigures
  <2>1. configs' \in 1..MaxUserConfigs
    BY <1>2 DEF UserConfigures
  <2>2. user' \in UserConfigs \cup {Unset}
    <3>0. CASE user' = Unset
      BY <3>0
    <3>1. CASE \E given \in SUBSET Interfaces :
                 user' = [i \in Interfaces |-> IF i \in given THEN configs' ELSE Nil]
     <4>1. PICK given \in SUBSET Interfaces :
            user' = [i \in Interfaces |-> IF i \in given THEN configs' ELSE Nil]
      BY <3>1
     <4>2. \A i \in Interfaces : (IF i \in given THEN configs' ELSE Nil)
                                 \in (1..MaxUserConfigs) \cup {Nil}
      BY <2>1
     <4>3. user' \in UserConfigs
      BY <4>1, <4>2, Zenon DEF UserConfigs
     <4> QED BY <4>3
    <3> QED BY <1>2, <3>0, <3>1 DEF UserConfigures
  <2> QED BY <1>2, <2>1, <2>2 DEF UserConfigures
<1>3. CASE Read
  <2>1. rec' \in Progress
    BY <1>3 DEF Read, Progress
  <2> QED BY <1>3, <2>1 DEF Read
<1>4. CASE Skip \/ Unavailable \/ Fail
  BY <1>4, <1>i, <1>m DEF Skip, Unavailable, Fail
<1>5. CASE Decide
  <2>1. rec' \in Progress
    <3>1. CASE rec' = Idle \/ rec' = [step |-> "get"]
      BY <3>1 DEF Progress
    <3>2. CASE rec.user \notin {Nil, Unset}
                /\ rec' = [step |-> "commit", cfg |-> StoreUserProvided(rec.user, Current)]
      <4>1. rec.user \in UserConfigs
        BY <1>5, <3>2 DEF Decide, Progress, Idle
      <4> QED BY <3>2, <4>1, <1>c, StoredIsConfiguration DEF Progress
    <3> QED BY <1>5, <3>1, <3>2 DEF Decide
  <2> QED BY <1>5, <2>1 DEF Decide
<1>6. CASE GetPowerManagement
  <2>1. PICK answer \in AgentAnswers \cup FailedAnswers :
          \/ rec' = [step |-> "commit", cfg |-> StoreManual(Current)]
          \/ rec' = [step |-> "set", interfaces |-> answer.interfaces]
          \/ rec' = Idle
    BY <1>6 DEF GetPowerManagement
  <2>2. answer.interfaces \in SUBSET Interfaces
    <3>1. \A i \in {{}, hardware} : Found(i).interfaces \in SUBSET Interfaces
      BY DEF Found
    <3>2. \A e : Failed(e).interfaces = {}
      BY DEF Failed
    <3> QED BY <2>1, <3>1, <3>2, Zenon DEF AgentAnswers, FailedAnswers
  <2>3. rec' \in Progress
    BY <2>1, <2>2, <1>c, StoredIsConfiguration DEF Progress
  <2>4. mishaps' \in 0..MaxMishaps /\ pending' \in BOOLEAN
    <3>1. mishaps' = mishaps \/ Mishap
      BY <1>6 DEF GetPowerManagement
    <3>2. pending' = pending \/ pending' = TRUE
      BY <1>6, Zenon DEF GetPowerManagement
    <3> QED BY <3>1, <3>2, <1>m
  <2> QED BY <1>6, <2>3, <2>4 DEF GetPowerManagement
<1>7. CASE SetPowerManagement
  <2>1. rec.interfaces \in SUBSET Interfaces
    BY <1>7 DEF SetPowerManagement, Progress, Idle
  <2>2. PICK p \in NewPasswords :
          /\ password' = IF "ipmi" \in rec.interfaces THEN p ELSE password
          /\ \/ rec' = [step |-> "commit", cfg |-> StoreAgentProvided(rec.interfaces, p, Current)]
             \/ rec' = Idle
    BY <1>7, Zenon DEF SetPowerManagement
  <2>3. p \in Passwords
    BY <2>2 DEF NewPasswords
  <2>4. rec' \in Progress
    BY <2>1, <2>2, <2>3, <1>c, StoredIsConfiguration DEF Progress
  <2>5. mishaps' \in 0..MaxMishaps /\ pending' \in BOOLEAN
    <3>1. mishaps' = mishaps \/ Mishap
      BY <1>7, Zenon DEF SetPowerManagement
    <3>2. pending' = pending \/ pending' = TRUE
      BY <1>7, Zenon DEF SetPowerManagement
    <3> QED BY <3>1, <3>2, <1>m
  <2> QED BY <1>7, <2>2, <2>3, <2>4, <2>5 DEF SetPowerManagement
<1>8. CASE Commit
  <2>1. rec.cfg \in BMCConfiguration
    BY <1>8 DEF Commit, Progress, Idle
  <2> QED BY <1>8, <2>1 DEF Commit, Idle, Progress
<1>9. CASE UNCHANGED vars
  BY <1>9 DEF vars
<1> QED BY <1>1, <1>2, <1>3, <1>4, <1>5, <1>6, <1>7, <1>8, <1>9 DEF Next, Reconcile

\* A configuration that names no interface, given or read, is remembered.
LEMMA EmptyStep == TypeOK /\ EmptyIsKnown /\ [Next]_vars => EmptyIsKnown' /\ (emptied => emptied')
<1> SUFFICES ASSUME TypeOK, EmptyIsKnown, [Next]_vars PROVE EmptyIsKnown' /\ (emptied => emptied')
  OBVIOUS
<1>e. Nil # Empty
  BY NilIsNothing DEF Empty, UserConfigs
<1>1. CASE UserConfigures
  BY <1>1 DEF UserConfigures, EmptyIsKnown, TypeOK
<1>2. CASE Register \/ UserWithdraws \/ AgentComesOrGoes \/ Remove
  BY <1>2, <1>e DEF Register, UserWithdraws, AgentComesOrGoes, Remove, EmptyIsKnown, omniVars
<1>3. CASE Read
  BY <1>3 DEF Read, EmptyIsKnown, omniVars
<1>4. CASE (Reconcile /\ ~Read) \/ Fail
  <2>1. UNCHANGED <<user, emptied>>
    BY <1>4 DEF Reconcile, Skip, Decide, GetPowerManagement, SetPowerManagement, Unavailable, Commit, Fail,
         omniVars
  <2>2. rec'.step # "read"
    <3>1. ASSUME GetPowerManagement PROVE rec'.step # "read"
      <4>1. \/ rec' = [step |-> "commit", cfg |-> StoreManual(Current)]
            \/ \E i : rec' = [step |-> "set", interfaces |-> i]
            \/ rec' = Idle
        BY <3>1, Zenon DEF GetPowerManagement
      <4> QED BY <4>1 DEF Idle
    <3>2. ASSUME SetPowerManagement PROVE rec'.step # "read"
      <4>1. (\E c : rec' = [step |-> "commit", cfg |-> c]) \/ rec' = Idle
        BY <3>2, Zenon DEF SetPowerManagement
      <4> QED BY <4>1 DEF Idle
    <3>3. ASSUME Skip \/ Decide \/ Unavailable \/ Commit \/ Fail PROVE rec'.step # "read"
      BY <3>3 DEF Skip, Decide, Unavailable, Commit, Fail, Idle
    <3> QED BY <1>4, <3>1, <3>2, <3>3 DEF Reconcile
  <2> QED BY <2>1, <2>2 DEF EmptyIsKnown
<1>5. CASE UNCHANGED vars
  BY <1>5 DEF vars, EmptyIsKnown
<1> QED BY <1>1, <1>2, <1>3, <1>4, <1>5 DEF Next

\* What makes the password work, and keeps a machine its BMC, is kept by every step.
LEMMA SetupStep == SetupInv /\ [Next]_vars => SetupInv'
<1> SUFFICES ASSUME SetupInv, [Next]_vars PROVE SetupInv'
  OBVIOUS
<1>t. TypeOK /\ TypeOK'
  BY TypeStep DEF SetupInv
<1>c. Current \in BMCConfiguration /\ LoginWorks(Current)
      /\ (hardware # {} => ~Current.manual)
  BY <1>t DEF SetupInv, TypeOK, Current, NewConfiguration, BMCConfiguration, LoginWorks
<1>i. Idle.step = "idle"
  BY DEF Idle
<1> USE DEF omniVars, machineVars, Wake
\* Nothing a login depends on changes while the password does not.
<1>e. EmptyIsKnown' /\ (emptied => emptied')
  BY <1>t, EmptyStep DEF SetupInv
<1>p. ASSUME password' = password, NEW c, LoginWorks(c) PROVE LoginWorks(c)'
  BY <1>p, <1>e DEF LoginWorks, AgentLogin
<1>1. CASE Register \/ UserConfigures \/ UserWithdraws \/ AgentComesOrGoes
  BY <1>1, <1>t, <1>e, <1>p DEF Register, UserConfigures, UserWithdraws, AgentComesOrGoes, SetupInv, Current
<1>2. CASE Remove
  BY <1>2, <1>t, <1>e, <1>i DEF Remove, SetupInv
<1>3. CASE Read \/ Skip \/ Unavailable \/ Fail
  <2>1. rec'.step \in {"idle", "read"} /\ UNCHANGED <<cfg, password, hardware>>
    BY <1>3, <1>i DEF Read, Skip, Unavailable, Fail
  <2> QED BY <2>1, <1>t, <1>e, <1>p DEF SetupInv
<1>4. CASE Decide
  <2>1. UNCHANGED <<cfg, password, hardware>>
    BY <1>4 DEF Decide
  <2>2. CASE rec' = Idle
    BY <2>1, <2>2, <1>t, <1>e, <1>p, <1>i DEF SetupInv
  <2>3. CASE rec.user \notin {Nil, Unset}
             /\ rec' = [step |-> "commit", cfg |-> StoreUserProvided(rec.user, Current)]
    <3>1. rec.user \in UserConfigs
      BY <1>4, <2>3, <1>t, <1>e DEF Decide, TypeOK, Progress, Idle
    <3>2. LoginWorks(rec'.cfg) /\ ~rec'.cfg.manual /\ rec'.step = "commit"
      BY <1>4, <2>3, <3>1, <1>c, UserLoginWorks DEF StoreUserProvided, SetupInv, Decide, EmptyIsKnown
    <3> QED BY <2>1, <3>2, <1>t, <1>e, <1>p DEF SetupInv, LoginWorks
  <2>4. CASE ~AlreadyInitialized(Current) /\ rec' = [step |-> "get"]
    BY <2>1, <2>4, <1>t, <1>e, <1>p DEF SetupInv, Current
  <2> QED BY <1>4, <2>2, <2>3, <2>4 DEF Decide
<1>5. CASE GetPowerManagement
  <2>1. UNCHANGED <<cfg, password, hardware>> /\ ~AlreadyInitialized(Current)
    BY <1>5 DEF GetPowerManagement, SetupInv
  <2>2. PICK answer \in AgentAnswers \cup FailedAnswers :
          \/ /\ HasNoBMC(answer)
             /\ rec' = [step |-> "commit", cfg |-> StoreManual(Current)]
          \/ /\ answer.interfaces # {}
             /\ rec' = [step |-> "set", interfaces |-> answer.interfaces]
          \/ rec' = Idle
    BY <1>5, Zenon DEF GetPowerManagement
  <2>3. CASE HasNoBMC(answer) /\ rec' = [step |-> "commit", cfg |-> StoreManual(Current)]
    <3>1. LoginWorks(rec'.cfg)
      BY <2>1, <2>3, <1>c, ManualLoginWorks
    <3>2. hardware = {}
      BY <2>3, NilIsNothing DEF HasNoBMC, IsNoBMCError, AgentAnswers, FailedAnswers, Found, Failed,
           Errors, NoIPMIDevice
    <3> QED BY <2>1, <2>3, <3>1, <3>2, <1>t, <1>e, <1>p DEF SetupInv, LoginWorks
  <2>4. CASE answer.interfaces # {} /\ rec' = [step |-> "set", interfaces |-> answer.interfaces]
    BY <2>1, <2>4, <1>t, <1>e, <1>p DEF SetupInv, Current
  <2>5. CASE rec' = Idle
    BY <2>1, <2>5, <1>t, <1>e, <1>p, <1>i DEF SetupInv
  <2> QED BY <2>2, <2>3, <2>4, <2>5
<1>6. CASE SetPowerManagement
  <2>1. UNCHANGED <<cfg, hardware>> /\ rec.step = "set"
    BY <1>6 DEF SetPowerManagement
  <2>2. rec.interfaces \in SUBSET Interfaces /\ rec.interfaces # {}
    BY <2>1, <1>t, <1>e DEF SetupInv, TypeOK, Progress, Idle
  <2>3. ~AlreadyInitialized(Current)
    BY <2>1 DEF SetupInv
  \* The login recorded so far is not in use, and need not work.
  <2>4. cfg # Nil => LoginWorks(cfg)'
    <3>1. ASSUME cfg # Nil PROVE LoginWorks(cfg)'
      <4>1. cfg \in BMCConfiguration /\ cfg' = cfg /\ emptied' = emptied /\ LoginWorks(cfg)
        BY <1>6, <2>1, <3>1, <1>t, <1>e DEF SetupInv, TypeOK, SetPowerManagement
      <4>2. cfg.manuallyConfigured \/ (cfg.api = Nil /\ cfg.ipmi = Nil /\ ~cfg.manual)
        BY <2>3, <3>1, <4>1 DEF AlreadyInitialized, Current, BMCConfiguration
      <4> QED BY <4>1, <4>2 DEF LoginWorks
    <3> QED BY <3>1
  <2>5. PICK p \in NewPasswords :
          /\ password' = IF "ipmi" \in rec.interfaces THEN p ELSE password
          /\ \/ rec' = [step |-> "commit", cfg |-> StoreAgentProvided(rec.interfaces, p, Current)]
             \/ rec' = Idle
    BY <1>6, Zenon DEF SetPowerManagement
  <2>6. CASE rec' = Idle
    BY <2>1, <2>4, <2>6, <1>t, <1>e, <1>i DEF SetupInv
  <2>7. CASE rec' = [step |-> "commit", cfg |-> StoreAgentProvided(rec.interfaces, p, Current)]
    <3>1. p \in Passwords
      BY DEF NewPasswords
    <3>2. LoginWorks(rec.cfg)'
      BY <2>2, <2>5, <2>7, <3>1, <1>c, AgentLoginIsNew DEF LoginWorks, AgentLogin
    <3>3. rec'.cfg.manual = Current.manual
      BY <2>7, <1>c DEF StoreAgentProvided, BMCConfiguration
    <3> QED BY <2>1, <2>4, <2>7, <3>2, <3>3, <1>c, <1>t, <1>e DEF SetupInv
  <2> QED BY <2>5, <2>6, <2>7
<1>7. CASE Commit
  BY <1>7, <1>t, <1>e, <1>i, <1>p DEF Commit, SetupInv
<1>8. CASE UNCHANGED vars
  BY <1>8, <1>t, <1>e, <1>p DEF vars, SetupInv, Current
<1> QED BY <1>1, <1>2, <1>3, <1>4, <1>5, <1>6, <1>7, <1>8 DEF Next, Reconcile

-----------------------------------------------------------------------------
\* SetupInv is an invariant: a login of the provider's own that is in use is never set anew,
\* unless it has become the user's, and a machine with a BMC is never about to be recorded as manual.
THEOREM SetupInvariance == Spec => []SetupInv
<1>1. Init => SetupInv
  BY InitInv
<1>2. SetupInv /\ [Next]_vars => SetupInv'
  BY SetupStep
<1> QED BY <1>1, <1>2, PTL DEF Spec

\* The password recorded is the one set on the BMC last, whenever it is used, unless the user
\* has made it his own by a configuration that names no interface.
THEOREM PasswordAlwaysWorks == Spec => []PasswordWorks
<1>1. SetupInv => PasswordWorks
  <2> SUFFICES ASSUME SetupInv, UsesOwnLogin
               PROVE  cfg.ipmi = AgentLogin(password) \/ (cfg.manuallyConfigured /\ emptied)
    BY DEF PasswordWorks
  <2>1. cfg.api = Nil /\ cfg.ipmi # Nil /\ ~cfg.manual
    BY DEF UsesOwnLogin, Client, SetupInv, TypeOK, BMCConfiguration
  <2> QED BY <2>1 DEF SetupInv, LoginWorks, UsesOwnLogin
<1> QED BY <1>1, SetupInvariance, PTL

\* A machine with a BMC is never powered by hand because of an error.
THEOREM BMCIsKept == Spec => []KeepsItsBMC
<1>1. SetupInv => KeepsItsBMC
  BY DEF SetupInv, KeepsItsBMC, Client, TypeOK, BMCConfiguration
<1> QED BY <1>1, SetupInvariance, PTL

-----------------------------------------------------------------------------
(* Nothing is left undone.  Unless something has changed since, and the controller is to run  *)
(* again, what a run has read is what there still is, and what it is about to record settles  *)
(* that.                                                                                      *)
ReadIsCurrent == rec.im = im /\ rec.accessible = accessible /\ rec.user = user

WorkInv ==
  ~pending =>
    /\ rec.step = "idle" => (Reachable => Settles(user, Current))
    /\ rec.step = "read" => ReadIsCurrent
    /\ rec.step \in {"get", "set"} => user = Nil
    /\ rec.step = "commit" => Settles(user, rec.cfg)

\* What the user gives is settled by storing it, and his silence by storing what the agent
\* reports, be it that there is no BMC.
LEMMA StoringSettles ==
  ASSUME NEW c \in BMCConfiguration
  PROVE  /\ \A u \in UserConfigs : Settles(u, StoreUserProvided(u, c))
         /\ Settles(Nil, StoreManual(c))
         /\ \A interfaces \in SUBSET Interfaces, p \in Passwords :
              interfaces # {} => Settles(Nil, StoreAgentProvided(interfaces, p, c))
<1>n. Nil # Unset /\ Nil \notin UserConfigs /\ Unset \notin UserConfigs
  BY NilIsNothing, BMCAssumption
<1>1. ASSUME NEW u \in UserConfigs PROVE Settles(u, StoreUserProvided(u, c))
  BY <1>1, <1>n DEF Settles, StoreUserProvided, Interfaces
<1>2. Settles(Nil, StoreManual(c))
  BY <1>n DEF Settles, StoreManual, AlreadyInitialized, BMCConfiguration
<1>3. ASSUME NEW interfaces \in SUBSET Interfaces, NEW p \in Passwords, interfaces # {}
      PROVE  Settles(Nil, StoreAgentProvided(interfaces, p, c))
  <2>1. AgentLogin(p) # Nil /\ ForAPI # Nil
    BY <1>3, NilIsNothing DEF AgentLogin, ForAPI, Logins
  <2>2. "api" \in interfaces \/ "ipmi" \in interfaces
    BY <1>3 DEF Interfaces
  <2> QED BY <2>1, <2>2, <1>n DEF Settles, StoreAgentProvided, AlreadyInitialized, BMCConfiguration
<1> QED BY <1>1, <1>2, <1>3

LEMMA WorkStep == SetupInv /\ WorkInv /\ [Next]_vars => WorkInv'
<1> SUFFICES ASSUME SetupInv, WorkInv, [Next]_vars PROVE WorkInv'
  OBVIOUS
<1>t. TypeOK
  BY DEF SetupInv
<1>c. Current \in BMCConfiguration
  BY <1>t DEF TypeOK, Current, NewConfiguration, BMCConfiguration
<1>i. Idle.step = "idle"
  BY DEF Idle
<1> USE DEF omniVars, machineVars
\* While there is a reason to run again, nothing is claimed.
<1>1. CASE Register \/ UserConfigures \/ UserWithdraws \/ AgentComesOrGoes \/ Unavailable \/ Fail
  BY <1>1 DEF Register, UserConfigures, UserWithdraws, AgentComesOrGoes, Unavailable, Fail, Wake, WorkInv
<1>2. CASE Remove
  BY <1>2, <1>i DEF Remove, WorkInv, Reachable
<1>3. CASE Read
  BY <1>3 DEF Read, WorkInv, ReadIsCurrent
<1>4. CASE Skip
  <2>1. SUFFICES ASSUME ~pending, Reachable PROVE Settles(user, Current)
    BY <1>4, <1>i DEF Skip, WorkInv, Reachable, Current, Settles
  <2>2. rec.im = im /\ rec.accessible = accessible /\ rec.user = user
    BY <1>4, <2>1 DEF Skip, WorkInv, ReadIsCurrent
  <2>3. user = Nil /\ AlreadyInitialized(Current)
    BY <1>4, <2>1, <2>2 DEF Skip, Reachable
  <2>4. Nil # Unset
    BY BMCAssumption
  <2> QED BY <2>3, <2>4 DEF Settles
<1>5. CASE Decide
  <2>1. UNCHANGED <<cfg, user, im, accessible>>
    BY <1>5 DEF Decide
  <2>2. ~pending => rec.user = user
    BY <1>5 DEF Decide, WorkInv, ReadIsCurrent
  <2>3. CASE pending' = TRUE
    BY <2>3 DEF WorkInv
  <2>4. CASE /\ rec.user \notin {Nil, Unset} /\ UNCHANGED pending
             /\ rec' = [step |-> "commit", cfg |-> StoreUserProvided(rec.user, Current)]
    <3>1. rec.user \in UserConfigs
      BY <1>5, <2>4, <1>t DEF Decide, TypeOK, Progress, Idle
    <3>2. Settles(rec.user, StoreUserProvided(rec.user, Current))
      BY <3>1, <2>4, <1>c, StoringSettles
    <3> QED BY <2>1, <2>2, <2>4, <3>2 DEF WorkInv, Settles
  <2>5. CASE rec.user = Nil /\ rec' = [step |-> "get"] /\ UNCHANGED pending
    BY <2>1, <2>2, <2>5 DEF WorkInv
  <2> QED BY <1>5, <2>3, <2>4, <2>5 DEF Decide, Wake
<1>6. CASE GetPowerManagement
  <2>1. UNCHANGED user /\ (~pending => user = Nil)
    BY <1>6 DEF GetPowerManagement, WorkInv
  <2>2. PICK answer \in AgentAnswers \cup FailedAnswers :
          \/ rec' = [step |-> "commit", cfg |-> StoreManual(Current)] /\ UNCHANGED pending
          \/ rec' = [step |-> "set", interfaces |-> answer.interfaces] /\ UNCHANGED pending
          \/ rec' = Idle /\ Wake
    BY <1>6, Zenon DEF GetPowerManagement
  <2>3. Settles(Nil, StoreManual(Current))
    BY <1>c, StoringSettles
  <2> QED BY <2>1, <2>2, <2>3 DEF WorkInv, Wake, Settles
<1>7. CASE SetPowerManagement
  <2>1. UNCHANGED user /\ (~pending => user = Nil)
    BY <1>7 DEF SetPowerManagement, WorkInv
  <2>2. rec.interfaces \in SUBSET Interfaces /\ rec.interfaces # {}
    BY <1>7, <1>t DEF SetPowerManagement, SetupInv, TypeOK, Progress, Idle
  <2>3. PICK p \in NewPasswords :
          \/ /\ rec' = [step |-> "commit", cfg |-> StoreAgentProvided(rec.interfaces, p, Current)]
             /\ UNCHANGED pending
          \/ rec' = Idle /\ Wake
    BY <1>7, Zenon DEF SetPowerManagement
  <2>4. Settles(Nil, StoreAgentProvided(rec.interfaces, p, Current))
    BY <2>2, <1>c, StoringSettles DEF NewPasswords
  <2> QED BY <2>1, <2>3, <2>4 DEF WorkInv, Wake, Settles
<1>8. CASE Commit
  <2>1. rec.cfg \in BMCConfiguration
    BY <1>8, <1>t DEF Commit, TypeOK, Progress, Idle
  <2>2. Current' = rec.cfg
    BY <1>8, <2>1, NilIsNothing DEF Commit, Current
  <2> QED BY <1>8, <1>i, <2>2 DEF Commit, WorkInv, Settles
<1>9. CASE UNCHANGED vars
  BY <1>9 DEF vars, WorkInv, ReadIsCurrent, Reachable, Current, Settles
<1> QED BY <1>1, <1>2, <1>3, <1>4, <1>5, <1>6, <1>7, <1>8, <1>9 DEF Next, Reconcile

\* The controller rests only when there is nothing left to record: no change of what the user
\* gives, or of the machine, is lost to the run it has met under way.
THEOREM NothingIsLeftUndone == Spec => []RestsWhenDone
<1>1. Init => WorkInv
  BY DEF Init, WorkInv, Reachable, Idle
<1>2. SetupInv /\ WorkInv /\ [Next]_vars => WorkInv'
  BY WorkStep
<1>3. WorkInv => RestsWhenDone
  BY DEF WorkInv, RestsWhenDone, Idle
<1> QED BY <1>1, <1>2, <1>3, SetupInvariance, PTL DEF Spec

\* What is recorded of a BMC can be used: its password is the one set last, with the exception
\* PasswordWorks names and only for as long as WorksAgain allows, and it is not taken to be
\* missing.
THEOREM MachineStaysManageable == Spec => []StaysManageable
<1>1. SetupInv /\ RestsWhenDone => WorksAgain
  <2> SUFFICES ASSUME SetupInv, RestsWhenDone, Reachable, user = Nil, rec = Idle, ~pending, UsesOwnLogin
               PROVE  cfg.ipmi = AgentLogin(password)
    BY DEF WorksAgain
  <2>1. cfg.api = Nil /\ cfg.ipmi # Nil /\ ~cfg.manual
    BY DEF UsesOwnLogin, Client, SetupInv, TypeOK, BMCConfiguration
  <2>2. ~cfg.manuallyConfigured
    BY DEF RestsWhenDone, Settles, AlreadyInitialized, Current, UsesOwnLogin
  <2> QED BY <2>1, <2>2 DEF SetupInv, LoginWorks, UsesOwnLogin
<1>2. PasswordWorks /\ WorksAgain /\ KeepsItsBMC => StaysManageable
  BY DEF StaysManageable
<1> QED BY <1>1, <1>2, SetupInvariance, NothingIsLeftUndone, PasswordAlwaysWorks, BMCIsKept, PTL

\* All of it holds of the specification with fairness, which the run checks.
THEOREM FairIsSafe ==
  FairSpec => [](SetupInv /\ StaysManageable /\ RestsWhenDone)
BY SetupInvariance, MachineStaysManageable, NothingIsLeftUndone, PTL DEF FairSpec
=============================================================================
