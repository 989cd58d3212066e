----------------------------- MODULE AgentProofs -----------------------------
(***************************************************************************)
(* Proofs about Agent for any sets of goroutines and accounts, any         *)
(* requests and any number of attempts.  First, that the agent uses        *)
(* auth.Manager only as TokenManager describes it (ManagerUse), so that    *)
(* what TokenManagerProofs shows of the manager holds in the agent, with   *)
(* its commands invalidating and its acquire as the provider.  On top of   *)
(* that, the properties of the account and of the locks.                   *)
(*                                                                         *)
(* The strengthening says which goroutines are in the manager (Asking),    *)
(* what the command that holds commandMu has done so far (Commands), and   *)
(* that whoever holds authOp runs a browser login as the manager's         *)
(* provider, for the account as it is configured (Browser).                *)
(***************************************************************************)
EXTENDS Agent, TLAPS

Proved == INSTANCE TokenManagerProofs

-----------------------------------------------------------------------------
(* The manager in the agent *)

\* What TokenManager assumes of its constants holds of the agent's.
LEMMA ManagerAssumptions ==
  Proved!LimitsAssumption /\ Proved!BoundAssumption /\ Proved!NoneAssumption
BY ProcessAssumption, TriesAssumption, BoundsAssumption
DEF Proved!LimitsAssumption, Proved!BoundAssumption, Proved!NoneAssumption, Limits, Tokens

\* The module of the proofs extends the one that the agent uses.
LEMMA SameTypes ==
  (Proved!TypeOK <=> Manager!TypeOK) /\ (Proved!TypeOK' <=> Manager!TypeOK')
BY DEF Proved!TypeOK, Proved!Creds, Proved!PCs, Proved!Results,
  Manager!TypeOK, Manager!Creds, Manager!PCs, Manager!Results

LEMMA SameSteps ==
  ASSUME NEW g \in Callers
  PROVE  /\ \A n : Manager!Begin(g, n) <=> Proved!Begin(g, n)
         /\ Manager!Check(g) <=> Proved!Check(g)
         /\ Manager!TakeGate(g) <=> Proved!TakeGate(g)
         /\ Manager!GiveUpGate(g) <=> Proved!GiveUpGate(g)
         /\ Manager!Recheck(g) <=> Proved!Recheck(g)
         /\ \A t : Manager!ProviderReturns(g, t) <=> Proved!ProviderReturns(g, t)
         /\ Manager!ProviderFails(g) <=> Proved!ProviderFails(g)
         /\ Manager!Publish(g) <=> Proved!Publish(g)
         /\ Manager!Release(g) <=> Proved!Release(g)
         /\ Manager!UseEnds(g) <=> Proved!UseEnds(g)
         /\ Manager!UseRefused(g) <=> Proved!UseRefused(g)
         /\ Manager!Reject(g) <=> Proved!Reject(g)
         /\ Manager!Return(g) <=> Proved!Return(g)
         /\ Manager!Invalidate <=> Proved!Invalidate
BY DEF Manager!Begin, Manager!Check, Manager!TakeGate, Manager!GiveUpGate, Manager!Recheck,
  Manager!ProviderReturns, Manager!ProviderFails, Manager!Publish, Manager!Release,
  Manager!UseEnds, Manager!UseRefused, Manager!Reject, Manager!Return, Manager!Invalidate,
  Manager!Goto, Manager!Finish, Manager!Deliver, Manager!GateFree, Manager!Usable,
  Manager!SameGeneration, Manager!FreeGate, Manager!Invalidated, Manager!Matches,
  Manager!InvalidateToken, Manager!mvars, Manager!cvars, Manager!hvars,
  Proved!Begin, Proved!Check, Proved!TakeGate, Proved!GiveUpGate, Proved!Recheck,
  Proved!ProviderReturns, Proved!ProviderFails, Proved!Publish, Proved!Release,
  Proved!UseEnds, Proved!UseRefused, Proved!Reject, Proved!Return, Proved!Invalidate,
  Proved!Goto, Proved!Finish, Proved!Deliver, Proved!GateFree, Proved!Usable,
  Proved!SameGeneration, Proved!FreeGate, Proved!Invalidated, Proved!Matches,
  Proved!InvalidateToken, Proved!mvars, Proved!cvars, Proved!hvars

LEMMA SameCache ==
  /\ Proved!Cache!Init <=> Manager!Cache!Init
  /\ [Proved!Cache!Next]_(Proved!Cache!vars) <=> [Manager!Cache!Next]_(Manager!Cache!vars)
<1>1. /\ Proved!CacheAsk = Manager!CacheAsk /\ Proved!CacheAnswer = Manager!CacheAnswer
      /\ Proved!CacheAsk' = Manager!CacheAsk' /\ Proved!CacheAnswer' = Manager!CacheAnswer'
  BY DEF Proved!CacheAsk, Proved!CacheAnswer, Proved!Asking,
    Manager!CacheAsk, Manager!CacheAnswer, Manager!Asking
<1>2. Proved!Cache!Init <=> Manager!Cache!Init
  BY <1>1 DEF Proved!Cache!Init, Manager!Cache!Init
<1>3. Proved!Cache!Next <=> Manager!Cache!Next
  BY <1>1 DEF Proved!Cache!Next, Proved!Cache!Ask, Proved!Cache!Answer, Proved!Cache!Obtain,
    Proved!Cache!Withdraw, Proved!Cache!Refuse, Proved!Cache!Drop, Proved!Cache!Dropped,
    Manager!Cache!Next, Manager!Cache!Ask, Manager!Cache!Answer, Manager!Cache!Obtain,
    Manager!Cache!Withdraw, Manager!Cache!Refuse, Manager!Cache!Drop, Manager!Cache!Dropped
<1>4. Proved!Cache!vars = Manager!Cache!vars /\ Proved!Cache!vars' = Manager!Cache!vars'
  BY <1>1 DEF Proved!Cache!vars, Manager!Cache!vars
<1>5. QED  BY <1>2, <1>3, <1>4

\* What g may do with the manager.
Calls(g) ==
  \/ Proved!Step(g) \/ Proved!GiveUpGate(g) \/ Proved!UseRefused(g)
  \/ \E n \in Limits : Proved!Begin(g, n)

LEMMA CredentialsUse ==
  ASSUME NEW g \in Callers, Credentials(g) PROVE Calls(g) \/ UNCHANGED tokenVars
<1> USE SameSteps DEF Calls, Proved!Step
<1>1. CASE ManagerStep(g)  BY <1>1 DEF ManagerStep
<1>2. CASE Use(g)  BY <1>2 DEF Use
<1>3. CASE Acquire(g)  BY <1>3 DEF Acquire
<1>4. CASE AcquireFails(g) \/ BrowserFails(g)
  BY <1>4 DEF AcquireFails, BrowserFails, Proved!Provider
<1>5. CASE BrowserSucceeds(g)
  <2>1. PICK a \in Users : Manager!ProviderReturns(g, a)  BY <1>5 DEF BrowserSucceeds
  <2>2. QED  BY <2>1 DEF Proved!Provider, Tokens
<1>6. QED  BY <1>1, <1>2, <1>3, <1>4, <1>5 DEF Credentials, Provide

LEMMA CommandUses ==
  ASSUME NEW c \in Cmds, Command(c) \/ \E j \in Requests : Submit(c, j)
  PROVE  Calls(c) \/ Proved!Invalidate \/ UNCHANGED tokenVars
BY SameSteps DEF Calls, Callers, Limits, Proved!Step, Command, LockCommand, CancelAgain, CancelAuth,
  Restart, LoginChanges, LoginFails, LoginSaves, LoginSaveFails, LoginGot, LoginStores, Logout,
  LogoutFails, Submit

LEMMA ConnectUses ==
  ASSUME NEW k \in Conns, Client(k) \/ Arrive(k) \/ Leave(k) \/ Departed(k)
  PROVE  Calls(k) \/ UNCHANGED tokenVars
BY SameSteps DEF Calls, Callers, Limits, Proved!Step, Client, Connected, TryAgain, Connect,
  AbandonBackoff, Failed, Arrive, Leave, Departed

LEMMA RecoveryUses ==
  ASSUME RecoveryStarts \/ Restore PROVE Calls(Recovery) \/ UNCHANGED tokenVars
BY SameSteps DEF Calls, Callers, Limits, Proved!Step, RecoveryStarts, Restore, RecoveryGot,
  RecoveryFailed, RecoveryWakes, RecoveryReady, RecoveryLeaves, Connected, TryAgain, Connect

\* Every step of the agent is one of the manager, or leaves it alone.
LEMMA ManagerUse ==
  ASSUME [Next]_vars
  PROVE  [Proved!Next]_(Proved!vars) \/ Proved!Invalidate
<1>1. (\E g \in Callers : Calls(g)) \/ Proved!Invalidate \/ UNCHANGED tokenVars
  <2>1. CASE UNCHANGED vars  BY <2>1 DEF vars
  <2>2. CASE Next
    <3>1. CASE \E g \in Callers : Credentials(g)  BY <3>1, CredentialsUse
    <3>2. CASE \E c \in Cmds : Command(c) \/ \E j \in Requests : Submit(c, j)
      BY <3>2, CommandUses DEF Callers
    <3>3. CASE \E k \in Conns : Client(k) \/ Arrive(k) \/ Leave(k) \/ Departed(k)
      BY <3>3, ConnectUses DEF Callers
    <3>4. CASE RecoveryStarts \/ Restore
      <4>1. Recovery \in Callers  BY DEF Callers
      <4>2. QED  BY <3>4, <4>1, RecoveryUses
    <3>5. QED  BY <2>2, <3>1, <3>2, <3>3, <3>4 DEF Next, Environment
  <2>3. QED  BY <2>1, <2>2
<1>2. ASSUME NEW g \in Callers, Calls(g) PROVE Proved!Next
  BY <1>2 DEF Calls, Proved!Next
<1>3. UNCHANGED tokenVars => UNCHANGED Proved!vars
  BY DEF tokenVars, Proved!vars, Proved!mvars, Proved!cvars, Proved!hvars
<1>4. QED  BY <1>1, <1>2, <1>3

LEMMA ManagerInit == Init => Proved!Init /\ Proved!IInv
<1>1. Manager!Init => Proved!Init  BY DEF Manager!Init, Proved!Init
<1>2. QED  BY <1>1, ManagerAssumptions, Proved!InitIInv DEF Init

LEMMA ManagerKeeps == ASSUME Proved!IInv, [Next]_vars PROVE Proved!IInv'
<1>1. Proved!IInv /\ [Proved!Next]_(Proved!vars) => Proved!IInv'
  BY ManagerAssumptions, Proved!StepIInv
<1>2. Proved!IInv /\ Proved!Invalidate => Proved!IInv'
  BY ManagerAssumptions, Proved!InvalidateIInv
<1>3. QED  BY <1>1, <1>2, ManagerUse

LEMMA ManagerInvariance == Spec => []Proved!IInv
  BY ManagerInit, ManagerKeeps, PTL DEF Spec

\* Logging in, out and restarting drop the agent's credentials, and nothing
\* that a session, a transfer, a retry or the recovery gets afterwards is older.
THEOREM FreshCredentials ==
  Spec => [](Manager!NoStaleCache /\ Manager!FreshAnswers /\ Manager!RetriesPresentNewer)
<1>1. Proved!IInv => Manager!NoStaleCache  BY DEF Proved!IInv, Proved!NoStaleCache, Manager!NoStaleCache
<1>2. Proved!IInv => Manager!FreshAnswers
  BY DEF Proved!IInv, Proved!TimeInv, Proved!Answered, Manager!FreshAnswers, Manager!Answered
<1>3. Proved!IInv => Manager!RetriesPresentNewer
  BY ManagerAssumptions DEF Proved!NoneAssumption, Proved!IInv, Proved!TypeOK, Proved!TimeInv,
    Proved!RefusalInv, Proved!CredInv, Proved!Answered, Proved!Creds, Manager!RetriesPresentNewer
<1>4. QED  BY <1>1, <1>2, <1>3, ManagerInvariance, PTL

\* To the goroutines of the agent its manager is the abstract cache, whatever
\* commands, clients and recovery do and however acquire ends.
THEOREM ManagerIsTheCache == Spec => Manager!ImplementsCache
<1>1. Init => Manager!Cache!Init
  BY ManagerInit, Proved!InitRefines, ManagerAssumptions, SameCache
<1>2. ASSUME Proved!IInv, [Next]_vars PROVE [Manager!Cache!Next]_(Manager!Cache!vars)
  <2>1. Proved!IInv /\ [Proved!Next]_(Proved!vars) => [Proved!Cache!Next]_(Proved!Cache!vars)
    BY ManagerAssumptions, Proved!StepRefines
  <2>2. Proved!IInv /\ Proved!Invalidate => Proved!Cache!Next
    BY ManagerAssumptions, Proved!InvalidateRefines
  <2>3. QED  BY <1>2, <2>1, <2>2, ManagerUse, SameCache
<1>3. QED
  BY <1>1, <1>2, ManagerInvariance, PTL DEF Spec, Manager!ImplementsCache, Manager!Cache!Spec

-----------------------------------------------------------------------------
(* The account and the locks *)

Holding == {"cancel", "body", "save", "get", "store"}    \* commandMu
LoggingIn == {"save", "get", "store"}                    \* for the account of the job

Asking == \A g \in Callers : pc[g] # "idle" <=> at[g] \in {"get", "connect"}

Commands ==
  \A c \in Cmds :
    /\ at[c] \in {"idle", "lock"} \cup Holding
    /\ at[c] \in Holding <=> commandMu = c
    /\ at[c] # "idle" => job[c] \in Jobs
    /\ at[c] \in LoggingIn => job[c].op = "login" /\ job[c].user = user /\ user # None

Browser ==
  /\ authOp = None => login = None
  /\ authOp # None => /\ pc[authOp] = "provider" /\ login \in Logins
                      /\ login.user = user /\ login.pass \in {None, user}

Stored == keyring \subseteq {user}

AccountInv == Asking /\ Commands /\ Browser /\ PasswordOnlyDuringLogin /\ Stored
IInv == Proved!IInv /\ TypeOK /\ AccountInv

LEMMA InitIInv == Init => IInv
<1> SUFFICES ASSUME Init PROVE IInv  OBVIOUS
<1>1. Proved!IInv  BY ManagerInit
<1>2. Manager!TypeOK  BY <1>1, SameTypes DEF Proved!IInv
<1>3. TypeOK
  <2>1. credentialStored \in {FALSE, remember /\ keyring # {}}  BY DEF Init
  <2>2. (remember /\ keyring # {}) \in BOOLEAN  OBVIOUS
  <2>3. credentialStored \in BOOLEAN  BY <2>1, <2>2, Zenon
  <2>4. QED  BY <1>2, <2>3, BoundsAssumption DEF Init, TypeOK, States, Profiles, Labels
<1>4. pc = [g \in Callers |-> "idle"]  BY DEF Init, Manager!Init
<1>5. AccountInv
  BY <1>4, ProcessAssumption DEF Init, AccountInv, Asking, Commands, Browser,
    PasswordOnlyDuringLogin, Stored, Profiles, Holding, LoggingIn, Callers
<1>6. QED  BY <1>1, <1>3, <1>5 DEF IInv

\* Steps of the manager that neither begin, return nor end the provider.
Between(g) ==
  \/ Manager!Check(g) \/ Manager!TakeGate(g) \/ Manager!GiveUpGate(g) \/ Manager!Recheck(g)
  \/ Manager!Publish(g) \/ Manager!Release(g) \/ Manager!Reject(g)
  \/ Manager!UseEnds(g) \/ Manager!UseRefused(g)

\* Where the manager's steps take a goroutine.
LEMMA PcSteps ==
  ASSUME NEW g \in Callers, Manager!TypeOK
  PROVE  /\ \A n : Manager!Begin(g, n) => pc[g] = "idle" /\ pc' = [pc EXCEPT ![g] = "check"]
         /\ Manager!Return(g) => pc[g] = "done" /\ pc' = [pc EXCEPT ![g] = "idle"]
         /\ Manager!ProviderFails(g) \/ (\E t : Manager!ProviderReturns(g, t)) =>
              pc[g] = "provider" /\ pc'[g] # "idle" /\ pc' = [pc EXCEPT ![g] = pc'[g]]
         /\ Between(g) =>
              /\ pc[g] \notin {"idle", "provider"}
              /\ pc'[g] # "idle" /\ pc' = [pc EXCEPT ![g] = pc'[g]]
         /\ Manager!Invalidate => pc' = pc
BY DEF Between, Manager!TypeOK, Manager!PCs, Manager!Begin, Manager!Check, Manager!TakeGate,
  Manager!GiveUpGate, Manager!Recheck, Manager!ProviderReturns, Manager!ProviderFails,
  Manager!Publish, Manager!Release, Manager!UseEnds, Manager!UseRefused, Manager!Reject,
  Manager!Return, Manager!Invalidate, Manager!Goto, Manager!Finish, Manager!Deliver,
  Manager!Invalidated, Manager!mvars, Manager!cvars, Manager!hvars

\* A step that moves g alone, and keeps it in the manager, or out of it, as its
\* label says.
Only(g) == \A h \in Callers \ {g} : at'[h] = at[h] /\ pc'[h] = pc[h]
InStep(g) == pc'[g] # "idle" <=> at'[g] \in {"get", "connect"}

LEMMA StillAsking ==
  ASSUME NEW g \in Callers, Asking, Only(g), InStep(g) PROVE Asking'
BY DEF Asking, Only, InStep

-----------------------------------------------------------------------------
(* Steps of a goroutine in the manager or in acquire *)

\* A login under way is left only as authOp is given back.
LEMMA CredentialsMove ==
  ASSUME TypeOK, Asking, NEW g \in Callers, Credentials(g)
  PROVE  /\ Only(g) /\ InStep(g) /\ at' = at
         /\ pc[g] = "provider" /\ pc'[g] # "provider" => authOp' = None
<1>0. Manager!TypeOK /\ pc \in [Callers -> Manager!PCs] /\ (pc[g] # "idle" <=> at[g] \in {"get", "connect"})
  BY DEF TypeOK, Manager!TypeOK, Asking
<1> USE <1>0 DEF Only, InStep
<1>1. CASE ManagerStep(g)  BY <1>1, PcSteps DEF ManagerStep, Between, agentVars, locals
<1>2. CASE Use(g)  BY <1>2, PcSteps DEF Use, Between
<1>3. CASE Acquire(g)  BY <1>3 DEF Acquire, tokenVars, locals
<1>4. CASE AcquireFails(g)  BY <1>4, PcSteps DEF AcquireFails, AuthOpFree, locks
<1>5. CASE BrowserSucceeds(g)
  <2>1. PICK a \in Users : Manager!ProviderReturns(g, a)  BY <1>5 DEF BrowserSucceeds
  <2>2. QED  BY <1>5, <2>1, PcSteps DEF BrowserSucceeds, LoginOver, locals
<1>6. CASE BrowserFails(g)  BY <1>6, PcSteps DEF BrowserFails, LoginOver
<1>7. QED  BY <1>1, <1>2, <1>3, <1>4, <1>5, <1>6 DEF Credentials, Provide

LEMMA CredentialsKeep ==
  ASSUME IInv, Manager!TypeOK', NEW g \in Callers, Credentials(g) PROVE TypeOK' /\ AccountInv'
<1>1. Only(g) /\ InStep(g) /\ at' = at /\ (pc[g] = "provider" /\ pc'[g] # "provider" => authOp' = None)
  BY CredentialsMove DEF IInv, AccountInv
<1>2. Asking'  BY <1>1, StillAsking DEF IInv, AccountInv
<1> USE <1>1, <1>2, ProcessAssumption DEF IInv, TypeOK, AccountInv, Commands, Browser,
    PasswordOnlyDuringLogin, Stored, Only, fields, stores, locks, locals, counts, Fails
<1>3. CASE ManagerStep(g)
  <2>1. authOp # None => pc'[authOp] = "provider"  BY <1>3 DEF ManagerStep, agentVars
  <2>2. QED  BY <1>3, <2>1 DEF ManagerStep, agentVars
<1>4. CASE Use(g)  BY <1>4 DEF Use
<1>5. CASE Acquire(g)
  <2>1. user \in Users /\ Lookup \in {None, user}  BY <1>5 DEF Acquire, Lookup, LoggingIn
  <2>2. login' \in Logins /\ login'.user = user /\ login'.pass \in {None, user}
    BY <1>5, <2>1 DEF Acquire, Logins
  <2>3. QED  BY <1>5, <2>2 DEF Acquire, AuthOpFree, States, tokenVars
<1>6. CASE AcquireFails(g)  BY <1>6 DEF AcquireFails, AuthOpFree, States
<1>7. CASE BrowserSucceeds(g)
  BY <1>7 DEF BrowserSucceeds, LoginOver, States, Profiles, Logins
<1>8. CASE BrowserFails(g)  BY <1>8 DEF BrowserFails, LoginOver, States
<1>9. QED  BY <1>3, <1>4, <1>5, <1>6, <1>7, <1>8 DEF Credentials, Provide

-----------------------------------------------------------------------------
(* Steps of a command *)

LEMMA CommandMoves ==
  ASSUME TypeOK, Asking, NEW c \in Cmds, Command(c) \/ \E j \in Requests : Submit(c, j)
  PROVE  Only(c) /\ InStep(c) /\ pc[c] # "provider"
<1>0. /\ c \in Callers /\ Manager!TypeOK /\ (pc[c] # "idle" <=> at[c] \in {"get", "connect"})
      /\ at \in [Callers -> Labels] /\ pc \in [Callers -> Manager!PCs]
  BY DEF Callers, TypeOK, Asking, Manager!TypeOK
<1> USE <1>0 DEF Only, InStep, Reply, Goto
<1>1. CASE CancelAgain(c) \/ LoginSaves(c) \/ LoginGot(c) \/ \E j \in Requests : Submit(c, j)
  BY <1>1, PcSteps DEF CancelAgain, CancelAuth, LoginSaves, LoginGot, Submit
<1>2. CASE \/ LockCommand(c) \/ Restart(c) \/ LoginChanges(c) \/ LoginFails(c)
           \/ LoginSaveFails(c) \/ LoginStores(c) \/ Logout(c) \/ LogoutFails(c)
  BY <1>2 DEF LockCommand, Restart, LoginChanges, LoginFails, LoginSaveFails, LoginStores,
    Logout, LogoutFails, tokenVars
<1>3. QED  BY <1>1, <1>2 DEF Command

LEMMA CommandTypes ==
  ASSUME IInv, Manager!TypeOK', NEW c \in Cmds, Command(c) \/ \E j \in Requests : Submit(c, j)
  PROVE  TypeOK'
<1>0. c \in Callers  BY DEF Callers
<1>1. at[c] \in Holding => job[c] \in Jobs
  BY DEF IInv, AccountInv, Commands, Holding
<1> USE <1>0, <1>1 DEF IInv, TypeOK, Labels, Holding, fields, stores, locks, locals, counts,
    tokenVars, Fails, Goto, Reply, Forget
<1>2. CASE LockCommand(c)  BY <1>2 DEF LockCommand, CommandFree
<1>3. CASE CancelAgain(c)  BY <1>3 DEF CancelAgain
<1>4. CASE Restart(c)  BY <1>4 DEF Restart
<1>5. CASE LoginChanges(c)
  <2>1. job[c].user \in Users /\ job[c].remember \in BOOLEAN  BY <1>5 DEF LoginChanges, Jobs
  <2>2. sso' \in [Profiles -> Users \cup {None}]  BY <1>5 DEF LoginChanges, Profiles
  <2>3. QED  BY <1>5, <2>1, <2>2 DEF LoginChanges, Account
<1>6. CASE LoginFails(c)  BY <1>6 DEF LoginFails
<1>7. CASE LoginSaves(c)  BY <1>7 DEF LoginSaves
<1>8. CASE LoginSaveFails(c)  BY <1>8 DEF LoginSaveFails
<1>9. CASE LoginGot(c)  BY <1>9 DEF LoginGot
<1>10. CASE LoginStores(c)
  <2>1. job[c].user \in Users  BY <1>10 DEF LoginStores, AccountInv, Commands, LoggingIn
  <2>2. keyring' \subseteq Users
    <3>1. keyring' = keyring \/ keyring' = keyring \cup (IF job[c].pass THEN {job[c].user} ELSE {})
      BY <1>10 DEF LoginStores
    <3>2. QED  BY <2>1, <3>1
  <2>3. credentialStored' \in BOOLEAN
    <3>1. credentialStored' = (job[c].user \in keyring') \/ credentialStored' = FALSE
      BY <1>10 DEF LoginStores
    <3>2. (job[c].user \in keyring') \in BOOLEAN  OBVIOUS
    <3>3. QED  BY <3>1, <3>2, Zenon
  <2>4. QED  BY <1>10, <2>2, <2>3 DEF LoginStores
<1>11. CASE Logout(c)  BY <1>11 DEF Logout, Account, States, Profiles
<1>12. CASE LogoutFails(c)  BY <1>12 DEF LogoutFails
<1>13. CASE \E j \in Requests : Submit(c, j)
  <2>1. PICK j \in Jobs : Submit(c, j)  BY <1>13, RequestsAssumption
  <2>2. job' \in [Cmds -> Jobs \cup {None}]  BY <2>1 DEF Submit
  <2>3. issued' \in 0 .. MaxCommands  BY <2>1, BoundsAssumption DEF Submit
  <2>4. QED  BY <2>1, <2>2, <2>3 DEF Submit
<1>14. QED
  BY <1>2, <1>3, <1>4, <1>5, <1>6, <1>7, <1>8, <1>9, <1>10, <1>11, <1>12, <1>13 DEF Command

\* Commands exclude each other by commandMu and change the account under
\* authOp, so no login runs meanwhile, and another account's password and
\* profile are gone before its name is.
LEMMA CommandKeeps ==
  ASSUME IInv, NEW c \in Cmds, Command(c) \/ \E j \in Requests : Submit(c, j)
  PROVE  AccountInv'
<1>1. /\ c \in Callers /\ Cmds \subseteq Callers /\ None \notin Callers /\ None \notin Users
      /\ Only(c) /\ InStep(c) /\ pc[c] # "provider"
  BY CommandMoves, ProcessAssumption DEF Callers, IInv, AccountInv
<1>2. Asking'  BY <1>1, StillAsking DEF IInv, AccountInv
<1>3. authOp # None => authOp \in Callers /\ pc'[authOp] = "provider"
  BY <1>1 DEF Only, IInv, AccountInv, Browser, TypeOK
<1> USE <1>1, <1>2, <1>3 DEF IInv, TypeOK, AccountInv, Commands, Browser, PasswordOnlyDuringLogin,
    Stored, Holding, LoggingIn, fields, stores, locks, locals, counts,
    AuthOpFree, LoginSwitches, Goto, Reply, Forget
<1>4. CASE LockCommand(c)  BY <1>4 DEF LockCommand, CommandFree
<1>5. CASE CancelAgain(c)  BY <1>5 DEF CancelAgain, CancelAuth
<1>6. CASE Restart(c)  BY <1>6 DEF Restart
<1>7. CASE LoginChanges(c)  BY <1>7 DEF LoginChanges, Account, Jobs, Profiles
<1>8. CASE LoginFails(c)  BY <1>8 DEF LoginFails
<1>9. CASE LoginSaves(c)  BY <1>9 DEF LoginSaves
<1>10. CASE LoginSaveFails(c)  BY <1>10 DEF LoginSaveFails
<1>11. CASE LoginGot(c)  BY <1>11 DEF LoginGot
<1>12. CASE LoginStores(c)  BY <1>12 DEF LoginStores
<1>13. CASE Logout(c)  BY <1>13 DEF Logout, Account, Profiles
<1>14. CASE LogoutFails(c)  BY <1>14 DEF LogoutFails
<1>15. CASE \E j \in Requests : Submit(c, j)  BY <1>15, RequestsAssumption DEF Submit
<1>16. QED
  BY <1>4, <1>5, <1>6, <1>7, <1>8, <1>9, <1>10, <1>11, <1>12, <1>13, <1>14, <1>15 DEF Command

-----------------------------------------------------------------------------
(* Steps of a client or of the recovery *)

\* They leave the account, the stores and the locks alone.
Elsewhere == UNCHANGED <<fields, stores, locks, job, issued>>

LEMMA ConnectMoves ==
  ASSUME TypeOK, Asking, NEW g \in Conns \cup {Recovery},
         Client(g) \/ (g \in Conns /\ (Arrive(g) \/ Leave(g) \/ Departed(g)))
  PROVE  Elsewhere /\ Only(g) /\ ((InStep(g) /\ pc[g] # "provider") \/ UNCHANGED <<at, pc>>)
<1>0. /\ g \in Callers /\ Manager!TypeOK /\ (pc[g] # "idle" <=> at[g] \in {"get", "connect"})
      /\ at \in [Callers -> Labels] /\ pc \in [Callers -> Manager!PCs]
  BY DEF Callers, TypeOK, Asking, Manager!TypeOK
<1> USE <1>0 DEF Elsewhere, Only, InStep, Goto, counts
<1>1. CASE Connected(g)  BY <1>1, PcSteps DEF Connected
<1>2. CASE TryAgain(g) \/ Arrive(g)  BY <1>2, PcSteps DEF TryAgain, Arrive, Connect
<1>3. CASE AbandonBackoff(g) \/ Failed(g) \/ Leave(g) \/ Departed(g)
  BY <1>3 DEF AbandonBackoff, Failed, Leave, Departed, tokenVars
<1>4. QED  BY <1>1, <1>2, <1>3 DEF Client

LEMMA ConnectTypes ==
  ASSUME IInv, Manager!TypeOK', Elsewhere, NEW g \in Conns \cup {Recovery},
         Client(g) \/ (g \in Conns /\ (Arrive(g) \/ Leave(g) \/ Departed(g)))
  PROVE  TypeOK'
<1>1. /\ state' \in States /\ spawned' \in Nat /\ at' \in [Callers -> Labels]
      /\ err' \in [Callers -> {"none", "transient", "fatal"}]
      /\ tries' \in [Callers -> Nat] /\ gone' \in [Conns -> BOOLEAN]
  <2>0. g \in Callers  BY DEF Callers
  <2> USE <2>0 DEF IInv, TypeOK, States, Labels, Goto, Fails, counts
  <2>1. CASE Connected(g)  BY <2>1 DEF Connected
  <2>2. CASE TryAgain(g) \/ Arrive(g)  BY <2>2 DEF TryAgain, Arrive, Connect
  <2>3. CASE AbandonBackoff(g) \/ Failed(g)  BY <2>3 DEF AbandonBackoff, Failed
  <2>4. CASE Leave(g) \/ Departed(g)  BY <2>4 DEF Leave, Departed
  <2>5. QED  BY <2>1, <2>2, <2>3, <2>4 DEF Client
<1>2. QED  BY <1>1 DEF Elsewhere, IInv, TypeOK, fields, stores, locks

LEMMA RecoveryMoves ==
  ASSUME TypeOK, Asking, 
         RecoveryStarts \/ RecoveryGot \/ RecoveryFailed \/ RecoveryWakes \/ RecoveryReady \/ RecoveryLeaves
  PROVE  /\ Elsewhere /\ Only(Recovery)
         /\ (InStep(Recovery) /\ pc[Recovery] # "provider") \/ UNCHANGED <<at, pc>>
<1>0. /\ Recovery \in Callers /\ Manager!TypeOK
      /\ pc[Recovery] # "idle" <=> at[Recovery] \in {"get", "connect"}
      /\ at \in [Callers -> Labels] /\ pc \in [Callers -> Manager!PCs]
  BY DEF Callers, TypeOK, Asking, Manager!TypeOK
<1> USE <1>0 DEF Elsewhere, Only, InStep, Goto, counts, RetryOrStop
<1>1. CASE RecoveryStarts \/ RecoveryWakes
  BY <1>1, PcSteps DEF RecoveryStarts, RecoveryWakes, tokenVars
<1>2. CASE RecoveryGot  BY <1>2, PcSteps DEF RecoveryGot
<1>3. CASE RecoveryFailed \/ RecoveryReady \/ RecoveryLeaves
  BY <1>3 DEF RecoveryFailed, RecoveryReady, RecoveryLeaves, tokenVars
<1>4. QED  BY <1>1, <1>2, <1>3

LEMMA RecoveryTypes ==
  ASSUME IInv, Manager!TypeOK', Elsewhere,
         RecoveryStarts \/ RecoveryGot \/ RecoveryFailed \/ RecoveryWakes \/ RecoveryReady \/ RecoveryLeaves
  PROVE  TypeOK'
<1>1. /\ state' \in States /\ spawned' \in Nat /\ at' \in [Callers -> Labels]
      /\ err' \in [Callers -> {"none", "transient", "fatal"}] /\ UNCHANGED <<tries, gone>>
  <2> USE DEF IInv, TypeOK, States, Labels, Goto, Fails, counts, RetryOrStop
  <2>1. CASE RecoveryStarts  BY <2>1 DEF RecoveryStarts, Due
  <2>2. CASE RecoveryGot \/ RecoveryFailed  BY <2>2 DEF RecoveryGot, RecoveryFailed
  <2>3. CASE RecoveryWakes \/ RecoveryReady \/ RecoveryLeaves
    BY <2>3 DEF RecoveryWakes, RecoveryReady, RecoveryLeaves
  <2>4. QED  BY <2>1, <2>2, <2>3
<1>2. QED  BY <1>1 DEF Elsewhere, IInv, TypeOK, fields, stores, locks

\* What leaves the account, the stores and the locks alone keeps the invariant.
LEMMA ElsewhereKeeps ==
  ASSUME IInv, Elsewhere, NEW g \in Callers \ Cmds, Only(g),
         (InStep(g) /\ pc[g] # "provider") \/ UNCHANGED <<at, pc>>
  PROVE  AccountInv'
<1> USE DEF IInv, AccountInv, Elsewhere, fields, stores, locks
<1>1. Asking'  BY StillAsking DEF Asking
<1>2. \A c \in Cmds : at'[c] = at[c]  BY DEF Only, Callers
<1>3. Commands'  BY <1>2 DEF Commands
<1>4. Browser'
  <2>1. authOp # None => pc'[authOp] = "provider"  BY DEF Browser, Only, TypeOK
  <2>2. QED  BY <2>1 DEF Browser
<1>5. PasswordOnlyDuringLogin'  BY <1>2 DEF PasswordOnlyDuringLogin
<1>6. Stored'  BY DEF Stored
<1>7. QED  BY <1>1, <1>3, <1>4, <1>5, <1>6

-----------------------------------------------------------------------------
LEMMA StepIInv == ASSUME IInv, [Next]_vars PROVE IInv'
<1>0. Proved!IInv' /\ Manager!TypeOK'
  BY ManagerKeeps, SameTypes DEF IInv, Proved!IInv
<1>1. CASE UNCHANGED vars
  BY <1>0, <1>1 DEF vars, tokenVars, agentVars, fields, stores, locks, locals, counts, IInv, TypeOK,
    AccountInv, Asking, Commands, Browser, PasswordOnlyDuringLogin, Stored
<1>2. ASSUME NEW g \in Callers, Credentials(g) PROVE IInv'
  BY <1>0, <1>2, CredentialsKeep DEF IInv
<1>3. ASSUME NEW c \in Cmds, Command(c) \/ \E j \in Requests : Submit(c, j) PROVE IInv'
  BY <1>0, <1>3, CommandTypes, CommandKeeps DEF IInv
<1>4. ASSUME NEW g \in Conns \cup {Recovery},
             Client(g) \/ (g \in Conns /\ (Arrive(g) \/ Leave(g) \/ Departed(g)))
      PROVE  IInv'
  <2>1. g \in Callers \ Cmds  BY ProcessAssumption DEF Callers
  <2>2. Elsewhere /\ Only(g) /\ ((InStep(g) /\ pc[g] # "provider") \/ UNCHANGED <<at, pc>>)
    BY <1>4, ConnectMoves DEF IInv, AccountInv
  <2>3. QED  BY <1>0, <1>4, <2>1, <2>2, ConnectTypes, ElsewhereKeeps DEF IInv
<1>5. CASE RecoveryStarts \/ RecoveryGot \/ RecoveryFailed \/ RecoveryWakes \/ RecoveryReady \/ RecoveryLeaves
  <2>1. Recovery \in Callers \ Cmds  BY ProcessAssumption DEF Callers
  <2>2. /\ Elsewhere /\ Only(Recovery)
        /\ (InStep(Recovery) /\ pc[Recovery] # "provider") \/ UNCHANGED <<at, pc>>
    BY <1>5, RecoveryMoves DEF IInv, AccountInv
  <2>3. QED  BY <1>0, <1>5, <2>1, <2>2, RecoveryTypes, ElsewhereKeeps DEF IInv
<1>6. CASE Restore
  <2>1. CASE Client(Recovery)  BY <1>4, <2>1
  <2>2. Connected(Recovery) \/ TryAgain(Recovery) => Client(Recovery)  BY DEF Client
  <2>3. QED  BY <1>5, <1>6, <2>1, <2>2 DEF Restore
<1>7. CASE Next
  <2>1. CASE \E k \in Conns : Client(k) \/ Arrive(k) \/ Leave(k) \/ Departed(k)  BY <1>4, <2>1
  <2>2. QED  BY <1>2, <1>3, <1>5, <1>6, <1>7, <2>1 DEF Next, Environment
<1>8. QED  BY <1>1, <1>7

LEMMA Invariance == Spec => []IInv
  BY InitIInv, StepIInv, PTL DEF Spec

\* Every variable keeps its type; what is left of a restoration is never
\* negative.
THEOREM TypeCorrect == Spec => []TypeOK
<1>1. IInv => TypeOK  BY DEF IInv
<1>2. QED  BY <1>1, Invariance, PTL

\* A running browser login was told the configured account and nothing of
\* another one, whatever commands wait or fail meanwhile.
THEOREM BrowserLogsInTheAccount == Spec => []LoginForTheAccount
<1>1. IInv => LoginForTheAccount
  BY DEF IInv, AccountInv, Browser, LoginForTheAccount
<1>2. QED  BY <1>1, Invariance, PTL

\* The password given to login does not outlive its command.
THEOREM PasswordIsForgotten == Spec => []PasswordOnlyDuringLogin
<1>1. IInv => PasswordOnlyDuringLogin  BY DEF IInv, AccountInv
<1>2. QED  BY <1>1, Invariance, PTL

\* A step of acquire or of a command puts no session but the configured account's
\* into the main profile, and one that drops the account leaves none there.
LEMMA ProfileStep ==
  ASSUME IInv, [Next]_vars
  PROVE  /\ sso'["main"] \in {sso["main"], None, user'}
         /\ user \notin {None, user'} => sso'["main"] = None
<1> USE DEF fields, stores
<1>1. CASE UNCHANGED vars  BY <1>1 DEF vars, agentVars
<1>2. ASSUME NEW g \in Callers, Credentials(g)
      PROVE  user' = user /\ sso'["main"] \in {sso["main"], user}
  <2>1. CASE BrowserSucceeds(g)
    <3>1. login.user = user
      BY <2>1, ProcessAssumption DEF BrowserSucceeds, IInv, AccountInv, Browser, Callers
    <3>2. PICK p \in Profiles, a \in Users : a \in {user, sso[p]} /\ sso' = [sso EXCEPT ![p] = a]
      BY <2>1, <3>1 DEF BrowserSucceeds
    <3>3. "main" \in DOMAIN sso  BY DEF IInv, TypeOK, Profiles
    <3>4. QED  BY <2>1, <3>2, <3>3 DEF BrowserSucceeds
  <2>2. CASE ManagerStep(g) \/ Use(g) \/ Acquire(g) \/ AcquireFails(g) \/ BrowserFails(g)
    BY <2>2 DEF ManagerStep, agentVars, Use, Acquire, AcquireFails, BrowserFails
  <2>3. QED  BY <1>2, <2>1, <2>2 DEF Credentials, Provide
<1>3. ASSUME NEW c \in Cmds, Command(c)
      PROVE  /\ sso'["main"] \in {sso["main"], None, user'}
             /\ user \notin {None, user'} => sso'["main"] = None
  <2>0. "main" \in DOMAIN sso  BY DEF IInv, TypeOK, Profiles
  <2>1. CASE LoginChanges(c)  BY <2>0, <2>1 DEF LoginChanges, LoginSwitches, Account
  <2>2. CASE Logout(c)  BY <2>0, <2>2 DEF Logout, Account
  <2>3. CASE \/ LockCommand(c) \/ CancelAgain(c) \/ Restart(c) \/ LoginFails(c) \/ LoginSaves(c)
             \/ LoginSaveFails(c) \/ LoginGot(c) \/ LoginStores(c) \/ LogoutFails(c)
    BY <2>3 DEF LockCommand, CancelAgain, Restart, LoginFails, LoginSaves, LoginSaveFails, LoginGot,
      LoginStores, LogoutFails
  <2>4. QED  BY <1>3, <2>1, <2>2, <2>3 DEF Command
<1>4. ASSUME NEW c \in Cmds, NEW j \in Requests, Submit(c, j) PROVE UNCHANGED <<user, sso>>
  BY <1>4 DEF Submit
<1>5. ASSUME NEW g \in Conns \cup {Recovery},
             Client(g) \/ (g \in Conns /\ (Arrive(g) \/ Leave(g) \/ Departed(g)))
      PROVE  UNCHANGED <<user, sso>>
  BY <1>5, ConnectMoves DEF IInv, AccountInv, Elsewhere
<1>6. CASE RecoveryStarts \/ RecoveryGot \/ RecoveryFailed \/ RecoveryWakes \/ RecoveryReady \/ RecoveryLeaves
  BY <1>6, RecoveryMoves DEF IInv, AccountInv, Elsewhere
<1>7. CASE Restore
  <2>1. CASE Client(Recovery)  BY <1>5, <2>1
  <2>2. Connected(Recovery) \/ TryAgain(Recovery) => Client(Recovery)  BY DEF Client
  <2>3. QED  BY <1>6, <1>7, <2>1, <2>2 DEF Restore
<1>8. CASE Next
  <2>1. CASE \E k \in Conns : Client(k) \/ Arrive(k) \/ Leave(k) \/ Departed(k)  BY <1>5, <2>1
  <2>2. QED  BY <1>2, <1>3, <1>4, <1>6, <1>7, <1>8, <2>1 DEF Next, Environment
<1>9. QED  BY <1>1, <1>8

\* Whatever session an earlier run left: the password store is the configured
\* account's, a switch or a logout leaves the main profile empty, and no login in
\* flight puts another account's session into it.
THEOREM NoOtherAccount == Spec => StoresKeepToTheAccount
<1>1. ASSUME IInv, [Next]_vars
      PROVE  [/\ keyring' \subseteq {user'}
              /\ sso'["main"] \in {sso["main"], None, user'}
              /\ user \notin {None, user'} => sso'["main"] = None]_vars
  BY <1>1, StepIInv, ProfileStep DEF IInv, AccountInv, Stored
<1>2. QED  BY <1>1, Invariance, PTL DEF Spec, StoresKeepToTheAccount

\* commandMu, gate and authOp are taken in this order only.
THEOREM LocksInOrder == Spec => []LockOrder
<1>1. ASSUME IInv PROVE LockOrder
  <2>1. authOp # None => gate = authOp
    BY <1>1 DEF IInv, TypeOK, AccountInv, Browser, Proved!IInv, Proved!GateInv, Proved!Gated
  <2>2. ASSUME gate \in Cmds PROVE commandMu = gate
    <3>1. gate \in Callers /\ pc[gate] # "idle"
      BY <1>1, <2>2 DEF IInv, Callers, Proved!IInv, Proved!GateInv, Proved!Gated
    <3>2. at[gate] \in {"get", "connect"}
      BY <1>1, <3>1 DEF IInv, AccountInv, Asking
    <3>3. QED  BY <1>1, <2>2, <3>2 DEF IInv, AccountInv, Commands, Holding
  <2>3. QED  BY <2>1, <2>2 DEF LockOrder
<1>2. QED  BY <1>1, Invariance, PTL
=============================================================================
