------------------------------- MODULE Agent -------------------------------
(***************************************************************************)
(* The background agent (internal/agent/agent.go) between its start and    *)
(* its stop: IPC commands that change the account, SSH sessions and        *)
(* transfers that connect to the WebShell, and the goroutine that restores *)
(* the connection, all on one auth.Manager whose provider is acquire.      *)
(*                                                                         *)
(* Goroutines are the callers of TokenManager: the IPC handlers Cmds, the  *)
(* clients Conns that call Agent.connect, and Recovery, the one instance   *)
(* of restoreConnection that holds recoveryMu.  A token is the account it  *)
(* logs in.  Sections under Agent.mu are steps; what happens under authOp  *)
(* alone, which every reader of it takes, is one step with its outcomes.   *)
(* Passwords are named by the account they belong to.  Left out: the agent *)
(* stops, nodes, settings, and cancelling a login (a running one may fail  *)
(* at any time anyway).                                                    *)
(***************************************************************************)
EXTENDS Integers

CONSTANTS Cmds, Conns, Recovery,   \* goroutines
          Users, None,             \* accounts; None is "" or nobody
          ConnectLimit,            \* attempts of Manager.Connect (3)
          Tries,                   \* attempts of connectWithRetries (4)
          MaxGeneration,           \* bound: no refusal beyond it
          Requests,                \* the commands that may be issued
          MaxCommands,             \* bound: IPC commands issued
          MaxSpawned               \* bound: no client arrives while so many
                                   \* restoreConnections are yet to start

Callers == Cmds \cup Conns \cup {Recovery}
Tokens == Users
Limits == {0, ConnectLimit}

Jobs == [op : {"login"}, user : Users \cup {None}, remember : BOOLEAN, pass : BOOLEAN]
        \cup [op : {"logout", "restart"}]

ASSUME ProcessAssumption ==
  /\ Cmds \cap Conns = {} /\ Recovery \notin Cmds \cup Conns
  /\ None \notin Callers \cup Users \cup [tok : Users, born : Nat]
ASSUME RequestsAssumption == Requests \subseteq Jobs
ASSUME TriesAssumption == ConnectLimit \in Nat \ {0} /\ Tries \in Nat \ {0}
ASSUME BoundsAssumption == MaxGeneration \in Nat /\ MaxCommands \in Nat

VARIABLES cached, generation, gate, pc, left, seen, cred, res,
          asked, refused, loggedIn

tokenVars == <<cached, generation, gate, pc, left, seen, cred, res,
               asked, refused, loggedIn>>

Manager == INSTANCE TokenManager

VARIABLES user, remember, password, credentialStored, state,  \* of Agent
          commandMu, authOp,    \* holders; recoveryMu is at[Recovery] # "idle"
          keyring, sso,         \* the password store, the browser profiles
          login,                \* what the running browser login was told
          at, job, err, tries, gone,                          \* locals
          spawned, issued       \* restoreConnections to start, commands so far

fields == <<user, remember, password, credentialStored>>
stores == <<keyring, sso>>
locks == <<commandMu, authOp, login>>
locals == <<at, job, err, tries, gone>>
counts == <<spawned, issued>>
agentVars == <<fields, state, stores, locks, locals, counts>>
vars == <<tokenVars, agentVars>>

Profiles == {"main", "recovery"}
States == {"AUTH_REQUIRED", "AUTHENTICATING", "READY", "ERROR"}
Logins == [user : Users, pass : Users \cup {None}]
Labels == {"idle", "lock", "cancel", "body", "save", "get", "store",
           "connect", "dial", "failed", "ready", "leave", "sleep"}

TypeOK ==
  /\ Manager!TypeOK
  /\ user \in Users \cup {None} /\ remember \in BOOLEAN
  /\ password \in Users \cup {None} /\ credentialStored \in BOOLEAN
  /\ state \in States
  /\ commandMu \in Cmds \cup {None} /\ authOp \in Callers \cup {None}
  /\ keyring \subseteq Users /\ sso \in [Profiles -> Users \cup {None}]
  /\ login \in Logins \cup {None}
  /\ at \in [Callers -> Labels]
  /\ job \in [Cmds -> Jobs \cup {None}]
  /\ err \in [Callers -> {"none", "transient", "fatal"}]
  /\ tries \in [Callers -> Nat] /\ gone \in [Conns -> BOOLEAN]
  /\ spawned \in Nat /\ issued \in 0 .. MaxCommands

\* After Run's setState(AUTH_REQUIRED): config, keyring and browser profiles as
\* an earlier run left them, and one restoreConnection when an account is
\* configured.  The password store has at most the saved account's password
\* (AgentConfig, KeyringIsTheSaved), be it remembered or not.  A profile may
\* have any account's session: when a login's config.Save failed, what it logged
\* in stays there, and the next start has the account before it.
Init ==
  /\ Manager!Init
  /\ user \in Users \cup {None} /\ remember \in BOOLEAN
  /\ user = None => ~remember
  /\ keyring \in SUBSET (Users \cap {user})
  /\ credentialStored \in {FALSE, remember /\ keyring # {}}
  /\ sso \in [Profiles -> Users \cup {None}]
  /\ password = None /\ state = "AUTH_REQUIRED" /\ login = None
  /\ commandMu = None /\ authOp = None
  /\ at = [g \in Callers |-> "idle"]
  /\ job = [c \in Cmds |-> None]
  /\ err = [g \in Callers |-> "none"]
  /\ tries = [g \in Callers |-> 0]
  /\ gone = [k \in Conns |-> FALSE]
  /\ spawned = (IF user = None THEN 0 ELSE 1)
  /\ issued = 0

Goto(g, l) == at' = [at EXCEPT ![g] = l]
Fails(g, e) == err' = [err EXCEPT ![g] = e]

-----------------------------------------------------------------------------
(* The manager's own steps, and acquire, its provider *)

\* WEBSOCKET_FAILED is transient, a bad node or a cancelled dial is not.
Use(g) ==
  /\ \/ /\ Manager!UseEnds(g)
        /\ \E e \in {"transient", "fatal"} : Fails(g, e)
     \/ /\ generation < MaxGeneration
        /\ Manager!UseRefused(g) /\ UNCHANGED err
  /\ UNCHANGED <<fields, state, stores, locks, at, job, tries, gone, counts>>

ManagerStep(g) ==
  /\ \/ Manager!Check(g) \/ Manager!TakeGate(g) \/ Manager!Recheck(g)
     \/ Manager!Publish(g) \/ Manager!Release(g) \/ Manager!Reject(g)
     \/ /\ g \in Conns /\ gone[g]
        /\ Manager!GiveUpGate(g)
  /\ UNCHANGED agentVars

\* acquire gets authOp and copies the account before anybody changes it.
AuthOpIgnored == TRUE      \* wrong: authOp is not taken
AuthOpFree == authOp = None

Lookup == IF password # None THEN password
          ELSE IF remember /\ user \in keyring THEN user ELSE None

Acquire(g) ==
  /\ pc[g] = "provider" /\ AuthOpFree /\ user # None
  /\ authOp' = g
  /\ login' = [user |-> user, pass |-> Lookup]
  /\ state' = "AUTHENTICATING"
  /\ UNCHANGED <<tokenVars, fields, stores, commandMu, locals, counts>>

\* No account, or the password store fails: acquire returns at once.
AcquireFails(g) ==
  /\ pc[g] = "provider" /\ AuthOpFree
  /\ \/ user = None /\ UNCHANGED state
     \/ user # None /\ password = None /\ remember /\ state' = "ERROR"
  /\ Manager!ProviderFails(g)
  /\ Fails(g, "fatal")
  /\ UNCHANGED <<fields, stores, locks, at, job, tries, gone, counts>>

KeepsAuthOp == UNCHANGED <<authOp, login>>     \* wrong: authOp stays taken
LoginOver == authOp' = None /\ login' = None

\* browser.Login.Acquire captures the token of the session that its profile
\* has, or logs in the account it was told; a second profile takes over when
\* the browser cannot be controlled.  The profile keeps the session.
BrowserSucceeds(g) ==
  /\ pc[g] = "provider" /\ authOp = g
  /\ \E p \in Profiles, a \in Users :
       /\ a \in {login.user, sso[p]}
       /\ sso' = [sso EXCEPT ![p] = a]
       /\ Manager!ProviderReturns(g, a)
  /\ state' = "READY"
  /\ LoginOver
  /\ UNCHANGED <<fields, keyring, commandMu, locals, counts>>

BrowserFails(g) ==
  /\ pc[g] = "provider" /\ authOp = g
  /\ Manager!ProviderFails(g)
  /\ \E e \in {"transient", "fatal"} : Fails(g, e)
  /\ state' = "AUTH_REQUIRED"
  /\ LoginOver
  /\ UNCHANGED <<fields, stores, commandMu, at, job, tries, gone, counts>>

-----------------------------------------------------------------------------
(* connectWithRetries, connect and restoreConnection *)

Reconnectable(g) ==
  res[g] = "unauthorized" \/ (res[g] = "failed" /\ err[g] = "transient")

\* Wrong: the attempts are not counted.
ConnectForever(g) ==
  /\ Manager!Begin(g, ConnectLimit)
  /\ Goto(g, "connect")
  /\ UNCHANGED tries

Connect(g) ==
  /\ Manager!Begin(g, ConnectLimit)
  /\ Goto(g, "connect")
  /\ tries' = [tries EXCEPT ![g] = @ + 1]

\* Manager.Connect returned: READY, another try after a delay, or the error.
Connected(g) ==
  /\ at[g] = "connect" /\ pc[g] = "done"
  /\ Manager!Return(g)
  /\ \/ /\ res[g] = "accepted" /\ state' = "READY"
        /\ Goto(g, IF g = Recovery THEN "ready" ELSE "idle")
        /\ tries' = [tries EXCEPT ![g] = 0] /\ Fails(g, "none")
     \/ /\ Reconnectable(g) /\ tries[g] < Tries /\ state' = "AUTHENTICATING"
        /\ Goto(g, "dial") /\ Fails(g, "none") /\ UNCHANGED tries
     \/ /\ Reconnectable(g) /\ tries[g] = Tries /\ state' = "ERROR"
        /\ Goto(g, "failed") /\ Fails(g, "transient")
        /\ tries' = [tries EXCEPT ![g] = 0]
     \/ /\ res[g] # "accepted" /\ ~Reconnectable(g) /\ UNCHANGED state
        /\ Goto(g, "failed") /\ Fails(g, "fatal")
        /\ tries' = [tries EXCEPT ![g] = 0]
  /\ UNCHANGED <<fields, stores, locks, job, gone, counts>>

TryAgain(g) ==
  /\ at[g] = "dial"
  /\ Connect(g)
  /\ UNCHANGED <<fields, state, stores, locks, job, err, gone, counts>>

\* A client (an SSH session, a transfer, check-webshell) calls connect.
Arrive(k) ==
  /\ at[k] = "idle" /\ ~gone[k] /\ spawned < MaxSpawned
  /\ Connect(k)
  /\ UNCHANGED <<fields, state, stores, locks, job, err, gone, counts>>

\* Its context ends: the client leaves or DisconnectAll closes its socket.
Leave(k) ==
  /\ at[k] # "idle" /\ ~gone[k]
  /\ gone' = [gone EXCEPT ![k] = TRUE]
  /\ UNCHANGED <<tokenVars, fields, state, stores, locks, at, job, err, tries, counts>>

\* ctx.Done during the delay: connectWithRetries returns at once.
AbandonBackoff(k) ==
  /\ at[k] = "dial" /\ gone[k]
  /\ Goto(k, "idle")
  /\ tries' = [tries EXCEPT ![k] = 0]
  /\ UNCHANGED <<tokenVars, fields, state, stores, locks, job, err, gone, counts>>

\* connect failed for a client that is still there: restore in background.
Failed(k) ==
  /\ at[k] = "failed"
  /\ spawned' = spawned + (IF err[k] = "transient" /\ ~gone[k] THEN 1 ELSE 0)
  /\ Goto(k, "idle") /\ Fails(k, "none")
  /\ UNCHANGED <<tokenVars, fields, state, stores, locks, job, tries, gone, issued>>

\* The next client.
Departed(k) ==
  /\ at[k] = "idle" /\ gone[k]
  /\ gone' = [gone EXCEPT ![k] = FALSE]
  /\ UNCHANGED <<tokenVars, fields, state, stores, locks, at, job, err, tries, counts>>
AlwaysDue == TRUE          \* wrong: nobody called restoreConnection
Due == spawned > 0

\* A restoreConnection starts: it returns if another one holds recoveryMu.
RecoveryStarts ==
  /\ Due
  /\ spawned' = spawned - 1
  /\ IF at[Recovery] = "idle"
       THEN Manager!Begin(Recovery, 0) /\ Goto(Recovery, "get")
       ELSE UNCHANGED <<tokenVars, at>>
  /\ UNCHANGED <<fields, state, stores, locks, job, err, tries, gone, issued>>

\* tokens.Get failed, or the connection did: retry later or give up.
RetryOrStop(transient) ==
  IF transient THEN state' = "ERROR" /\ Goto(Recovery, "sleep")
               ELSE Goto(Recovery, "idle") /\ UNCHANGED state

RecoveryGot ==
  /\ at[Recovery] = "get" /\ pc[Recovery] = "done"
  /\ Manager!Return(Recovery)
  /\ IF res[Recovery] = "token"
       THEN Goto(Recovery, "dial") /\ UNCHANGED state
       ELSE RetryOrStop(Reconnectable(Recovery))
  /\ Fails(Recovery, "none")
  /\ UNCHANGED <<fields, stores, locks, job, tries, gone, counts>>

RecoveryFailed ==
  /\ at[Recovery] = "failed"
  /\ RetryOrStop(err[Recovery] = "transient")
  /\ Fails(Recovery, "none")
  /\ UNCHANGED <<tokenVars, fields, stores, locks, job, tries, gone, counts>>

RecoveryWakes ==
  /\ at[Recovery] = "sleep"
  /\ Manager!Begin(Recovery, 0)
  /\ Goto(Recovery, "get")
  /\ UNCHANGED <<fields, state, stores, locks, job, err, tries, gone, counts>>

\* The test session is closed, READY is set once more, recoveryMu is freed.
RecoveryReady ==
  /\ at[Recovery] = "ready"
  /\ state' = "READY"
  /\ Goto(Recovery, "leave")
  /\ UNCHANGED <<tokenVars, fields, stores, locks, job, err, tries, gone, counts>>

RecoveryLeaves ==
  /\ at[Recovery] = "leave"
  /\ Goto(Recovery, "idle")
  /\ UNCHANGED <<tokenVars, fields, state, stores, locks, job, err, tries, gone, counts>>

-----------------------------------------------------------------------------
(* handle: login, logout, restart.  cancelAuth runs before and after the  *)
(* command waits for commandMu                                            *)

CancelAuth == Manager!Invalidate

Submit(c, j) ==
  /\ at[c] = "idle" /\ issued < MaxCommands
  /\ CancelAuth
  /\ Goto(c, "lock")
  /\ job' = [job EXCEPT ![c] = j]
  /\ issued' = issued + 1
  /\ UNCHANGED <<fields, state, stores, locks, err, tries, gone, spawned>>

CommandIgnored == TRUE     \* wrong: commands do not exclude each other
CommandFree == commandMu = None

LockCommand(c) ==
  /\ at[c] = "lock" /\ CommandFree
  /\ commandMu' = c
  /\ Goto(c, "cancel")
  /\ UNCHANGED <<tokenVars, fields, state, stores, authOp, login, job, err, tries, gone, counts>>

CancelAgain(c) ==
  /\ at[c] = "cancel"
  /\ CancelAuth
  /\ Goto(c, "body")
  /\ UNCHANGED <<fields, state, stores, locks, job, err, tries, gone, counts>>

\* Wrong: restart keeps commandMu.
ReplyLocked(c) ==
  /\ Goto(c, "idle")
  /\ commandMu' = IF job[c].op = "restart" THEN commandMu ELSE None
  /\ job' = [job EXCEPT ![c] = None]

\* The handler replies: its deferred functions clear a login's password and
\* free commandMu.
Reply(c) ==
  /\ Goto(c, "idle")
  /\ commandMu' = None
  /\ job' = [job EXCEPT ![c] = None]

ForgetLater == UNCHANGED password     \* wrong: the password is kept
Forget == password' = None

Restart(c) ==
  /\ at[c] = "body" /\ job[c].op = "restart"
  /\ spawned' = spawned + 1
  /\ Reply(c)
  /\ UNCHANGED <<tokenVars, fields, state, stores, authOp, login, err, tries, gone, issued>>

Account(u, r, p) == user' = u /\ remember' = r /\ password' = p

\* Wrong: the saved password and the profile go when the account stays.
LoginStays(c) == user # None /\ user = job[c].user

\* login under authOp.  Another account's saved password and browser profile
\* go first; a failure ends the command there.
LoginSwitches(c) == user # None /\ user # job[c].user

LoginChanges(c) ==
  /\ at[c] = "body" /\ job[c].op = "login" /\ AuthOpFree /\ job[c].user # None
  /\ Account(job[c].user, job[c].remember, IF job[c].pass THEN job[c].user ELSE None)
  /\ IF LoginSwitches(c)
       THEN /\ keyring' = keyring \ {user} /\ credentialStored' = FALSE
            /\ sso' = [sso EXCEPT !["main"] = None]
       ELSE UNCHANGED <<keyring, credentialStored, sso>>
  /\ Goto(c, "save")
  /\ UNCHANGED <<tokenVars, state, locks, job, err, tries, gone, counts>>

LoginFails(c) ==
  /\ at[c] = "body" /\ job[c].op = "login" /\ AuthOpFree
  /\ \/ /\ job[c].user = None \/ LoginSwitches(c)   \* nothing given, or Delete fails
        /\ UNCHANGED <<keyring, credentialStored>>
     \/ /\ job[c].user # None /\ LoginSwitches(c)    \* RemoveAll fails
        /\ keyring' = keyring \ {user} /\ credentialStored' = FALSE
  /\ Forget /\ Reply(c)
  /\ UNCHANGED <<tokenVars, user, remember, state, sso, authOp, login, err, tries, gone, counts>>

\* config.Save, and the password that is not to be remembered is deleted;
\* either may fail.
LoginSaves(c) ==
  /\ at[c] = "save"
  /\ IF job[c].remember
       THEN UNCHANGED <<keyring, credentialStored>>
       ELSE keyring' = keyring \ {job[c].user} /\ credentialStored' = FALSE
  /\ Manager!Begin(c, 0)
  /\ Goto(c, "get")
  /\ UNCHANGED <<user, remember, password, state, sso, locks, job, err, tries, gone, counts>>

LoginSaveFails(c) ==
  /\ at[c] = "save"
  /\ Forget /\ Reply(c)
  /\ UNCHANGED <<tokenVars, user, remember, credentialStored, state, stores,
                 authOp, login, err, tries, gone, counts>>

LoginGot(c) ==
  /\ at[c] = "get" /\ pc[c] = "done"
  /\ Manager!Return(c)
  /\ Fails(c, "none")
  /\ IF res[c] = "token" /\ job[c].remember
       THEN Goto(c, "store") /\ UNCHANGED <<password, commandMu, job>>
       ELSE Forget /\ Reply(c)
  /\ UNCHANGED <<user, remember, credentialStored, state, stores, authOp, login,
                 tries, gone, counts>>

\* The given password is stored, or the stored one looked up.
LoginStores(c) ==
  /\ at[c] = "store"
  /\ \/ /\ keyring' = keyring \cup (IF job[c].pass THEN {job[c].user} ELSE {})
        /\ credentialStored' = (job[c].user \in keyring')
     \/ UNCHANGED keyring /\ credentialStored' = FALSE      \* the store fails
  /\ Forget /\ Reply(c)
  /\ UNCHANGED <<tokenVars, user, remember, state, sso, authOp, login, err, tries, gone, counts>>

\* logout under authOp; a failing config.Save is only reported.
Logout(c) ==
  /\ at[c] = "body" /\ job[c].op = "logout" /\ AuthOpFree
  /\ keyring' = keyring \ {user}
  /\ sso' = [sso EXCEPT !["main"] = None]
  /\ Account(None, FALSE, None) /\ credentialStored' = FALSE
  /\ state' = "AUTH_REQUIRED"
  /\ Reply(c)
  /\ UNCHANGED <<tokenVars, authOp, login, err, tries, gone, counts>>

\* Deleting the password fails, or then removing the profile does.
LogoutFails(c) ==
  /\ at[c] = "body" /\ job[c].op = "logout" /\ AuthOpFree
  /\ keyring' \in {keyring, keyring \ {user}}
  /\ Reply(c)
  /\ UNCHANGED <<tokenVars, fields, state, sso, authOp, login, err, tries, gone, counts>>

-----------------------------------------------------------------------------
Command(c) ==
  \/ LockCommand(c) \/ CancelAgain(c) \/ Restart(c)
  \/ LoginChanges(c) \/ LoginFails(c) \/ LoginSaves(c) \/ LoginSaveFails(c)
  \/ LoginGot(c) \/ LoginStores(c) \/ Logout(c) \/ LogoutFails(c)

Client(k) == Connected(k) \/ TryAgain(k) \/ AbandonBackoff(k) \/ Failed(k)

Restore ==
  \/ RecoveryGot \/ RecoveryFailed \/ RecoveryWakes \/ RecoveryReady \/ RecoveryLeaves
  \/ Connected(Recovery) \/ TryAgain(Recovery)

Provide(g) == Acquire(g) \/ AcquireFails(g) \/ BrowserSucceeds(g) \/ BrowserFails(g)

Credentials(g) == ManagerStep(g) \/ Use(g) \/ Provide(g)

Environment ==
  \/ \E c \in Cmds, j \in Requests : Submit(c, j)
  \/ \E k \in Conns : Arrive(k) \/ Leave(k) \/ Departed(k)

Next ==
  \/ \E g \in Callers : Credentials(g)
  \/ \E c \in Cmds : Command(c)
  \/ \E k \in Conns : Client(k)
  \/ RecoveryStarts \/ Restore
  \/ Environment

Spec == Init /\ [][Next]_vars

\* Every goroutine runs, and a sync.Mutex or the gate's channel hands itself
\* to the waiter that has waited longest, so one that can go on again and
\* again does.  Logins, dials and delays end by their timeouts.  Nobody has
\* to issue a command, to arrive or to leave.
Fairness ==
  /\ \A c \in Cmds : SF_vars(Command(c) \/ Credentials(c))
  /\ \A k \in Conns : SF_vars(Client(k) \/ Credentials(k))
  /\ SF_vars(Restore \/ Credentials(Recovery))
  /\ WF_vars(RecoveryStarts)

FairSpec == Spec /\ Fairness
-----------------------------------------------------------------------------
(* Properties *)

\* The browser is told the configured account and a password of that account,
\* for as long as it runs: login and logout cannot change either under it, so
\* one account's password is never typed into another account's form.
LoginForTheAccount ==
  login # None => login.user = user /\ login.pass \in {None, user}

\* A password given to login stays in memory no longer than its command,
\* whichever step of the command fails.
PasswordOnlyDuringLogin ==
  password # None => /\ commandMu \in Cmds
                     /\ at[commandMu] \in {"save", "get", "store"}
                     /\ job[commandMu].op = "login" /\ job[commandMu].user = password

\* The password store never has a password of another account than the one
\* configured.  Switching the account and logging out leave the main profile
\* without a session, and from then on only the configured account's gets in: a
\* login in flight does not write its own after they removed it.  (A session
\* that an earlier run left of another account stays until then: login removes
\* it only when the configured name changes.)
StoresKeepToTheAccount ==
  [][/\ keyring' \subseteq {user'}
     /\ sso'["main"] \in {sso["main"], None, user'}
     /\ user \notin {None, user'} => sso'["main"] = None]_vars

\* Locks are taken in one order, commandMu, gate, authOp: a login command
\* may wait for the gate, its holder for authOp, and nobody the other way.
LockOrder ==
  /\ authOp # None => gate = authOp
  /\ gate \in Cmds => commandMu = gate

\* Every login, logout and restart replies, however many others wait, retry,
\* are refused or run a browser at the time: the commands that wait for locks
\* (the others are in AgentConfig, or only read).
EveryCommandReplies == \A c \in Cmds : at[c] = "lock" ~> at[c] = "idle"

\* Every client that connects gets a session or an error, whatever logins,
\* refusals and restorations go on: no retry is endless.
EveryConnectReturns == \A k \in Conns : at[k] = "connect" ~> at[k] = "idle"
=============================================================================
