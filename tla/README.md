# A formal model of SEU SC Bridge

SEU SC Bridge runs a background agent that logs in to SEU's WebShell through a
browser and offers it to local programs as an SSH server with SFTP. This
directory holds TLA+ modules of its concurrent parts, TLC configurations that
check them on small instances, and proofs that TLAPS checks for every value of
the constants. `PROJECT.json` lists the runs, the source lines behind each
definition, the hazards and the findings.

To run a configuration: `tlc -workers 2 -config MCTokenManager.cfg MCTokenManager.tla`.
To check the proofs: `tlapm TokenManagerProofs.tla`, and so on for the other `...Proofs` modules.

## The system

| part | source | state | operations |
|---|---|---|---|
| credential cache | `internal/auth/token.go` | credentials, generation, the gate (a channel of one place) | Get, Connect with its three attempts, Invalidate, InvalidateToken |
| agent | `internal/agent/agent.go` | account, remember, password, `credentialStored`, state; `commandMu`, `authOp`, `recoveryMu`, `mu` | IPC commands, `connect` for SSH sessions and transfers, `acquire` (the cache's provider), `restoreConnection` |
| browser login | `internal/browser/login.go` | a profile directory and a second one for recovery | Acquire: run a browser, capture the bearer token of a request |
| SSH server | `internal/sshserver/server.go` | table of connections; per session: terminal size, socket, queue of requests | Serve, session, DisconnectAll, Wait |
| WebShell socket | `internal/webshell/client.go` | a websocket, an incomplete rune | Connect, Read, Write, Resize, Close |
| exec bridge | `internal/bridge/bridge.go` | a buffer | wrap a command in markers, find them in the output |
| SFTP server | `internal/sftpserver/server.go` | `Handler.uploads` under `mu`; writers with a local spool | Filewrite, WriteAt, Setstat, TransferError, Close, Filecmd, reads and lists |
| Finder client | `internal/finder/client.go` | none | request with two attempts, Upload (chunks, merge, check, rename), Download, List |
| process control | `internal/agent/client.go`, `internal/platform` | lock file, PID record | Start, Stop, RecoverStaleAgent |
| IPC | `internal/ipc` | sixteen slots | one request and one reply per connection |
| configuration, keyring | `internal/config`, `internal/credential` | files, the system's password store | Load, Save, SSH keys and client configuration; Get, Set, Delete |
| updater | `internal/update/update.go` | one cache directory | Check, DownloadAndLaunch: download, verify and start an installer |
| GUI, tray, CLI | `internal/gui`, `cmd/seusc` | presentation | IPC calls; the GUI calls the updater |

How they interact: every SSH session, every SFTP transfer, `check-webshell`, the
login command and the recovery goroutine asks the one `auth.Manager` for
credentials; whoever finds none becomes the one that runs the provider,
`Agent.acquire`, which starts a browser for up to minutes. IPC commands change the
account underneath, and invalidate what is in flight. An SSH session connects in
a goroutine of its own while its loop goes on serving requests. An SFTP upload is
spooled locally and sent to Finder when the client closes the file. Whatever a
command changes in memory goes to `config.json` and the password store in steps of its own.

What is hard: minutes pass between reading the account and using the answer;
three locks and a channel are waited for in a chain; a login fails, is cancelled
or is invalidated at any point; the goroutines of a session end in any order; a
request to Finder that seems to have failed may still be executed.

## The modules

| module | models | composed of |
|---|---|---|
| `CredentialCache` | abstract: what asking for credentials promises, without locks | |
| `TokenManager` | `auth.Manager` and the retry of `finder.Client.request` | |
| `TokenManagerProofs` | invariants and refinement of `TokenManager`, proved | `TokenManager` |
| `Agent` | commands, connections and recovery of the agent, with the browser login and the password store | `TokenManager` (INSTANCE) |
| `BrowserLogin` | `browser.Login`: its attempts, its two profiles and the capture of a token | |
| `AgentConfig` | the commands that change the configuration, with what they save, kills and restarts | extends `BrowserLogin` |
| `SshServer` | the connections of the SSH server, their sessions, DisconnectAll and the stop | |
| `SshSession` | one session of the SSH server and its WebShell socket | |
| `WebShellSocket` | the bytes of the WebShell socket in both directions | |
| `Relay` | abstract: passing bytes on | |
| `ExecBridge` | `bridge.Exec`: a command between markers | extends `WebShellSocket`, implements `Relay` |
| `AtomicFile` | abstract: replacing a file as a whole | |
| `SftpUpload` | the writers of `sftpserver` and `finder.Client.Upload` | implements `AtomicFile` |
| `Updater` | overlapping updates over one cached installer | implements `AtomicFile` |
| `Lifecycle` | agent processes, and the clients that start, stop and recover them | |
| `AgentProofs` | invariants of `Agent`, and what is proved of the manager inside it | `Agent`, `TokenManagerProofs` (INSTANCE) |
| `SshProofs` | invariants of the server and of a session, proved | extends `SshServer` and `SshSession` |
| `AgentConfigProofs`, `ExecBridgeProofs`, `SftpUploadProofs`, `UpdaterProofs`, `LifecycleProofs` | invariants, and the refinements of `ExecBridge`, `SftpUpload` and `Updater`, proved | the module of the name |
| `MC...` | instances for TLC | |

### TokenManager

`cached`, `generation` and `gate` are the fields of `Manager`; `pc`, `left`, `seen`,
`cred` and `res` the locals of each goroutine. A section under `Manager.mu` is one
step: `Check` (the first look), `Recheck` (the look under the gate, which notes the
generation), `Publish` (store the result if the generation is still the same),
`InvalidateToken` inside `Reject`. The provider runs between two steps without any
lock, so everything may happen meanwhile. `Begin(g, n)` starts a bare `Get` (n = 0),
`Connect` (n = 3) or `finder`'s request (n = 2): the same loop with another count.
Tokens are drawn from a small set and a login may capture one that an earlier
login captured, as a browser with a session does.

`CredentialCache` is the specification without gate and provider: an answer is the
credential that is current at one moment between question and answer. The mapping
takes a caller that is publishing to one that has not been answered yet.

### Agent

`Agent` instantiates `TokenManager` and adds the fields of the struct. `at` is where a
goroutine stands in agent code, `pc` where it stands in the manager.
IPC handlers are `Cmds`, callers of `connect` are `Conns`, and `Recovery` is the one
`restoreConnection` that holds `recoveryMu`; the ones that are yet to start are only
counted (`spawned`), since all but one leave at `TryLock`. Passwords and sessions are
named by the account they belong to. `Submit` is the first `cancelAuth` of `handle`,
before `commandMu`, `CancelAgain` the second one. The bodies of login and logout under
`authOp` are one step each with all their outcomes, because whoever reads what they
write takes `authOp` too; the parts of login after it are steps of their own. A
browser login may fail whenever it runs, so cancelling it needs no step. At the start a profile may have
any account's session (`Init`): that is what a login leaves whose `config.Save` failed, see the findings.

### AgentConfig and BrowserLogin

Where `Agent` has the secrets and the locks, `AgentConfig` has what survives the process: `mem` is
`Agent.cfg`, `disk` is `config.json`, `keyring` the password store, `registered` the autostart entry.
`copy` is the configuration a handler has copied and is about to save; `config.Save` is two steps,
the temporary file (`WriteConfig`) and its rename (`RenameConfig`), and may fail before either. A
kill may fall between any two steps, as may the end of `Run`, which does not wait for its handlers.
`promised` remembers what the last reply of success said of each field.

A login there runs the browser of `BrowserLogin`: `Acquire` with its attempt in the background, the
one with a window and the one with the recovery profile, and inside an attempt the listener with
its two maps. `allowed` and `extra` are the maps, `token` the channel of one place; the two events of
a request come in any order and before, between or after each other's. `held` are profiles
that the browser of a killed agent keeps. `ctx` is the context that `cancelAuth` cancels, `expired` the
timeout of the attempt.

### SftpUpload

`OpenStats` takes `Handler.mu` and looks the path up, `Opened` creates the spool, `Close`
decides whether to upload, and `Chunk`, `Merge`, `Check`, `Rename`, `Remove` are Finder's
requests in the order of `Upload`. Each is executed and answered, or given up
(`UploadFails`): then Finder has executed it, does so at any later time (`Late`), or
never. A file is a sequence of blocks; a block is named by its writer. Of a
stage only counts whether it is all of what was sent. `AtomicFile` says what a reader of
the file sees.

### SshSession

The loop (`loop`), its feeder, the worker that connects and relays, and the
copier of the input, with the context, the queue, the socket and the terminal
size on both sides. Noting a new size and passing it on are two critical sections
in the code (server.go:198-206) and two steps here. `Connect` of the agent succeeds
or fails; `SftpEnds` stands for `serveSFTP`.

### WebShellSocket, ExecBridge and Relay

`WebShellSocket` is the socket as bytes: `Read` hands a message out in pieces, `Write` keeps an
unfinished character for the next one in JSON mode, where only the width of a character
matters. A session is either a shell, of which the input is modelled, or an exec: `Exec` starts
the command and the timer, and one turn of `readExec`'s loop is two steps, because it writes to the SSH
channel and a write waits as long as the client does not read: `Round` reads, looks for the first marker
and stops the timer, `Pass` passes on what it may. The search for the
markers is written as in the code: `Tail_` is what it keeps, `PassesSafely` what it lets go,
`Finish` the end with its status. What the terminal shows may break off anywhere. `Relay` is
what the client of an exec is promised.

### Updater

Each call of `DownloadAndLaunch` has its release, the checksum it wants and its temporary file; all
share `file`, the installer in the cache, which has one name whatever the release. The checksum
of the cached file, its removal, the download, the rename and the start are steps between which
another call, and GitHub (`Changes`), may do anything. `AtomicFile` is implemented with the
calls as its handles.

### SshServer

Serve accepts a connection (`Accept`) and enters it in the table (`Enter`) in two
steps, and `handle` is the rest: handshake, sessions up to the limit, and the two
things it does when the channels are over: cancel what its sessions do and wait
for them. `CtxDone`, `CloseListener`, `CloserDisconnects` and `RunDisconnects` are what
follows a stop request, in two goroutines. A session is one step of its own here;
what happens inside it is `SshSession`. A client that left may come again.

### Lifecycle

`lock`, `record` and `endpoint` are the lock file, `agent.pid` and the socket or pipe. An agent
process goes from `new` through `TryLock`, `Record`, `Serves` to the deferred calls of `Run` in
their order: `Drained` (or earlier `CloseEndpoint`), `Unlock`, `ClearAgentPID`. `WriteAgentPID` and
`ClearAgentPID` are two file operations each and two steps. A client (`at`) runs `Start` or `Stop`;
`again` says that it has another attempt. `StartFails`, `ListenerFails`, `Crash` and a stopping
agent that never drains are the ways an agent goes wrong. A probe may fail, and a
wait end, at any time, which includes the sixteen IPC slots being taken.
On other systems than Windows nothing is recovered; those behaviours are among the ones of
`Recovers = TRUE`, because `RecoversNothing` is always possible.

## The runs

| run | instance | what it shows |
|---|---|---|
| `token_manager` | 2 callers, 2 tokens, bare Get and 3 attempts, 3 invalidations | all properties of `TokenManager`, liveness and the refinement |
| `agent_commands` | 2 commands of 6 kinds, 2 accounts, recovery, 1 attempt of a connect | secrets and sessions stay with their account; lock order |
| `agent_commands_live` | 2 commands of 4 kinds (login, empty login, logout, restart), 1 account, recovery, 2 × 2 attempts with refusals, fairness | every command replies |
| `agent_clients_live` | 1 client after the other, a logout, 1 account, recovery, 2 × 2 attempts with refusals, fairness | every connect ends, and the logout replies beside it |
| `sftp_upload` | 2 uploads, 2 sessions, 1 block of 2 requests | uploads replace the file atomically and leave nothing behind |
| `ssh_session` | 2 sizes, queue of 2, 4 requests, fairness | size, sockets, goroutines and exit status of a session |
| `ssh_server` | 3 clients that come again, limits of 2 connections and 2 sessions, one command and the stop, fairness | table, limits, end of connections |
| `agent_lifecycle` | 2 clients, 3 processes at a time, Windows, fairness | one agent at a time, recovery ends only agents, Start and Stop end |
| `exec_bridge` | markers of 3 bytes, outputs of up to 3, reads of 2, messages of up to 3; inputs of up to 4 bytes; fairness | an exec relays its command's output and status, input arrives whole |
| `agent_config` | 3 commands, 2 at a time, 2 accounts, 2 nodes, 1 kill, a page of 2 requests, 1 place for headers | promises outlive failures and kills; tokens and profiles of a login |
| `updater` | 2 calls, 2 newer releases of 2 builds, 4 changes | only verified installers are started |
| `server_stop` | 2 clients and the stop, fairness | the finding below |

### Properties

- `NoStaleCache`, `FreshAnswers`: a credential that was dropped is neither cached nor
  returned to whoever asks afterwards. `Coalesced`: a generation is logged in at most
  once. `RetriesPresentNewer`: an attempt of a retry is not spent on the refused token.
  `EveryCallReturns`. `ImplementsCache`. (`OneLoginAtATime` is proved.)
- `LoginForTheAccount`: the browser is told one account and that account's password.
  `PasswordOnlyDuringLogin`: what memory keeps of a password after any mixture of commands and
  failures. `StoresKeepToTheAccount`, an action property: the password store never has another account's
  password, no step puts another account's session into the main profile, and a switch or a logout
  removes what is there. It says of each step what an invariant could not: the session that an
  earlier run left may be another account's. `LockOrder`: locks
  are taken in the order `commandMu`, gate, `authOp`, which is why nobody waits in a
  circle. `EveryCommandReplies` (of login, logout and restart), `EveryConnectReturns`.
- `PromisesAreKept`: what a reply of success said is in `config.json`, in the password store and in
  the system until another command changes it. `StaysValid`: no rejected node and no kill leaves a
  configuration that cannot be loaded or saved. `KeyringIsTheSaved`: no stored password belongs to
  an account the next start does not know. `TokenIsFound`: a token whose two events came is
  found, unless the map was full or the request over. `RecoveryIsTried`: a held profile alone
  fails no login.
- `RelaysOutput`, `StatusIsTheCommands`: an exec's client gets the command's output and status,
  and 1 or 255 when anything breaks off. After a failure `RelaysOutput` looks at the part of what was
  passed on that is as long as the output: the second marker and digits may follow it, because `readExec`
  writes out its buffer (bridge.go:103-105). `ExecEnds`: a terminal that never shows the first marker is given up
  by the timer, whatever the client does; an exec whose socket is gone returns if each of its writes does
  (`ClientTakes`). Without that condition TLC finds the exec waiting for a client that stays and does not
  read. `InputIsWhole`, `BufferIsBounded`.
- `LaunchedIsVerified`: what is started is a whole installer of some newer release, not necessarily
  the one the call asked for: another
  call may have replaced the file after its checksum. `ReplacesInstaller`: the refinement.
- `OneWriter`, `RemovedStaysOut`, `NothingLeft`, `ImplementsAtomicFile`: see the module. That an
  aborted upload is never seen by a reader and that a successful one was is what `AtomicFile` says.
- `LatestSize`, `NoSocketLeft`, `AllEnd`, `EndIsTold`: see the module.
- `HandledIsListed`: what a goroutine serves is in the table, so DisconnectAll reaches it, and
  nothing else is, so no place is lost. `ClosedEnds`: a connection that is closed ends. The workers
  that sessions start are in no `WaitGroup`; that they release what they hold is `NoSocketLeft` and `AllEnd`.
- `EndpointIsTheHolders`: the agent that answers has the lock, and an endpoint is gone before
  the lock is free, on which `ipc.Listen` relies when it removes a socket.
  `OnlyAgentsAreEnded`: recovery never ends a process that has not got the lock yet, though
  record, process and lock change between its steps. `NoOthersRecord`: an agent's own record is
  never replaced by another's. It may be removed, see `agent.go:83` among the hazards.
  `EveryCallEnds`. None of them excludes that a Start ends a healthy agent that is slow to publish
  its endpoint, has all its IPC slots taken or waits for its sessions after a stop: the code takes it
  for a stale one (client.go:43, 135 among the hazards).

### Bounds, and why they suffice

Two goroutines are enough for one to overtake the other in every step of the
manager; a third one is in the same position as the second to each of them, and
the safety properties are proved for any number. Three generations
(`MaxGeneration`) let a caller be overtaken by an invalidation in each of its three
attempts. In `Agent` the attempts (three of `Manager.Connect` in each of four of `connectWithRetries`) are cut to
two in each of two in the liveness runs: one that fails and goes on, and one that fails for good. In
`agent_commands`, about secrets and locks, there is one; recovery asks again as often as it likes.
Two commands are enough for each pair of kinds to race with each other and
with recovery. `MaxGeneration` there bounds refusals only, never a command's
invalidations; it is 5 in `agent_commands_live`, where two commands invalidate four times. `MaxSpawned` bounds when a new client may come, not how many
restorations are due. The number of commands is finite because a user
who logs in again and again cancels the login for ever; no liveness can be
claimed then.
`SftpUpload` needs two writers for a race and one block of two requests for an
upload that stops in the middle; `Size` 1 has the empty file, the file of one block
and the hole. `SshSession`: a queue of two is full while the loop is busy, and four
requests are a pty, a program and two window changes.

`SshServer`: three clients for a limit of two connections; one that is turned away, one
that is served and one that is accepted but not in the table when DisconnectAll
runs. `Lifecycle`: one process with the lock, one that a client ends or that clears its
record, one that starts. There is one `Agents` member per process that exists at a
time; a name is used again once nobody and no record knows it.

`ExecBridge`: a marker of three bytes whose first byte may also end an output shows every way of
cutting it; four bytes of input are a character of three and one more, and every
invalid combination. `AgentConfig`: two commands race, and a third one, or a restart, finds what
they left; one place in the map of 256 is full with one request. `Updater`: two calls
overtake each other, and four changes replace an installer and its manifest in the middle of both. They are too
few for two different newer releases to be verified in one behaviour; the proof covers that.
The properties of `AgentConfig` and `Updater` are proved for any bounds.

`MCView` of `MCAgent` leaves history variables of the manager out of the
state: `asked`, `refused`, `loggedIn` and the generation a credential was born in
are read by no guard, and of the generation only matters whether the
login under way is still the current one and how far the bound is. Two states with
the same view allow the same steps to the same views, and no property of these
runs reads the history. `MCLiveView` of the liveness runs also leaves out the stores, the state that is
shown and what the login was told: with one account every token is that account's, and no guard reads the
rest (that the password store fails is possible whatever it holds). `MCSftpUpload` uses symmetry of
handles and of sessions, `MCAgentConfig` and `agent_commands` of handlers, in runs without liveness
properties.

### Fairness

Goroutines that can run do run (weak fairness). A blocked sender of a Go
channel queues first in, first out, and a `sync.Mutex` hands itself to a waiter that
starved for a millisecond: a goroutine that can get the gate, `commandMu` or
`authOp` again and again gets it (strong fairness). A provider returns because
`browser.Login` and `acquire` have a timeout, a dial because `webshell.Client.Connect`
has one. Nobody has to issue a command, to connect, to hang up, to refuse
a token or to fail. In `SshSession` a program need not end by itself, and a client that stays need neither read nor
write: the relay, the SFTP server and the copier of the input are only fair once the client has closed the channel
(or answered its close) or its connection has ended (`ClientGone`), and `AllEnd` allows for a copier
whose client has not answered yet. In `SshServer` a client
need not leave, and a session ends when its connection's context is cancelled (which
`SshSession` shows as `AllEnd`). In `ExecBridge` the exec's goroutine runs while it does not write, its timer runs
and what was sent arrives; a write is never fair, since neither the timer nor the end of the socket
releases it. Nobody has to type, nothing has to break. In `Lifecycle` processes run and every wait has a
timer; an agent need not fail nor be stopped.

## Proofs

`TokenManagerProofs` proves for any sets of callers and tokens and any set of attempts
`TypeCorrect`, `NoStale`, `Freshness`, `Coalescing`, `Retries`, `MutualExclusion` and
`Refinement`, from the assumptions named in `TokenManager` (attempts are natural numbers,
`None` is no caller and no credential). None of the properties but the type
invariant is inductive. The inductive invariant `IInv` adds:

- `GateInv`: the gate belongs to exactly the caller between send and receive. It gives
  mutual exclusion, and that nobody else fills the cache during a login.
- `TimeInv`: a caller asked at a generation no later than the one it noted under the
  gate, and a credential was born at the one noted.
- `FillInv`: a credential of the current generation in somebody's hand is the cached
  one, and the cache is empty during a login of the current generation. `Publish`
  needs it to keep `NoStaleCache` and the refinement.
- `LoginInv`: if the current generation had its login and the cache is empty, the
  caller that ran it is about to publish. Together with `GateInv` it gives `Coalesced`.
- `CredInv`, `RefusalInv`: where a caller holds a credential; what it saw refused is
  older than its next question. This gives `RetriesPresentNewer`.

`Refinement` shows that the initial state maps to an initial state of
`CredentialCache` and that each step under `IInv` maps to a step or a stutter:
`Begin` asks, `Check`, `Recheck` and `Publish` answer, `Reject` refuses, `Finish` with an
error and `Return` withdraw, `Invalidate` drops.

`InvalidateIInv` and `InvalidateRefines` say the same of an invalidation at any time, whatever
bound the specification puts on their number. The agent needs them.

`AgentProofs` proves for any sets of goroutines and accounts, any requests and any number of attempts
(`ProcessAssumption`, `RequestsAssumption`, `TriesAssumption`, `BoundsAssumption`), in two parts.
First that the agent uses the manager as `TokenManager` describes it: each step of the agent is one of
the manager's steps, an invalidation or none of both (`ManagerUse`). So the invariant of
`TokenManagerProofs` holds in the agent, whose commands invalidate as often as they like and whose
`acquire` is the provider, and with it `FreshCredentials` and `ManagerIsTheCache`. The second part rests
on that: `IInv` adds `Asking` (which goroutine of the agent is in the manager, and for what), `Commands`
(`commandMu` belongs to the one command beyond its lock, and the account of a login that goes on is
the configured one) and `Browser` (who holds `authOp` is at the provider, and its login is the configured
account's). The manager's `GateInv` then gives `LocksInOrder`, since whoever is at the provider holds the gate.
`BrowserLogsInTheAccount` and `NoOtherAccount` (`StoresKeepToTheAccount` for every step) depend on each other:
an account is switched only under `authOp`, so that no login for the old one runs, and only such a login writes a
profile. Its invariant says nothing of the profile: whatever session is there at the start, what a login
writes is that one or its account's.

`SshProofs` proves `TypeCorrect` and `Listed` of `SshServer` for any set of connections and any
positive limits (`LimitsAssumption`, `NoneAssumption`). Its `IInv` adds `Sockets` (a connection has
no goroutine before it is accepted nor while `Serve` holds it: without it `Handle` could
start a second one) and `Counted` (`wg` is the number of goroutines, which are finitely
many). Of `SshSession` it proves `SessionTypeCorrect`, `Sized` and `NoSocket` for
any sizes, programs and bounds (`QueueAssumption`, `SizesAssumption`). `SessionInv` adds `Stages`, which follows the worker: before
it has connected there is no socket, until it has attached the socket the loop knows of none and the
WebShell has the size of the handshake, and once it is over the socket is closed. Neither property
holds without it, since loop and worker each see a part of the handshake.

`LifecycleProofs` proves `TypeCorrect`, `OneEndpoint`, `Recovery` and `OwnRecord` for any sets of
clients and processes, with and without recovery (`NoneAssumption`). Its `IInv` adds `Holders` (a process is
between `TryLock` and `Unlock` exactly when the lock names it), `EndpointUp`, `RecordWritten`
and `TargetWritten` (neither the record nor a recovery's target names a process that has not
written its record yet). `KillingKeeps` is the part of it that crashes, timeouts and recovery share.

`SftpUploadProofs` proves `TypeCorrect`, `Exclusive`, `CleanedUp`, `RemovalIsFinal` and
`UploadsReplaceTheFile` for any number of
sessions and handles and any sizes (`NoneAssumption`, `SizeAssumption`,
`FileAssumption`). Its `IInv` says what a handle owns at each of its steps: the lock
(`Locks`), the entry of the path (`Listed`, `Unlisted`: exactly the handle in the table may be
writing, which gives one writer) and the spool (`Files`); and which requests Finder may still
execute (`Requested`: a rename only when nothing can fill the stage any more).
`UploadsReplaceTheFile` is the refinement of `AtomicFile`. It needs two more invariants of the history
(`HInv`): `Told` says what became of the client's data (what is sent is all that was given, and
exactly a writer that is over has a result), `Ready` that a rename, whenever Finder executes it,
finds a whole stage or none, and that no request outlives an upload that reported success. A
rename that is executed late maps to the abstract file's change by an upload that reported failure.

`AgentConfigProofs` proves `PromisesKept`, `AlwaysValid`, `NoOrphanedPassword`, `TokensAreFound` and
`RecoveryIsAlwaysTried` for any commands, accounts, nodes, pages and bounds (`ConfigAssumption`,
`RequestKinds`, `NoneAssumption`). `Exclusive` is what `commandMu` gives, `Working` says what a handler's
copy, the memory and the disk have to do with its job at each step, and `InMemory` that the promises
hold of the memory too, from which every saved configuration comes: a failed save leaves memory and
disk apart, and the next one writes what the failed command had set. The login has an
invariant of its own, `LInv`: headers that came first wait for their URL or are lost, a request is
allowed from its URL to its end, and there is an answer only when `Acquire` is through.

`UpdaterProofs` proves `OnlyUpdatesAreLaunched`, `DownloadsReplaceTheInstaller` (the refinement of
`AtomicFile`) and `VersionsAreOrdered`. Its `IInv` adds `FilesOfReleases` (the external part: a
release's manifest names its own installer), `Asked` (what a call knows of its release at each step)
and `Trusted`: once a call has seen the checksum agree, the file is a good installer or gone,
because other calls put only what they verified there.

`ExecBridgeProofs` proves `StatusIsReported`, `BufferBounded`, `OutputIsRelayed` (the refinement of `Relay`)
and `InputArrivesWhole` for any markers, commands and inputs and any sizes of messages, reads and writes.
`MarkersAssumption` and `SizesAssumption` say what they are. `RandomAssumption` is what the nonce and
the control characters of a marker are for: a marker does not occur in, nor begin within, what
the terminal shows before it. A status has no terminator in it, and if valid at most three digits.
Its `IInv` says of an exec that found its first marker and is not over that what was passed on, the buffer and
what is still to come are the output, the second marker and the status, and of one that has not found it that
all of that follows the marker (`Stream`); and that nothing was answered before (`Unanswered`). Reading
and passing on keep it because what `PassesSafely` lets go ends before any place where a marker may still begin (`Kept`), because a marker that is complete stays the first one
however much follows (`Found`), and because nothing but the output precedes it (`FromMarker`). For the
refinement `CutOff` bounds what is passed on when the session breaks off.

The input is the part where characters matter: `InputInv` is `InputIsWhole` and the types, and its step needs that
the bytes of characters that are whole, joined, are whole, wherever the reads cut them. That is
an argument by induction over the bytes, made with a least counterexample instead (`Smallest`, from
`WFMin` of `WellFoundedInduction`), because the induction theorems take an operator.

Proved only, and in no run: the type invariants of `TokenManager`, `SshServer`, `Lifecycle`, `SftpUpload`
and `SshSession`. Only model-checked: every liveness property (fairness and ENABLED are beyond
the prover). Each safety property, action property and refinement that a run checks is
proved. Nothing is assumed but the named assumptions on constants, which TLC evaluates in the runs.

## Findings

`server_stop`: `Serve` enters a connection that `Accept` returned before the listener was
closed without looking at its context (server.go:51). Both DisconnectAll calls may be over
by then; `Wait`, and with it the stop of the agent, waits for that client.

Met while modelling, read in the code and in the models, and without a run of their own:

- The code of logout cancels and invalidates before it takes `authOp` (agent.go:403-404). A login that
  starts between the two belongs to the new generation; its token enters the cache after the
  logout and stays usable.
- Logout removes `paths.Profile`, never the second profile `Profile + "-recovery"` that
  `browser.Login` keeps (agent.go:413, login.go:113).
- A profile may keep another account's session over a restart. Login of u2 changes the account in memory,
  `config.Save` fails (agent.go:373), a later acquire logs u2 in and its session stays in the main profile
  (agent.go:237), and the next start loads u1 (agent.go:86): u1's logins then run on u2's profile until the
  configured name changes. In the same way a login while no account is configured keeps whatever session
  the profile has (agent.go:351). `Init` of `Agent` has these states.
- The state ERROR stays when nothing retries, because the error of a failing password store is
  not reconnectable (agent.go:305-310); frontend/app.js:8 says that the background retries.

## Not modelled, and why

GUI, tray, command line, packaging: sequential code or presentation without shared state.
Logging, paths, error texts: no property is about them. The framing of the websocket and HTTP:
taken by their outcomes. Filling in the login form and the choice of a browser decide only
whether a token comes. SSH keys and `ManagedBlock` (`internal/config/ssh.go`) are text written once
per start, under the agent's lock. Downloads and listings of SFTP read; a download is a temporary
file of one reader. Of the IPC transport matters that a probe may fail. Four hazards
have no property, since the code promises nothing there; `PROJECT.json` says why.

## Plan

What is left, in this order:

1. Downloads and `serveSFTP` beside the uploads; `ManagedBlock` as an operator on lines.
2. The sixteen slots of IPC with clients that keep them.
3. The parts that `Agent` takes as one step (the bodies of login and logout under `authOp`) as steps of
   their own, shown to implement it.
4. Simpler proofs: the sequence lemmas of `ExecBridgeProofs` and of `SftpUploadProofs` have a common part.
