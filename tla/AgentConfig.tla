---------------------------- MODULE AgentConfig -----------------------------
(***************************************************************************)
(* The configuration of the agent (internal/config/config.go) under the    *)
(* commands that change it (internal/agent/agent.go, handle): what is in   *)
(* memory, what config.json holds and what the password store keeps, when  *)
(* any step may fail and the agent may be killed or stopped between two    *)
(* steps (Run does not wait for its IPC handlers) and start again.         *)
(*                                                                         *)
(* Of the configuration matter the account, the default node and the known *)
(* ones, and autostart; the port and the rest of Validate do not.  A login *)
(* runs the browser of BrowserLogin.  Left out: restoreConnection, tokens  *)
(* and the fields that are not saved, which Agent has.                     *)
(***************************************************************************)
EXTENDS BrowserLogin

CONSTANTS Cmds,             \* IPC handlers
          Users,
          Names, BadName,   \* of nodes; one that safeName refuses
          Jobs,             \* what may be asked for
          Torn,             \* a file that is written in part
          Unsaid,           \* a reply of success says nothing of a field
          MaxCommands, MaxKills   \* bounds

Configs == [user : Users \cup {None}, remember : BOOLEAN, auto : BOOLEAN,
            node : Names \cup {BadName}, nodes : SUBSET (Names \cup {BadName})]

AllJobs == [op : {"login"}, user : Users \cup {None}, remember : BOOLEAN, pass : BOOLEAN]
           \cup [op : {"logout"}]
           \cup [op : {"set-default-node"}, node : Names \cup {BadName}, id : BOOLEAN]
           \cup [op : {"settings"}, auto : BOOLEAN]

ASSUME ConfigAssumption ==
  /\ Jobs \subseteq AllJobs /\ None \notin Users \cup Cmds \cup Jobs
  /\ BadName \notin Names /\ Torn \notin Configs

VARIABLES mem, disk,        \* Agent.cfg, config.json
          keyring,          \* accounts whose password is stored
          registered,       \* autostart, in the system
          up,               \* the agent runs
          commandMu, at, job, copy,   \* lock and locals of the handlers
          promised,         \* what replies of success have said, by field
          issued, kills

stores == <<disk, keyring, registered>>
handlers == <<commandMu, at, job, copy>>
counts == <<issued, kills>>
configVars == <<mem, stores, up, handlers, promised, counts>>
vars == <<browserVars, configVars>>

Valid(c) == c.node \in c.nodes /\ BadName \notin c.nodes

Fields == {"user", "remember", "node", "auto", "saved"}

Init ==
  /\ BrowserInit
  /\ disk \in {c \in Configs : Valid(c) /\ (c.user = None => ~c.remember)}
  /\ Cardinality(disk.nodes) = 1
  /\ mem = disk /\ registered = disk.auto /\ up = TRUE
  /\ keyring \in SUBSET {u \in Users : u = disk.user /\ disk.remember}
  /\ commandMu = None
  /\ at = [c \in Cmds |-> "idle"] /\ job = [c \in Cmds |-> None]
  /\ copy = [c \in Cmds |-> None]
  /\ promised = [f \in Fields |-> Unsaid]
  /\ issued = 0 /\ kills = 0

-----------------------------------------------------------------------------
(* handle *)

Goto(c, l) == at' = [at EXCEPT ![c] = l]

\* login and logout cancel the login under way before they wait.
Submit(c, j) ==
  /\ at[c] = "idle" /\ issued < MaxCommands
  /\ Goto(c, "lock") /\ job' = [job EXCEPT ![c] = j]
  /\ issued' = issued + 1
  /\ IF j.op \in {"login", "logout"} THEN CancelLogin ELSE UNCHANGED browserVars
  /\ UNCHANGED <<mem, stores, up, commandMu, copy, promised, kills>>

CommandIgnored == TRUE     \* wrong: commands do not exclude each other
CommandFree == commandMu = None

Touched(j) ==
  IF j.op \in {"login", "logout"} THEN {"user", "remember", "saved"}
  ELSE IF j.op = "set-default-node" THEN {"node"} ELSE {"auto"}

\* From here on the command may change what an earlier one has promised.
LockCommand(c) ==
  /\ at[c] = "lock" /\ CommandFree
  /\ commandMu' = c
  /\ Goto(c, "body")
  /\ promised' = [f \in Fields |-> IF f \in Touched(job[c]) THEN Unsaid ELSE promised[f]]
  /\ UNCHANGED <<browserVars, mem, stores, up, job, copy, counts>>

Replies(c) ==
  /\ Goto(c, "idle") /\ commandMu' = None
  /\ job' = [job EXCEPT ![c] = None] /\ copy' = [copy EXCEPT ![c] = None]

Error(c) == Replies(c) /\ UNCHANGED promised

\* What a reply of success says; a login that gives no password says nothing
\* of a stored one.
Success(c) ==
  /\ Replies(c)
  /\ \/ /\ job[c].op = "login"
        /\ promised' = [promised EXCEPT !.user = job[c].user, !.remember = job[c].remember,
             !.saved = IF job[c].remember /\ ~job[c].pass THEN Unsaid ELSE job[c].remember]
     \/ /\ job[c].op = "logout"
        /\ promised' = [promised EXCEPT !.user = None, !.remember = FALSE, !.saved = FALSE]
     \/ /\ job[c].op = "set-default-node"
        /\ promised' = [promised EXCEPT !.node = job[c].node]
     \/ /\ job[c].op = "settings"
        /\ promised' = [promised EXCEPT !.auto = job[c].auto]

\* A command's changes: in memory, and the copy that it is going to save.
Assign(c, cfg) ==
  /\ mem' = cfg /\ copy' = [copy EXCEPT ![c] = cfg]
  /\ Goto(c, "save")
  /\ UNCHANGED <<commandMu, job, promised>>

LoginKeeps(c) == keyring   \* wrong: the old account's password stays
LoginStored(c) == IF mem.user \in {None, job[c].user} THEN keyring ELSE keyring \ {mem.user}

LoginBody(c) ==
  /\ at[c] = "body" /\ job[c].op = "login"
  /\ \/ /\ job[c].user # None
        /\ keyring' = LoginStored(c)
        /\ Assign(c, [mem EXCEPT !.user = job[c].user, !.remember = job[c].remember])
     \/ /\ job[c].user = None \/ mem.user \notin {None, job[c].user}
        /\ keyring' \in {keyring, IF job[c].user = None THEN keyring ELSE LoginStored(c)}
        /\ Error(c) /\ UNCHANGED mem    \* Delete, or then RemoveAll fails
  /\ UNCHANGED <<browserVars, disk, registered, up, counts>>

LogoutBody(c) ==
  /\ at[c] = "body" /\ job[c].op = "logout"
  /\ \/ /\ keyring' = keyring \ {mem.user}
        /\ Assign(c, [mem EXCEPT !.user = None, !.remember = FALSE])
     \/ keyring' \in {keyring, keyring \ {mem.user}} /\ Error(c) /\ UNCHANGED mem
  /\ UNCHANGED <<browserVars, disk, registered, up, counts>>

\* The changed configuration is a copy that shares no map with the old one,
\* which stays until the new one is saved.
NodeBody(c) ==
  /\ at[c] = "body" /\ job[c].op = "set-default-node"
  /\ copy' = [copy EXCEPT ![c] =
       [mem EXCEPT !.node = job[c].node,
                   !.nodes = @ \cup (IF job[c].id THEN {job[c].node} ELSE {})]]
  /\ Goto(c, "save")
  /\ UNCHANGED <<browserVars, mem, stores, up, commandMu, job, promised, counts>>

SettingsBody(c) ==
  /\ at[c] = "body" /\ job[c].op = "settings"
  /\ \/ registered' = job[c].auto /\ Assign(c, [mem EXCEPT !.auto = job[c].auto])
     \/ Error(c) /\ UNCHANGED <<mem, registered>>
  /\ UNCHANGED <<browserVars, disk, keyring, up, counts>>

-----------------------------------------------------------------------------
(* config.Save: validate, write a temporary file, rename it *)

InPlace(c) == disk' = Torn         \* wrong: config.json itself is written
Temporary(c) == UNCHANGED disk

WriteConfig(c) ==
  /\ at[c] = "save" /\ Valid(copy[c])
  /\ Temporary(c)
  /\ Goto(c, "rename")
  /\ UNCHANGED <<browserVars, mem, keyring, registered, up, commandMu, job, copy, promised, counts>>

\* Saved: set-default-node assigns now, a login goes on.
RenameConfig(c) ==
  /\ at[c] = "rename"
  /\ disk' = copy[c]
  /\ mem' = IF job[c].op = "set-default-node" THEN copy[c] ELSE mem
  /\ IF job[c].op = "login"
       THEN Goto(c, "forget") /\ UNCHANGED <<commandMu, job, copy, promised>>
       ELSE Success(c)
  /\ UNCHANGED <<browserVars, keyring, registered, up, counts>>

\* An invalid configuration, or the disk.
SaveFails(c) ==
  /\ at[c] \in {"save", "rename"}
  /\ Error(c)
  /\ UNCHANGED <<browserVars, mem, stores, up, counts>>

-----------------------------------------------------------------------------
(* The rest of a login *)

LoginForgets(c) ==
  /\ at[c] = "forget"
  /\ \/ /\ keyring' = IF job[c].remember THEN keyring ELSE keyring \ {job[c].user}
        /\ Goto(c, "get") /\ UNCHANGED <<commandMu, job, copy, promised>>
     \/ ~job[c].remember /\ Error(c) /\ UNCHANGED keyring
  /\ UNCHANGED <<browserVars, mem, disk, registered, up, counts>>

\* tokens.Get runs acquire.
LoginBegins(c) ==
  /\ at[c] = "get"
  /\ \E v \in BOOLEAN : BeginLogin(v)
  /\ Goto(c, "browser")
  /\ UNCHANGED <<mem, stores, up, commandMu, job, copy, promised, counts>>

LoginGot(c) ==
  /\ at[c] = "browser" /\ EndLogin
  /\ IF answer # "ok" THEN Error(c)
     ELSE IF job[c].remember THEN Goto(c, "store") /\ UNCHANGED <<commandMu, job, copy, promised>>
     ELSE Success(c)
  /\ UNCHANGED <<mem, stores, up, counts>>

LoginStores(c) ==
  /\ at[c] = "store"
  /\ \/ keyring' = (IF job[c].pass THEN keyring \cup {job[c].user} ELSE keyring) /\ Success(c)
     \/ UNCHANGED keyring /\ Error(c)
  /\ UNCHANGED <<browserVars, mem, disk, registered, up, counts>>

-----------------------------------------------------------------------------
(* The process *)

Kill ==
  /\ up /\ kills < MaxKills
  /\ up' = FALSE /\ kills' = kills + 1
  /\ KillLogin
  /\ commandMu' = None
  /\ at' = [c \in Cmds |-> "idle"] /\ job' = [c \in Cmds |-> None]
  /\ copy' = [c \in Cmds |-> None]
  /\ UNCHANGED <<mem, stores, promised, issued>>

\* Run loads the configuration and saves it with its port.
Start ==
  /\ ~up /\ disk # Torn /\ Valid(disk)
  /\ up' = TRUE /\ mem' = disk
  /\ UNCHANGED <<browserVars, stores, handlers, promised, counts>>

Command(c) ==
  \/ LockCommand(c) \/ LoginBody(c) \/ LogoutBody(c) \/ NodeBody(c) \/ SettingsBody(c)
  \/ WriteConfig(c) \/ RenameConfig(c) \/ SaveFails(c)
  \/ LoginForgets(c) \/ LoginBegins(c) \/ LoginGot(c) \/ LoginStores(c)

Next ==
  \/ up /\ \E c \in Cmds : Command(c) \/ \E j \in Jobs : Submit(c, j)
  \/ up /\ LoginStep /\ UNCHANGED configVars
  \/ BrowserLeaves /\ UNCHANGED configVars
  \/ Kill \/ Start

Spec == Init /\ [][Next]_vars
-----------------------------------------------------------------------------
(* Properties *)

\* What a command that replied success has changed stays, in config.json, in
\* the password store and in the system, until another command changes it:
\* whatever other commands fail, overlap or are cut off by a kill.
Said(f, v) == promised[f] \in {Unsaid, v}
PromisesAreKept ==
  /\ Said("user", disk.user) /\ Said("remember", disk.remember) /\ Said("node", disk.node)
  /\ Said("auto", disk.auto) /\ Said("auto", registered) /\ Said("saved", keyring # {})

\* A rejected node poisons neither a later save nor the next start: what is in
\* memory passes Validate and what is on disk can be loaded, at every moment.
StaysValid == Valid(mem) /\ disk # Torn /\ Valid(disk)

\* A stored password is never orphaned: it is that of the account the next
\* start finds, wherever a switch or a logout broke off.
KeyringIsTheSaved == disk # Torn => keyring \subseteq {disk.user}
=============================================================================
