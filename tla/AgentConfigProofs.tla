-------------------------- MODULE AgentConfigProofs --------------------------
(***************************************************************************)
(* Proofs about AgentConfig for any number of handlers, accounts, nodes,   *)
(* commands and kills: promises are kept, the configuration stays valid,   *)
(* and a stored password is that of the account on disk.                   *)
(*                                                                         *)
(* commandMu leaves one handler at work (Exclusive); Working says what its *)
(* copy, the memory and the disk have to do with its job at each step.     *)
(* The promises hold of the disk because they hold of the memory too, from *)
(* which every saved configuration comes (InMemory): a failed save leaves  *)
(* the two apart, and the next one writes what the failed command set.     *)
(***************************************************************************)
EXTENDS AgentConfig, TLAPS

Busy == {"body", "save", "rename", "forget", "get", "browser", "store"}
Saved == {"forget", "get", "browser", "store"}
Values == {Unsaid, None, BadName} \cup Users \cup Names \cup BOOLEAN

TypeOK ==
  /\ mem \in Configs /\ disk \in Configs
  /\ keyring \subseteq Users /\ registered \in BOOLEAN /\ up \in BOOLEAN
  /\ commandMu \in Cmds \cup {None}
  /\ at \in [Cmds -> {"idle", "lock"} \cup Busy]
  /\ job \in [Cmds -> Jobs \cup {None}] /\ copy \in [Cmds -> Configs \cup {None}]
  /\ promised \in [Fields -> Values]

Exclusive == \A c \in Cmds : at[c] \in Busy => commandMu = c

AccountUnsaid ==
  promised["user"] = Unsaid /\ promised["remember"] = Unsaid /\ promised["saved"] = Unsaid

Working(c) ==
  /\ at[c] # "idle" => job[c] \in Jobs /\ up
  /\ at[c] \in Busy /\ job[c].op \in {"login", "logout"} => AccountUnsaid
  /\ at[c] \in Busy /\ job[c].op = "set-default-node" => promised["node"] = Unsaid
  /\ at[c] \in Busy /\ job[c].op = "settings" => promised["auto"] = Unsaid
  /\ at[c] \in {"save", "rename"} => copy[c] \in Configs
  /\ at[c] \in {"save", "rename"} /\ job[c].op = "set-default-node" =>
       /\ copy[c].user = mem.user /\ copy[c].remember = mem.remember
       /\ copy[c].auto = mem.auto /\ copy[c].node = job[c].node
  /\ at[c] \in {"save", "rename"} /\ job[c].op # "set-default-node" => copy[c] = mem
  /\ at[c] \in {"save", "rename"} /\ job[c].op = "login" =>
       mem.user = job[c].user /\ mem.remember = job[c].remember
  /\ at[c] \in {"save", "rename"} /\ job[c].op = "logout" =>
       mem.user = None /\ mem.remember = FALSE /\ keyring = {}
  /\ at[c] \in {"save", "rename"} /\ job[c].op = "settings" =>
       mem.auto = job[c].auto /\ registered = job[c].auto
  /\ at[c] \in {"save", "rename"} \cup Saved /\ job[c].op = "login" => job[c].user \in Users
  /\ at[c] = "rename" => Valid(copy[c])
  /\ at[c] \in Saved =>
       /\ job[c].op = "login" /\ disk = mem
       /\ disk.user = job[c].user /\ disk.remember = job[c].remember
  /\ at[c] \in {"get", "browser"} /\ ~job[c].remember => keyring = {}
  /\ at[c] = "store" => job[c].remember

InMemory ==
  up => /\ keyring \subseteq {mem.user}
        /\ Said("user", mem.user) /\ Said("remember", mem.remember)
        /\ Said("node", mem.node) /\ Said("auto", mem.auto)

IInv ==
  /\ TypeOK /\ Exclusive /\ (\A c \in Cmds : Working(c)) /\ InMemory
  /\ PromisesAreKept /\ StaysValid /\ KeyringIsTheSaved

-----------------------------------------------------------------------------
LEMMA InitIInv == Init => IInv
  BY ConfigAssumption DEF Init, IInv, TypeOK, Exclusive, Working, InMemory, PromisesAreKept, Said,
    StaysValid, KeyringIsTheSaved, Busy, Saved, Values, Configs, Fields, Valid

\* What a job asks for.
LEMMA JobFields ==
  ASSUME NEW j \in Jobs
  PROVE  /\ j # None /\ j.op \in {"login", "logout", "set-default-node", "settings"}
         /\ j.op = "login" =>
              j.user \in Users \cup {None} /\ j.remember \in BOOLEAN /\ j.pass \in BOOLEAN
         /\ j.op = "set-default-node" => j.node \in Names \cup {BadName}
         /\ j.op = "settings" => j.auto \in BOOLEAN
  BY ConfigAssumption DEF AllJobs

LEMMA Locking == ASSUME IInv, NEW c \in Cmds, LockCommand(c) PROVE IInv'
  BY ConfigAssumption DEF LockCommand, CommandFree, Touched, Goto, IInv, TypeOK, Exclusive, Working,
    InMemory, PromisesAreKept, Said, StaysValid, KeyringIsTheSaved, Busy, Saved, Values, Fields,
    AccountUnsaid, stores, counts, Valid, AllJobs

LEMMA Submitting == ASSUME IInv, up, NEW c \in Cmds, NEW j \in Jobs, Submit(c, j) PROVE IInv'
  BY DEF Submit, Goto, IInv, TypeOK, Exclusive, Working, InMemory, PromisesAreKept, Said,
    StaysValid, KeyringIsTheSaved, Busy, Saved, AccountUnsaid, stores, Valid

\* A command that ends with an error leaves what it touched unsaid.
LEMMA Erring ==
  ASSUME IInv, NEW c \in Cmds, at[c] \in Busy, Error(c), UNCHANGED <<mem, disk, registered, up>>,
         keyring' \subseteq keyring, keyring' = keyring \/ promised["saved"] = Unsaid
  PROVE  IInv'
  BY DEF Error, Replies, Goto, IInv, TypeOK, Exclusive, Working, InMemory, PromisesAreKept, Said,
    StaysValid, KeyringIsTheSaved, Busy, Saved, AccountUnsaid, Valid

\* A command that succeeds says what memory and disk agree on.
LEMMA Succeeding ==
  ASSUME IInv, NEW c \in Cmds, at[c] \in Busy, Success(c), UNCHANGED <<registered, up>>,
         mem' \in Configs, disk' = mem', Valid(disk'), keyring' \subseteq Users,
         keyring' \subseteq {mem'.user},
         Said("user", mem'.user), Said("remember", mem'.remember),
         Said("node", mem'.node), Said("auto", mem'.auto),
         keyring' = keyring \/ promised["saved"] = Unsaid,
         job[c].op = "login" =>
           /\ mem'.user = job[c].user /\ mem'.remember = job[c].remember
           /\ ~job[c].remember => keyring' = {}
           /\ job[c].remember /\ job[c].pass => keyring' # {},
         job[c].op = "logout" => mem'.user = None /\ mem'.remember = FALSE /\ keyring' = {},
         job[c].op = "set-default-node" => mem'.node = job[c].node,
         job[c].op = "settings" => mem'.auto = job[c].auto /\ registered = job[c].auto
  PROVE  IInv'
<1>1. job[c] \in Jobs  BY DEF IInv, Working, Busy
<1>2. promised' \in [Fields -> Values]
  <2>1. promised \in [Fields -> Values]  BY DEF IInv, TypeOK
  <2>2. CASE job[c].op = "login"
    <3>1. /\ job[c].user \in Values /\ job[c].remember \in Values /\ Unsaid \in Values
      BY <1>1, <2>2, JobFields DEF Values
    <3>2. QED  BY <2>1, <2>2, <3>1 DEF Success
  <2>3. CASE job[c].op = "logout"
    <3>1. None \in Values /\ FALSE \in Values  BY DEF Values
    <3>2. QED  BY <2>1, <2>3, <3>1 DEF Success
  <2>4. CASE job[c].op \in {"set-default-node", "settings"}
    <3>1. job[c].op = "settings" => job[c].auto \in Values  BY <1>1, JobFields DEF Values
    <3>2. job[c].op = "set-default-node" => job[c].node \in Values  BY <1>1, JobFields DEF Values
    <3>3. QED  BY <2>1, <2>4, <3>1, <3>2 DEF Success
  <2>5. QED  BY <1>1, <2>2, <2>3, <2>4, JobFields
<1>3. TypeOK' /\ Exclusive' /\ \A d \in Cmds : at'[d] \notin Busy /\ Working(d)'
  <2>1. at' = [at EXCEPT ![c] = "idle"] /\ commandMu' = None
        /\ job' = [job EXCEPT ![c] = None] /\ copy' = [copy EXCEPT ![c] = None]
    BY DEF Success, Replies, Goto
  <2>2. QED  BY <1>2, <2>1 DEF IInv, TypeOK, Exclusive, Working, Busy, Saved
<1>4. PromisesAreKept'
  BY <1>1, JobFields DEF IInv, TypeOK, Success, PromisesAreKept, Said, Fields
<1>5. InMemory'  BY <1>4 DEF InMemory, PromisesAreKept, Said
<1>6. StaysValid' /\ KeyringIsTheSaved'
  BY ConfigAssumption DEF StaysValid, KeyringIsTheSaved
<1>7. QED  BY <1>3, <1>4, <1>5, <1>6 DEF IInv

\* A command that changes the memory and is going to save it.
LEMMA Assigning ==
  ASSUME IInv, up, NEW c \in Cmds, at[c] = "body", NEW cfg \in Configs, Assign(c, cfg),
         UNCHANGED <<up, disk>>, registered' \in BOOLEAN,
         cfg.node = mem.node, cfg.nodes = mem.nodes,
         keyring' \subseteq keyring, keyring' \subseteq {cfg.user},
         keyring' = keyring \/ promised["saved"] = Unsaid,
         Said("user", cfg.user), Said("remember", cfg.remember),
         Said("auto", cfg.auto), Said("auto", registered'),
         job[c].op # "set-default-node",
         job[c].op = "login" =>
           cfg.user = job[c].user /\ cfg.remember = job[c].remember /\ job[c].user \in Users,
         job[c].op = "logout" => cfg.user = None /\ cfg.remember = FALSE /\ keyring' = {},
         job[c].op = "settings" => cfg.auto = job[c].auto /\ registered' = job[c].auto
  PROVE  IInv'
<1>1. /\ mem' = cfg /\ copy' = [copy EXCEPT ![c] = cfg] /\ at' = [at EXCEPT ![c] = "save"]
      /\ UNCHANGED <<commandMu, job, promised>>
  BY DEF Assign, Goto
<1>2. TypeOK' /\ Exclusive' /\ \A d \in Cmds : Working(d)'
  BY <1>1 DEF IInv, TypeOK, Exclusive, Working, Busy, Saved, AccountUnsaid
<1>3. InMemory' /\ PromisesAreKept' /\ StaysValid' /\ KeyringIsTheSaved'
  BY <1>1 DEF IInv, InMemory, PromisesAreKept, Said, StaysValid, KeyringIsTheSaved, Valid
<1>4. QED  BY <1>2, <1>3 DEF IInv

LEMMA Bodies ==
  ASSUME IInv, up, NEW c \in Cmds,
         LoginBody(c) \/ LogoutBody(c) \/ NodeBody(c) \/ SettingsBody(c)
  PROVE  IInv'
<1>0. /\ at[c] = "body" /\ job[c] \in Jobs /\ mem \in Configs
      /\ keyring \subseteq Users /\ keyring \subseteq {mem.user} /\ at[c] \in Busy
  BY DEF LoginBody, LogoutBody, NodeBody, SettingsBody, IInv, TypeOK, Working, InMemory, Busy
<1>1. CASE LoginBody(c)
  <2>1. AccountUnsaid /\ keyring' \subseteq keyring
    BY <1>0, <1>1 DEF LoginBody, LoginStored, IInv, Working, Busy
  <2>2. CASE Error(c) /\ UNCHANGED mem
    BY <1>0, <1>1, <2>1, <2>2, Erring DEF LoginBody, AccountUnsaid
  <2>3. CASE ~(Error(c) /\ UNCHANGED mem)
    <3>0. PICK cfg : cfg = [mem EXCEPT !.user = job[c].user, !.remember = job[c].remember]
      OBVIOUS
    <3>1. /\ cfg \in Configs /\ cfg.user = job[c].user /\ cfg.remember = job[c].remember
          /\ cfg.auto = mem.auto /\ cfg.node = mem.node /\ cfg.nodes = mem.nodes
      <4>1. job[c].user \in Users \cup {None} /\ job[c].remember \in BOOLEAN
        BY <1>0, <1>1, JobFields DEF LoginBody
      <4>2. QED  BY <1>0, <3>0, <4>1 DEF Configs
    <3>2. Assign(c, cfg) /\ keyring' = LoginStored(c) /\ job[c].op = "login"
          /\ job[c].user \in Users /\ UNCHANGED <<disk, registered, up>>
      BY <1>0, <1>1, <2>3, <3>0, JobFields DEF LoginBody
    <3>3. keyring' \subseteq {cfg.user}
      BY <1>0, <3>1, <3>2, ConfigAssumption DEF LoginStored
    <3>4. Said("auto", cfg.auto) /\ Said("auto", registered) /\ registered \in BOOLEAN
      BY <3>1 DEF IInv, TypeOK, InMemory, PromisesAreKept, Said
    <3>5. QED  BY <1>0, <2>1, <3>1, <3>2, <3>3, <3>4, Assigning DEF AccountUnsaid, Said
  <2>4. QED  BY <2>2, <2>3
<1>2. CASE LogoutBody(c)
  <2>1. AccountUnsaid /\ keyring' \subseteq keyring
    BY <1>0, <1>2 DEF LogoutBody, IInv, Working, Busy
  <2>2. CASE Error(c) /\ UNCHANGED mem
    BY <1>0, <1>2, <2>1, <2>2, Erring DEF LogoutBody, AccountUnsaid
  <2>3. CASE ~(Error(c) /\ UNCHANGED mem)
    <3>0. PICK cfg : cfg = [mem EXCEPT !.user = None, !.remember = FALSE]  OBVIOUS
    <3>1. /\ cfg \in Configs /\ cfg.user = None /\ cfg.remember = FALSE
          /\ cfg.auto = mem.auto /\ cfg.node = mem.node /\ cfg.nodes = mem.nodes
      <4>1. None \in Users \cup {None} /\ FALSE \in BOOLEAN  OBVIOUS
      <4>2. QED  BY <1>0, <3>0, <4>1 DEF Configs
    <3>2. Assign(c, cfg) /\ keyring' = keyring \ {mem.user} /\ job[c].op = "logout"
          /\ UNCHANGED <<disk, registered, up>>
      BY <1>2, <2>3, <3>0 DEF LogoutBody
    <3>3. keyring' = {}  BY <1>0, <3>2
    <3>4. Said("auto", cfg.auto) /\ Said("auto", registered) /\ registered \in BOOLEAN
      BY <3>1 DEF IInv, TypeOK, InMemory, PromisesAreKept, Said
    <3>5. QED  BY <1>0, <2>1, <3>1, <3>2, <3>3, <3>4, Assigning DEF AccountUnsaid, Said
  <2>4. QED  BY <2>2, <2>3
<1>3. CASE NodeBody(c)
  <2>0. PICK cfg : cfg = [mem EXCEPT !.node = job[c].node,
                            !.nodes = @ \cup (IF job[c].id THEN {job[c].node} ELSE {})]
    OBVIOUS
  <2>1. /\ cfg \in Configs /\ cfg.node = job[c].node /\ cfg.user = mem.user
        /\ cfg.remember = mem.remember /\ cfg.auto = mem.auto
    <3>1. job[c].node \in Names \cup {BadName}  BY <1>0, <1>3, JobFields DEF NodeBody
    <3>2. mem.nodes \cup (IF job[c].id THEN {job[c].node} ELSE {}) \in SUBSET (Names \cup {BadName})
      BY <1>0, <3>1 DEF Configs
    <3>3. QED  BY <1>0, <2>0, <3>1, <3>2 DEF Configs
  <2>2. /\ copy' = [copy EXCEPT ![c] = cfg] /\ at' = [at EXCEPT ![c] = "save"]
        /\ UNCHANGED <<mem, stores, up, commandMu, job, promised>> /\ job[c].op = "set-default-node"
    BY <1>3, <2>0 DEF NodeBody, Goto
  <2>3. TypeOK' /\ Exclusive' /\ \A d \in Cmds : Working(d)'
    BY <1>0, <2>1, <2>2 DEF IInv, TypeOK, Exclusive, Working, Busy, Saved, AccountUnsaid, stores
  <2>4. InMemory' /\ PromisesAreKept' /\ StaysValid' /\ KeyringIsTheSaved'
    BY <2>2 DEF IInv, InMemory, PromisesAreKept, Said, StaysValid, KeyringIsTheSaved, stores
  <2>5. QED  BY <2>3, <2>4 DEF IInv
<1>4. CASE SettingsBody(c)
  <2>1. promised["auto"] = Unsaid /\ UNCHANGED <<disk, keyring, up>> /\ job[c].op = "settings"
    BY <1>0, <1>4 DEF SettingsBody, IInv, Working, Busy
  <2>2. CASE Error(c) /\ UNCHANGED <<mem, registered>>
    BY <1>0, <2>1, <2>2, Erring
  <2>3. CASE ~(Error(c) /\ UNCHANGED <<mem, registered>>)
    <3>0. PICK cfg : cfg = [mem EXCEPT !.auto = job[c].auto]  OBVIOUS
    <3>1. /\ cfg \in Configs /\ cfg.auto = job[c].auto /\ cfg.user = mem.user
          /\ cfg.remember = mem.remember /\ cfg.node = mem.node /\ cfg.nodes = mem.nodes
          /\ job[c].auto \in BOOLEAN
      BY <1>0, <2>1, <3>0, JobFields DEF Configs
    <3>2. Assign(c, cfg) /\ registered' = job[c].auto
      BY <1>4, <2>3, <3>0 DEF SettingsBody
    <3>3. Said("user", cfg.user) /\ Said("remember", cfg.remember)
      BY <3>1 DEF IInv, InMemory
    <3>4. QED  BY <1>0, <2>1, <3>1, <3>2, <3>3, Assigning DEF Said
  <2>4. QED  BY <2>2, <2>3
<1>5. QED  BY <1>1, <1>2, <1>3, <1>4

LEMMA Saving ==
  ASSUME IInv, up, NEW c \in Cmds, WriteConfig(c) \/ RenameConfig(c) \/ SaveFails(c)
  PROVE  IInv'
<1>1. CASE WriteConfig(c)
  BY <1>1 DEF WriteConfig, Temporary, Goto, IInv, TypeOK, Exclusive, Working, InMemory,
    PromisesAreKept, Said, StaysValid, KeyringIsTheSaved, Busy, Saved, AccountUnsaid, Valid
<1>2. CASE RenameConfig(c)
  <2>0. /\ at[c] = "rename" /\ at[c] \in Busy /\ job[c] \in Jobs /\ disk' = copy[c]
        /\ copy[c] \in Configs /\ Valid(copy[c]) /\ mem' = copy[c]
        /\ UNCHANGED <<keyring, registered, up>> /\ keyring \subseteq Users
        /\ copy[c].user = mem.user /\ copy[c].remember = mem.remember /\ copy[c].auto = mem.auto
    BY <1>2 DEF RenameConfig, IInv, TypeOK, Working, Busy
  <2>1. /\ keyring \subseteq {copy[c].user}
        /\ Said("user", copy[c].user) /\ Said("remember", copy[c].remember)
        /\ Said("node", copy[c].node) /\ Said("auto", copy[c].auto)
    BY <2>0 DEF IInv, Working, InMemory, Said, Busy
  <2>2. CASE job[c].op = "login"
    <3>1. /\ at' = [at EXCEPT ![c] = "forget"] /\ UNCHANGED <<commandMu, job, copy, promised>>
      BY <1>2, <2>2 DEF RenameConfig, Goto
    <3>2. TypeOK' /\ Exclusive' /\ \A d \in Cmds : Working(d)'
      BY <2>0, <2>2, <3>1 DEF IInv, TypeOK, Exclusive, Working, Busy, Saved, AccountUnsaid
    <3>3. PromisesAreKept'  BY <2>0, <2>1, <3>1 DEF IInv, PromisesAreKept, Said
    <3>4. InMemory' /\ StaysValid' /\ KeyringIsTheSaved'
      BY <2>0, <2>1, <3>1, ConfigAssumption DEF InMemory, Said, StaysValid, KeyringIsTheSaved
    <3>5. QED  BY <3>2, <3>3, <3>4 DEF IInv
  <2>3. CASE job[c].op # "login"
    <3>1. Success(c)  BY <1>2, <2>3 DEF RenameConfig
    <3>2. /\ job[c].op = "logout" => copy[c].user = None /\ copy[c].remember = FALSE /\ keyring = {}
          /\ job[c].op = "set-default-node" => copy[c].node = job[c].node
          /\ job[c].op = "settings" => copy[c].auto = job[c].auto /\ registered = job[c].auto
      BY <2>0 DEF IInv, Working
    <3>3. QED  BY <2>0, <2>1, <2>3, <3>1, <3>2, Succeeding DEF Valid
  <2>4. QED  BY <2>2, <2>3
<1>3. CASE SaveFails(c)
  BY <1>3, Erring DEF SaveFails, Busy, stores
<1>4. QED  BY <1>1, <1>2, <1>3

LEMMA LoggingIn ==
  ASSUME IInv, up, NEW c \in Cmds,
         LoginForgets(c) \/ LoginBegins(c) \/ LoginGot(c) \/ LoginStores(c)
  PROVE  IInv'
<1>0. /\ at[c] \in Saved /\ at[c] \in Busy /\ job[c] \in Jobs /\ job[c].op = "login"
      /\ AccountUnsaid /\ disk = mem /\ mem \in Configs /\ Valid(disk)
      /\ mem.user = job[c].user /\ mem.remember = job[c].remember
      /\ keyring \subseteq {mem.user} /\ keyring \subseteq Users
      /\ Said("node", mem.node) /\ Said("auto", mem.auto)
      /\ UNCHANGED <<mem, disk, registered, up>>
  BY DEF LoginForgets, LoginBegins, LoginGot, LoginStores, IInv, TypeOK, Working, InMemory,
    StaysValid, Busy, Saved, stores
<1>1. ASSUME Success(c), keyring' \subseteq Users, keyring' \subseteq {mem.user},
             ~job[c].remember => keyring' = {},
             job[c].remember /\ job[c].pass => keyring' # {}
      PROVE  IInv'
  BY <1>0, <1>1, Succeeding DEF AccountUnsaid, Said, Valid
<1>2. ASSUME Error(c), keyring' \subseteq keyring PROVE IInv'
  BY <1>0, <1>2, Erring DEF AccountUnsaid
<1>3. ASSUME NEW l \in Saved, Goto(c, l), UNCHANGED <<commandMu, job, copy, promised>>,
             keyring' \subseteq keyring,
             l \in {"get", "browser"} /\ ~job[c].remember => keyring' = {},
             l = "store" => job[c].remember
      PROVE  IInv'
  BY <1>0, <1>3 DEF Goto, IInv, TypeOK, Exclusive, Working, InMemory, PromisesAreKept, Said,
    StaysValid, KeyringIsTheSaved, Busy, Saved, AccountUnsaid, Valid
<1>4. CASE LoginForgets(c)  BY <1>0, <1>2, <1>3, <1>4 DEF LoginForgets, Saved
<1>5. CASE LoginBegins(c)
  <2>1. ~job[c].remember => keyring = {}  BY <1>0, <1>5 DEF LoginBegins, IInv, Working
  <2>2. QED  BY <1>0, <1>3, <1>5, <2>1 DEF LoginBegins, Saved, stores
<1>6. CASE LoginGot(c)
  <2>1. ~job[c].remember => keyring = {}  BY <1>0, <1>6 DEF LoginGot, IInv, Working
  <2>2. QED  BY <1>0, <1>1, <1>2, <1>3, <1>6, <2>1, JobFields DEF LoginGot, Saved, stores
<1>7. CASE LoginStores(c)
  <2>1. job[c].remember  BY <1>0, <1>7 DEF LoginStores, IInv, Working
  <2>2. job[c].user \in Users  BY <1>0 DEF IInv, Working
  <2>3. QED  BY <1>0, <1>1, <1>2, <1>7, <2>1, <2>2 DEF LoginStores
<1>8. QED  BY <1>4, <1>5, <1>6, <1>7

LEMMA StepIInv == IInv /\ [Next]_vars => IInv'
<1> SUFFICES ASSUME IInv, [Next]_vars PROVE IInv'  OBVIOUS
<1>1. CASE UNCHANGED vars \/ UNCHANGED configVars
  BY <1>1 DEF vars, configVars, stores, handlers, IInv, TypeOK, Exclusive, Working, InMemory,
    PromisesAreKept, Said, StaysValid, KeyringIsTheSaved, AccountUnsaid
<1>2. CASE up /\ \E c \in Cmds : Command(c) \/ \E j \in Jobs : Submit(c, j)
  BY <1>2, Locking, Submitting, Bodies, Saving, LoggingIn DEF Command
<1>3. CASE Kill
  BY <1>3 DEF Kill, stores, IInv, TypeOK, Exclusive, Working, InMemory, PromisesAreKept, Said,
    StaysValid, KeyringIsTheSaved, Busy, Saved
<1>4. CASE Start
  BY <1>4 DEF Start, stores, handlers, IInv, TypeOK, Exclusive, Working, InMemory,
    PromisesAreKept, Said, StaysValid, KeyringIsTheSaved, Busy, Saved
<1>5. QED  BY <1>1, <1>2, <1>3, <1>4 DEF Next

LEMMA Invariance == Spec => []IInv
  BY InitIInv, StepIInv, PTL DEF Spec

\* What a command that replied success changed is on disk, in the password
\* store and in the system until another command changes it: across any kill,
\* any failing step and any number of waiting commands.
THEOREM PromisesKept == Spec => []PromisesAreKept
<1>1. IInv => PromisesAreKept  BY DEF IInv
<1>2. QED  BY <1>1, Invariance, PTL

\* The configuration can be saved and loaded at every moment.
THEOREM AlwaysValid == Spec => []StaysValid
<1>1. IInv => StaysValid  BY DEF IInv
<1>2. QED  BY <1>1, Invariance, PTL

\* No switch, logout or kill leaves a password that the next start does not
\* know the account of.
THEOREM NoOrphanedPassword == Spec => []KeyringIsTheSaved
<1>1. IInv => KeyringIsTheSaved  BY DEF IInv
<1>2. QED  BY <1>1, Invariance, PTL

-----------------------------------------------------------------------------
(* The browser login *)

\* Headers that came first wait for their URL, and a request is allowed from
\* its URL to its end; an answer is there when Acquire is through.
LInv ==
  /\ ctx \in {"live", "done"}
  /\ ended \subseteq announced /\ allowed \subseteq announced
  /\ \A r \in Bearer :
       /\ r \in announced \ ended => r \in allowed
       /\ r \in headed \ announced => r \in extra \cup lost
  /\ answer \in Codes => phase = "done"
  /\ TokenIsFound /\ RecoveryIsTried

\* An answer, or another attempt.
LEMMA FailingKeeps ==
  ASSUME LInv, Running, NEW code \in Codes, Fails(code),
         code = "BROWSER_START_FAILED" => Dead \/ profile = "recovery"
  PROVE  LInv'
<1> USE NoneAssumption DEF LInv, TokenIsFound, RecoveryIsTried, Running, Dead, Codes, Blank
<1>1. ASSUME NEW a \in Codes, Answers(a), ctx' = ctx,
             a \in {"BROWSER_CONTROL_FAILED", "BROWSER_START_FAILED"} =>
               profile = "recovery" \/ (visible /\ Dead)
      PROVE  LInv'
  BY <1>1 DEF Answers, attempt
<1>2. ASSUME NEW p, NEW v, Attempt(p, v), UNCHANGED <<answer, ctx>> PROVE LInv'
  BY <1>2 DEF Attempt
<1>3. CASE profile = "recovery"  BY <1>1, <1>3 DEF Fails
<1>4. CASE profile # "recovery" /\ visible
  <2>1. CASE code = "BROWSER_CONTROL_FAILED" /\ ctx = "live"
    BY <1>2, <1>4, <2>1 DEF Fails, VisibleFails
  <2>2. CASE ~(code = "BROWSER_CONTROL_FAILED" /\ ctx = "live")
    <3>1. Answers(code) /\ ctx' = ctx  BY <1>4, <2>2 DEF Fails, VisibleFails
    <3>2. code \in {"BROWSER_CONTROL_FAILED", "BROWSER_START_FAILED"} => visible /\ Dead
      BY <1>4, <2>2
    <3>3. QED  BY <1>1, <3>1, <3>2
  <2>3. QED  BY <2>1, <2>2
<1>5. CASE profile # "recovery" /\ ~visible  BY <1>1, <1>2, <1>5 DEF Fails, HiddenFails
<1>6. QED  BY <1>3, <1>4, <1>5

LEMMA LoginStepKeeps == ASSUME LInv, LoginStep PROVE LInv'
<1>1. CASE ControlFails  BY <1>1, FailingKeeps DEF ControlFails, Running, Codes
<1>2. CASE NavigateFails  BY <1>2, FailingKeeps DEF NavigateFails, Running, Codes
<1>3. CASE TimesOut  BY <1>3, FailingKeeps DEF TimesOut, Running, Codes
<1>4. CASE Captures
  <2>1. CASE Answers("ok") /\ UNCHANGED ctx
    BY <1>4, <2>1 DEF Captures, Answers, Blank, LInv, TokenIsFound, RecoveryIsTried, Dead, attempt
  <2>2. CASE Fails("AUTH_FAILED")
    BY <1>4, <2>2, FailingKeeps DEF Captures, Running, Codes
  <2>3. QED  BY <1>4, <2>1, <2>2 DEF Captures
<1>5. CASE Controls \/ Navigates \/ Expires
  BY <1>5, NoneAssumption DEF Controls, Navigates, Expires, LInv, TokenIsFound, RecoveryIsTried,
    Running, Dead, attempt, page, Codes
<1>6. ASSUME NEW r \in Requests, Event(r) PROVE LInv'
  <2> USE NoneAssumption, RequestKinds DEF LInv, TokenIsFound, RecoveryIsTried, Dead, Offer, attempt
  <2>1. CASE RequestWillBeSent(r)  BY <2>1 DEF RequestWillBeSent, WaitsForUrl
  <2>2. CASE RequestExtraInfo(r)
    <3>1. UNCHANGED <<phase, attempt, ctx, answer, announced, ended, allowed>>
      BY <2>2 DEF RequestExtraInfo
    <3>2. headed' = headed \cup {r} /\ extra \subseteq extra' /\ lost \subseteq lost'
      BY <2>2 DEF RequestExtraInfo
    <3>3. token # None => token' # None  BY <2>2 DEF RequestExtraInfo
    <3>4. r \in Bearer /\ r \in allowed => token' # None  BY <2>2 DEF RequestExtraInfo
    <3>5. r \notin allowed => r \in extra' \cup lost' /\ (r \in ended => r \in lost')
      BY <2>2 DEF RequestExtraInfo
    <3>6. QED  BY <3>1, <3>2, <3>3, <3>4, <3>5
  <2>3. CASE LoadingEnds(r)  BY <2>3 DEF LoadingEnds
  <2>4. QED  BY <1>6, <2>1, <2>2, <2>3 DEF Event
<1>7. QED  BY <1>1, <1>2, <1>3, <1>4, <1>5, <1>6 DEF LoginStep

LEMMA LoginInvariance == Spec => []LInv
<1> USE NoneAssumption DEF LInv, TokenIsFound, RecoveryIsTried, Dead, Codes
<1>1. Init => LInv  BY DEF Init, BrowserInit
<1>2. ASSUME LInv, [Next]_vars PROVE LInv'
  <2>1. CASE UNCHANGED browserVars  BY <1>2, <2>1 DEF browserVars, attempt, page
  <2>2. CASE LoginStep  BY <1>2, <2>2, LoginStepKeeps
  <2>3. CASE \E v \in BOOLEAN : BeginLogin(v)
    BY <1>2, <2>3 DEF BeginLogin, Attempt, Answers, Blank, attempt
  <2>4. CASE EndLogin \/ BrowserLeaves \/ KillLogin \/ CancelLogin
    BY <1>2, <2>4 DEF EndLogin, BrowserLeaves, KillLogin, CancelLogin, Running, Blank, attempt, page
  <2>5. QED
    BY <1>2, <2>1, <2>2, <2>3, <2>4 DEF Next, vars, Command, Submit, LockCommand, LoginBody,
      LogoutBody, NodeBody, SettingsBody, WriteConfig, RenameConfig, SaveFails, LoginForgets,
      LoginBegins, LoginGot, LoginStores, Kill, Start
<1>3. QED  BY <1>1, <1>2, PTL DEF Spec

\* However the events of a page's requests interleave, a token whose events
\* have both come is found, unless the map was full or they came too late.
THEOREM TokensAreFound == Spec => []TokenIsFound
<1>1. LInv => TokenIsFound  BY DEF LInv
<1>2. QED  BY <1>1, LoginInvariance, PTL

\* A login gives up for want of a browser only after the recovery profile.
THEOREM RecoveryIsAlwaysTried == Spec => []RecoveryIsTried
<1>1. LInv => RecoveryIsTried  BY DEF LInv
<1>2. QED  BY <1>1, LoginInvariance, PTL
=============================================================================
