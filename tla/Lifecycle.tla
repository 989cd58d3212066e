----------------------------- MODULE Lifecycle -----------------------------
(***************************************************************************)
(* The agent's processes and the clients that start and stop them: Run     *)
(* (internal/agent/agent.go) with the lock file, the PID record and the    *)
(* IPC endpoint; Start and Stop (internal/agent/client.go), called by the  *)
(* command line, the GUI and the tray; RecoverStaleAgent of Windows        *)
(* (internal/platform).  Clients are independent processes; so are the     *)
(* agents they start.  Time is left out: a probe of an agent that answers  *)
(* may fail (its timeout, or all IPC slots are taken) and every wait may   *)
(* be over at any moment.                                                  *)
(*                                                                         *)
(* A PID record is named by its process; that of another process with the  *)
(* same PID is told apart by the start time.                               *)
(***************************************************************************)
EXTENDS Integers

CONSTANTS Clients,
          Agents,        \* processes; bound: as many at a time
          None,
          Recovers       \* the platform ends stale agents (Windows)

ASSUME NoneAssumption == None \notin Agents
ASSUME PlatformAssumption == Recovers \in BOOLEAN

VARIABLES lock, record, endpoint,   \* of the data directory
          agent,                    \* where a process is
          at, again, child, target    \* of each client

files == <<lock, record, endpoint>>
clients == <<at, again, child, target>>
vars == <<files, agent, clients>>

Holding == {"locked", "writing", "starting", "serving", "stopping", "unlock"}
Alive == {"new", "clear", "remove"} \cup Holding

TypeOK ==
  /\ lock \in Agents \cup {None} /\ record \in Agents \cup {None}
  /\ endpoint \in Agents \cup {None}
  /\ agent \in [Agents -> {"dead", "already"} \cup Alive]
  /\ at \in [Clients -> {"idle", "spawn", "await", "poll", "recover",
                         "end", "clear", "remove"}]
  /\ again \in [Clients -> BOOLEAN]
  /\ child \in [Clients -> Agents \cup {None}]
  /\ target \in [Clients -> Agents \cup {None}]
  /\ \A k \in Clients : /\ child[k] # None <=> at[k] = "await"
                        /\ target[k] # None <=> at[k] \in {"end", "clear", "remove"}

Init ==
  /\ lock = None /\ record = None /\ endpoint = None
  /\ agent = [p \in Agents |-> "dead"]
  /\ at = [k \in Clients |-> "idle"]
  /\ child = [k \in Clients |-> None]
  /\ target = [k \in Clients |-> None]
  /\ again = [k \in Clients |-> FALSE]

-----------------------------------------------------------------------------
(* Run *)

Becomes(p, l) == agent' = [agent EXCEPT ![p] = l]
Closed(p) == IF endpoint = p THEN None ELSE endpoint

LockIgnored == TRUE           \* wrong: TryLock's answer is not looked at
LockFree == lock = None

TryLock(p) ==
  /\ agent[p] = "new"
  /\ IF LockFree THEN lock' = p /\ Becomes(p, "locked")
                 ELSE Becomes(p, "already") /\ UNCHANGED lock
  /\ UNCHANGED <<record, endpoint, clients>>

\* Wrong: a record that is there already is good enough.
RecordOnce(p) ==
  \/ agent[p] = "locked" /\ Becomes(p, "writing") /\ UNCHANGED record
  \/ agent[p] = "writing" /\ Becomes(p, "starting") /\ record' = IF record = None THEN p ELSE record

\* WriteAgentPID removes the record that an earlier agent left, then renames
\* its own into place.
WriteAgentPID(p) ==
  \/ agent[p] = "locked" /\ Becomes(p, "writing") /\ record' = None
  \/ agent[p] = "writing" /\ Becomes(p, "starting") /\ record' = p

Record(p) == WriteAgentPID(p) /\ UNCHANGED <<lock, endpoint, clients>>

\* Configuration, keys, ports: all there, the endpoint is up.  Or not.
Serves(p) ==
  /\ agent[p] = "starting"
  /\ Becomes(p, "serving") /\ endpoint' = p
  /\ UNCHANGED <<lock, record, clients>>

StartFails(p) ==
  /\ agent[p] \in {"locked", "writing", "starting"}
  /\ IF agent[p] = "starting" THEN Becomes(p, "unlock") /\ UNCHANGED lock
                              ELSE Becomes(p, "dead") /\ lock' = None
  /\ UNCHANGED <<record, endpoint, clients>>

\* A listener fails, or a hundred milliseconds after a stop request.
Cancel(p) == agent' = [agent EXCEPT ![p] = IF @ = "serving" THEN "stopping" ELSE @]

ListenerFails(p) ==
  /\ agent[p] = "serving"
  /\ Cancel(p)
  /\ UNCHANGED <<files, clients>>

CloseEndpoint(p) ==
  /\ agent[p] = "stopping" /\ endpoint = p
  /\ endpoint' = None
  /\ UNCHANGED <<lock, record, agent, clients>>

\* Wrong: the endpoint stays until the process is gone.
EndpointLeft(p) == UNCHANGED endpoint
EndpointClosed(p) == endpoint' = Closed(p)

\* The sessions are over (SshServer): the deferred calls begin.
Drained(p) ==
  /\ agent[p] = "stopping"
  /\ Becomes(p, "unlock") /\ EndpointClosed(p)
  /\ UNCHANGED <<lock, record, clients>>

\* The lock is given back before the record is cleared.
Unlock(p) ==
  /\ agent[p] = "unlock"
  /\ lock' = None
  /\ Becomes(p, "clear")
  /\ UNCHANGED <<record, endpoint, clients>>

\* ClearAgentPID reads the record and, if it is p's, removes what is there.
ClearAgentPID(p) ==
  /\ \/ agent[p] = "clear" /\ Becomes(p, IF record = p THEN "remove" ELSE "dead") /\ UNCHANGED record
     \/ agent[p] = "remove" /\ Becomes(p, "dead") /\ record' = None
  /\ UNCHANGED <<lock, endpoint, clients>>

\* The system frees what a process held; the record stays.
Killed(p) ==
  /\ IF agent[p] \in Alive THEN Becomes(p, "dead") ELSE UNCHANGED agent
  /\ lock' = IF lock = p THEN None ELSE lock
  /\ endpoint' = Closed(p)
  /\ UNCHANGED record

Crash(p) == agent[p] \in Alive /\ Killed(p) /\ UNCHANGED clients

-----------------------------------------------------------------------------
(* Start *)

Goto(k, l) == at' = [at EXCEPT ![k] = l]
Ends(k) ==       \* with its answer
  /\ Goto(k, "idle")
  /\ again' = [again EXCEPT ![k] = FALSE]
Proceeds(k, l) == Goto(k, l) /\ UNCHANGED again
Responds == endpoint # None

\* A process that nobody knows of may be the next one.
Fresh == {p \in Agents : agent[p] \notin Alive /\ record # p
                          /\ \A k \in Clients : p \notin {child[k], target[k]}}
Forget(k) == child' = [child EXCEPT ![k] = None]

\* An agent that answers its first probe is all Start wants; here none does.
Start(k) ==
  /\ at[k] = "idle"
  /\ Goto(k, "spawn")
  /\ again' = [again EXCEPT ![k] = TRUE]
  /\ UNCHANGED <<files, agent, child, target>>

\* startAgentProcess, which may fail.
Spawn(k) ==
  /\ at[k] = "spawn"
  /\ \/ \E p \in Fresh : /\ Becomes(p, "new") /\ child' = [child EXCEPT ![k] = p]
                         /\ Proceeds(k, "await")
     \/ Ends(k) /\ UNCHANGED <<agent, child>>
  /\ UNCHANGED <<files, target>>

\* The agent that responds need not be the child.
ChildServes(k) ==
  /\ at[k] = "await" /\ Responds
  /\ Ends(k) /\ Forget(k)
  /\ UNCHANGED <<files, agent, target>>

ChildExits(k) ==
  /\ at[k] = "await" /\ agent[child[k]] \notin Alive
  /\ IF agent[child[k]] = "already" THEN Proceeds(k, "recover") ELSE Ends(k)
  /\ Forget(k)
  /\ UNCHANGED <<files, agent, target>>

RetriesForever(k) == TRUE        \* wrong: the attempts are not counted
FirstAttempt(k) == again[k]

\* The next attempt of Start, or its error.  Stop has none.
Again(k) ==
  IF FirstAttempt(k)
    THEN Goto(k, "spawn") /\ again' = [again EXCEPT ![k] = FALSE]
    ELSE Ends(k)

\* After ten seconds the child is ended; so it is when the client gives up.
AwaitTimeout(k) ==
  /\ at[k] = "await"
  /\ Killed(child[k])
  /\ Again(k) \/ Ends(k)
  /\ Forget(k)
  /\ UNCHANGED target

-----------------------------------------------------------------------------
(* Stop *)

Stop(k) ==
  /\ at[k] = "idle"
  /\ \/ Responds /\ Cancel(endpoint) /\ Goto(k, "poll")
     \/ Goto(k, "recover") /\ UNCHANGED agent
  /\ UNCHANGED <<files, again, child, target>>

\* It polls until a probe fails, or its own time is over.
Poll(k) ==
  /\ at[k] = "poll"
  /\ Ends(k)
  /\ UNCHANGED <<files, agent, child, target>>

-----------------------------------------------------------------------------
(* RecoverStaleAgent: for Start, when its child finds the lock taken and, a *)
(* second later, no agent answers; for Stop, when its request fails         *)

\* A record, and its process is there; with its start time and program, the
\* agent's.
Recoverable == Recovers /\ record \in {p \in Agents : agent[p] \in Alive}

\* An agent answers Start by now, or there is nothing to recover, or the
\* system refuses.
RecoversNothing(k) ==
  /\ at[k] = "recover"
  /\ Ends(k)
  /\ UNCHANGED <<files, agent, child, target>>

OpenProcess(k) ==
  /\ at[k] = "recover" /\ Recoverable
  /\ target' = [target EXCEPT ![k] = record]
  /\ Proceeds(k, "end")
  /\ UNCHANGED <<files, agent, child>>

NoTarget(k) == target' = [target EXCEPT ![k] = None]

\* It may fail, or its process may take more than five seconds to be gone.
TerminateProcess(k) ==
  /\ at[k] = "end"
  /\ \/ Killed(target[k]) /\ Proceeds(k, "clear") /\ UNCHANGED target
     \/ (Killed(target[k]) \/ UNCHANGED <<files, agent>>) /\ Ends(k) /\ NoTarget(k)
  /\ UNCHANGED child

Recovered(k) == Again(k) /\ NoTarget(k)

\* ClearAgentPID again, by the client.
ClearRecord(k) ==
  /\ \/ /\ at[k] = "clear" /\ record = target[k]
        /\ Proceeds(k, "remove") /\ UNCHANGED <<record, target>>
     \/ at[k] = "clear" /\ record # target[k] /\ Recovered(k) /\ UNCHANGED record
     \/ at[k] = "remove" /\ Recovered(k) /\ record' = None
  /\ UNCHANGED <<lock, endpoint, agent, child>>

-----------------------------------------------------------------------------
Agent(p) ==
  \/ TryLock(p) \/ Record(p) \/ Serves(p) \/ StartFails(p)
  \/ CloseEndpoint(p) \/ Drained(p) \/ Unlock(p) \/ ClearAgentPID(p)

Client(k) ==
  \/ Spawn(k) \/ ChildServes(k) \/ ChildExits(k) \/ AwaitTimeout(k)
  \/ Poll(k)
  \/ RecoversNothing(k) \/ OpenProcess(k) \/ TerminateProcess(k) \/ ClearRecord(k)

Next ==
  \/ \E p \in Agents : Agent(p) \/ ListenerFails(p) \/ Crash(p)
  \/ \E k \in Clients : Start(k) \/ Stop(k) \/ Client(k)

Spec == Init /\ [][Next]_vars

\* Processes run, and every wait of a client has a timeout.
Fairness ==
  /\ \A p \in Agents : WF_vars(Agent(p))
  /\ \A k \in Clients : WF_vars(Client(k))

FairSpec == Spec /\ Fairness
-----------------------------------------------------------------------------
(* Properties *)

\* The endpoint is that of the lock's holder, and it is gone before the lock
\* is free: whoever gets the lock may remove a socket that is still there.
EndpointIsTheHolders ==
  endpoint # None => lock = endpoint /\ agent[endpoint] \in {"serving", "stopping"}

\* Recovery ends no process but an agent that has the lock or has just given
\* it back: a record never names one that is still to try the lock.
OnlyAgentsAreEnded ==
  /\ record # None /\ agent[record] \in Alive =>
       lock = record \/ agent[record] \in {"clear", "remove"}
  /\ \A k \in Clients : at[k] = "end" /\ agent[target[k]] \in Alive =>
       lock = target[k] \/ agent[target[k]] \in {"clear", "remove"}

\* Every Start and Stop ends, whoever starts, stops or ends agents meanwhile.
EveryCallEnds == \A k \in Clients : at[k] # "idle" ~> at[k] = "idle"

\* With the lock and its record written, an agent finds no other's record in
\* its place, though processes that have given up the lock, and clients that
\* ended one, may still be clearing theirs.  (It may find none.)
NoOthersRecord ==
  \A p \in Agents : agent[p] \in {"starting", "serving", "stopping"} => record \in {p, None}
=============================================================================
