-------------------------- MODULE LifecycleProofs --------------------------
(***************************************************************************)
(* Proofs about Lifecycle for any number of clients and processes, with    *)
(* and without recovery: the type invariant and the three invariants.      *)
(*                                                                         *)
(* The endpoint, the record and a recovery's target each name a process;   *)
(* the argument is how far in Run that process has come.  Holders makes    *)
(* the lock and that place the same thing, so that at most one process is  *)
(* past TryLock, and whatever a process does there nobody else does.       *)
(***************************************************************************)
EXTENDS Lifecycle, TLAPS

\* A process between TryLock and Unlock is the one that the lock names.
Holders ==
  /\ \A p \in Agents : agent[p] \in Holding => lock = p
  /\ lock # None => agent[lock] \in Holding

\* Who answers has started and not yet ended.
EndpointUp == endpoint # None => agent[endpoint] \in {"serving", "stopping"}

\* Nobody's record is there before the holder has written its own.
Unwritten == {"new", "locked", "writing"}
RecordWritten ==
  /\ record # None => agent[record] \notin Unwritten
  /\ \A p \in Agents : agent[p] = "writing" => record = None

\* A recovery has its target from a record, and the name is not used again.
TargetWritten == \A k \in Clients : target[k] # None => agent[target[k]] \notin Unwritten

IInv ==
  /\ TypeOK /\ Holders /\ EndpointUp /\ RecordWritten /\ TargetWritten
  /\ NoOthersRecord

-----------------------------------------------------------------------------
LEMMA InitIInv == Init => IInv
  BY NoneAssumption DEF Init, IInv, TypeOK, Holders, EndpointUp, RecordWritten, TargetWritten,
    NoOthersRecord, Holding, Alive, Unwritten

\* The steps of an agent's process.
LEMMA AgentStep == ASSUME IInv, NEW p \in Agents, Agent(p) \/ ListenerFails(p) \/ Crash(p) PROVE IInv'
<1> USE NoneAssumption DEF IInv, TypeOK, Holders, EndpointUp, RecordWritten, TargetWritten,
    NoOthersRecord, Holding, Alive, Unwritten, files, clients, Becomes
<1>1. CASE TryLock(p)  BY <1>1 DEF TryLock, LockFree
<1>2. CASE Record(p)  BY <1>2 DEF Record, WriteAgentPID
<1>3. CASE Serves(p)  BY <1>3 DEF Serves
<1>4. CASE StartFails(p)  BY <1>4 DEF StartFails
<1>5. CASE CloseEndpoint(p)  BY <1>5 DEF CloseEndpoint
<1>6. CASE Drained(p)  BY <1>6 DEF Drained, EndpointClosed, Closed
<1>7. CASE Unlock(p)  BY <1>7 DEF Unlock
<1>8. CASE ClearAgentPID(p)  BY <1>8 DEF ClearAgentPID
<1>9. CASE ListenerFails(p)  BY <1>9 DEF ListenerFails, Cancel
<1>10. CASE Crash(p)  BY <1>10 DEF Crash, Killed, Closed
<1>11. QED  BY <1>1, <1>2, <1>3, <1>4, <1>5, <1>6, <1>7, <1>8, <1>9, <1>10 DEF Agent

\* Ending a process keeps what is said of processes, whoever ends it, and
\* brings none back before its record.
LEMMA KillingKeeps ==
  ASSUME IInv, NEW p \in Agents, Killed(p)
  PROVE  /\ lock' \in Agents \cup {None} /\ record' = record /\ endpoint' \in Agents \cup {None}
         /\ agent' \in [Agents -> {"dead", "already"} \cup Alive]
         /\ Holders' /\ EndpointUp' /\ RecordWritten' /\ NoOthersRecord'
         /\ \A q \in Agents : agent[q] \notin Unwritten => agent'[q] \notin Unwritten
  BY NoneAssumption DEF IInv, TypeOK, Holders, EndpointUp, RecordWritten, NoOthersRecord,
    Holding, Alive, Unwritten, Killed, Becomes, Closed

\* An attempt that is over leaves the client idle or at the next one.
LEMMA AttemptOver ==
  ASSUME TypeOK, NEW k \in Clients, Again(k) \/ Ends(k)
  PROVE  /\ again' \in [Clients -> BOOLEAN]
         /\ at' = [at EXCEPT ![k] = "idle"] \/ at' = [at EXCEPT ![k] = "spawn"]
  BY DEF TypeOK, Again, FirstAttempt, Ends, Goto

\* The steps of a client.
LEMMA ClientStep == ASSUME IInv, NEW k \in Clients, Start(k) \/ Stop(k) \/ Client(k) PROVE IInv'
<1> USE NoneAssumption DEF IInv, TypeOK, Holders, EndpointUp, RecordWritten, TargetWritten,
    NoOthersRecord, Holding, Alive, Unwritten, files, clients, Becomes, Goto, Ends, Proceeds
<1>1. CASE Start(k)  BY <1>1 DEF Start
<1>2. CASE Stop(k)  BY <1>2 DEF Stop, Responds, Cancel
<1>3. CASE Spawn(k)
  <2>1. ASSUME NEW p \in Fresh, Becomes(p, "new"), child' = [child EXCEPT ![k] = p],
               Proceeds(k, "await"), UNCHANGED <<files, target>>
        PROVE  IInv'
    <3>1. TypeOK'  BY <1>3, <2>1 DEF Spawn, Fresh
    <3>2. /\ p \in Agents /\ record # p /\ lock # p /\ endpoint # p
          /\ \A j \in Clients : target[j] # p
      BY <2>1 DEF Fresh
    <3>3. Holders' /\ EndpointUp' /\ RecordWritten' /\ NoOthersRecord'  BY <2>1, <3>2
    <3>4. TargetWritten'  BY <2>1, <3>2
    <3>5. QED  BY <3>1, <3>3, <3>4
  <2>2. CASE Ends(k) /\ UNCHANGED <<agent, child>>  BY <1>3, <2>2 DEF Spawn
  <2>3. QED  BY <1>3, <2>1, <2>2 DEF Spawn
<1>4. CASE ChildServes(k)  BY <1>4 DEF ChildServes, Forget
<1>5. CASE ChildExits(k)  BY <1>5 DEF ChildExits, Forget
<1>6. CASE AwaitTimeout(k)
  <2>1. child[k] \in Agents /\ Killed(child[k])  BY <1>6 DEF AwaitTimeout
  <2>2. /\ lock' \in Agents \cup {None} /\ record' = record /\ endpoint' \in Agents \cup {None}
        /\ agent' \in [Agents -> {"dead", "already"} \cup Alive]
        /\ Holders' /\ EndpointUp' /\ RecordWritten' /\ NoOthersRecord'
        /\ \A q \in Agents : agent[q] \notin Unwritten => agent'[q] \notin Unwritten
    BY <2>1, KillingKeeps
  <2>3. TypeOK'
    <3>1. /\ again' \in [Clients -> BOOLEAN]
          /\ at' = [at EXCEPT ![k] = "idle"] \/ at' = [at EXCEPT ![k] = "spawn"]
      BY <1>6, AttemptOver DEF AwaitTimeout
    <3>2. at[k] = "await" /\ UNCHANGED target /\ child' = [child EXCEPT ![k] = None]
      BY <1>6 DEF AwaitTimeout, Forget
    <3>3. QED  BY <2>2, <3>1, <3>2
  <2>4. TargetWritten'  BY <1>6, <2>2 DEF AwaitTimeout
  <2>5. QED  BY <2>2, <2>3, <2>4
<1>7. CASE Poll(k)  BY <1>7 DEF Poll
<1>8. CASE RecoversNothing(k)  BY <1>8 DEF RecoversNothing
<1>9. CASE OpenProcess(k)  BY <1>9 DEF OpenProcess, Recoverable
<1>10. CASE TerminateProcess(k)
  <2>1. target[k] \in Agents /\ (Killed(target[k]) \/ UNCHANGED <<files, agent>>)
    BY <1>10 DEF TerminateProcess
  <2>2. /\ lock' \in Agents \cup {None} /\ record' = record /\ endpoint' \in Agents \cup {None}
        /\ agent' \in [Agents -> {"dead", "already"} \cup Alive]
        /\ Holders' /\ EndpointUp' /\ RecordWritten' /\ NoOthersRecord'
        /\ \A q \in Agents : agent[q] \notin Unwritten => agent'[q] \notin Unwritten
    <3>1. CASE Killed(target[k])  BY <2>1, <3>1, KillingKeeps
    <3>2. CASE UNCHANGED <<files, agent>>  BY <3>2
    <3>3. QED  BY <2>1, <3>1, <3>2
  <2>3. TypeOK'
    <3>1. again' \in [Clients -> BOOLEAN]  BY <1>10 DEF TerminateProcess
    <3>2. /\ at[k] = "end" /\ UNCHANGED child
          /\ \/ at' = [at EXCEPT ![k] = "clear"] /\ UNCHANGED target
             \/ at' = [at EXCEPT ![k] = "idle"] /\ target' = [target EXCEPT ![k] = None]
      BY <1>10 DEF TerminateProcess, NoTarget
    <3>3. QED  BY <2>2, <3>1, <3>2
  <2>4. TargetWritten'  BY <1>10, <2>2 DEF TerminateProcess, NoTarget
  <2>5. QED  BY <2>2, <2>3, <2>4
<1>11. CASE ClearRecord(k)
  <2>1. TypeOK'
    <3>1. CASE Recovered(k)
      <4>1. /\ again' \in [Clients -> BOOLEAN]
            /\ at' = [at EXCEPT ![k] = "idle"] \/ at' = [at EXCEPT ![k] = "spawn"]
        BY <3>1, AttemptOver DEF Recovered
      <4>2. /\ at[k] \in {"clear", "remove"} /\ target' = [target EXCEPT ![k] = None]
            /\ record' \in {record, None} /\ UNCHANGED <<lock, endpoint, agent, child>>
        BY <1>11, <3>1 DEF ClearRecord, Recovered, NoTarget
      <4>3. QED  BY <4>1, <4>2
    <3>2. CASE at[k] = "clear" /\ Proceeds(k, "remove") /\ UNCHANGED <<record, target>>
      BY <1>11, <3>2 DEF ClearRecord
    <3>3. QED  BY <1>11, <3>1, <3>2 DEF ClearRecord
  <2>2. record' \in {record, None} /\ UNCHANGED <<lock, endpoint, agent>>  BY <1>11 DEF ClearRecord
  <2>3. Holders' /\ EndpointUp' /\ RecordWritten' /\ NoOthersRecord'  BY <2>2
  <2>4. TargetWritten'  BY <1>11, <2>2 DEF ClearRecord, Recovered, NoTarget
  <2>5. QED  BY <2>1, <2>3, <2>4
<1>12. QED  BY <1>1, <1>2, <1>3, <1>4, <1>5, <1>6, <1>7, <1>8, <1>9, <1>10, <1>11 DEF Client

LEMMA StepIInv == IInv /\ [Next]_vars => IInv'
<1> SUFFICES ASSUME IInv, [Next]_vars PROVE IInv'
  OBVIOUS
<1>1. CASE Next  BY <1>1, AgentStep, ClientStep DEF Next
<1>2. CASE UNCHANGED vars
  BY <1>2 DEF IInv, TypeOK, Holders, EndpointUp, RecordWritten, TargetWritten, NoOthersRecord,
    vars, files, clients
<1>3. QED  BY <1>1, <1>2

\* The inductive invariant holds.
THEOREM Invariance == Spec => []IInv
  BY InitIInv, StepIInv, PTL DEF Spec

-----------------------------------------------------------------------------
\* The files, the processes and the clients keep their shape; a client has a
\* child exactly while it awaits it and a target while it ends it.
THEOREM TypeCorrect == Spec => []TypeOK
  BY Invariance, PTL DEF IInv

\* Whoever answers on the endpoint has the lock.
THEOREM OneEndpoint == Spec => []EndpointIsTheHolders
<1>1. IInv => EndpointIsTheHolders
  BY DEF IInv, TypeOK, Holders, EndpointUp, EndpointIsTheHolders, Holding
<1>2. QED  BY <1>1, Invariance, PTL

\* RecoverStaleAgent ends only processes that have had the lock.
THEOREM Recovery == Spec => []OnlyAgentsAreEnded
<1>1. IInv => OnlyAgentsAreEnded
  BY NoneAssumption DEF IInv, TypeOK, Holders, RecordWritten, TargetWritten, OnlyAgentsAreEnded,
    Holding, Alive, Unwritten
<1>2. QED  BY <1>1, Invariance, PTL

\* No agent that has written its record finds another's in its place.
THEOREM OwnRecord == Spec => []NoOthersRecord
  BY Invariance, PTL DEF IInv
=============================================================================
