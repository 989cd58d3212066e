----------------------------- MODULE SshServer -----------------------------
(***************************************************************************)
(* The connections of the local SSH server (internal/sshserver, Serve,     *)
(* handle, DisconnectAll, Wait) from Accept to the end of their sessions,  *)
(* and the stop of the agent that closes and waits for them (agent.go,     *)
(* Run).  A section under Server.mu is a step; the sessions of a           *)
(* connection are counted, what one does is in SshSession.  A client may   *)
(* come, leave and come again at any moment, or stay for ever.             *)
(***************************************************************************)
EXTENDS Integers, FiniteSets

CONSTANTS Conns,         \* sockets of clients
          None,
          MaxConns,      \* 64
          MaxSessions    \* sessions of a connection (16)

ASSUME NoneAssumption == None \notin Conns
ASSUME LimitsAssumption == MaxConns \in Nat \ {0} /\ MaxSessions \in Nat \ {0}

VARIABLES run, closer,          \* Run; the goroutine that awaits ctx.Done
          listener, serve, accepted,   \* the loop of Serve, the socket it has
          table, wg,            \* Server.conns, Server.wg
          raw,                  \* the socket of each connection
          handler,              \* its goroutine
          cancelled,            \* its context is cancelled
          sessions              \* its session goroutines, each with a place

stop == <<run, closer>>
serveVars == <<listener, serve, accepted>>
conn == <<handler, cancelled, sessions>>
vars == <<stop, serveVars, table, wg, raw, conn>>

TypeOK ==
  /\ run \in {"running", "stop", "wait", "over"} /\ closer \in {"idle", "disconnect", "over"}
  /\ listener \in {"open", "closed"} /\ serve \in {"accept", "enter", "add", "over"}
  /\ accepted \in Conns \cup {None} /\ (accepted = None <=> serve \in {"accept", "over"})
  /\ table \subseteq Conns /\ Cardinality(table) <= MaxConns
  /\ wg \in Nat
  /\ raw \in [Conns -> {"none", "dialled", "open", "closed"}]
  /\ handler \in [Conns -> {"none", "handshake", "serving", "draining", "done"}]
  /\ cancelled \in [Conns -> BOOLEAN]
  /\ sessions \in [Conns -> 0 .. MaxSessions]

Init ==
  /\ run = "running" /\ closer = "idle"
  /\ listener = "open" /\ serve = "accept" /\ accepted = None
  /\ table = {} /\ wg = 0
  /\ raw = [c \in Conns |-> "none"]
  /\ handler = [c \in Conns |-> "none"]
  /\ cancelled = [c \in Conns |-> FALSE]
  /\ sessions = [c \in Conns |-> 0]

CtxDone == run # "running"
Becomes(c, l) == handler' = [handler EXCEPT ![c] = l]
Shut(S) == raw' = [c \in Conns |-> IF c \in S /\ raw[c] # "none" THEN "closed" ELSE raw[c]]

-----------------------------------------------------------------------------
(* Clients *)

Dial(c) ==
  /\ raw[c] = "none" /\ listener = "open"
  /\ raw' = [raw EXCEPT ![c] = "dialled"]
  /\ UNCHANGED <<stop, serveVars, table, wg, conn>>

Leave(c) ==
  /\ raw[c] \in {"dialled", "open"}
  /\ Shut({c})
  /\ UNCHANGED <<stop, serveVars, table, wg, conn>>

\* A connection that is over makes room for another one.
Gone(c) ==
  /\ raw[c] = "closed" /\ handler[c] \in {"none", "done"} /\ accepted # c
  /\ raw' = [raw EXCEPT ![c] = "none"]
  /\ Becomes(c, "none")
  /\ cancelled' = [cancelled EXCEPT ![c] = FALSE]
  /\ UNCHANGED <<stop, serveVars, table, wg, sessions>>

-----------------------------------------------------------------------------
(* Serve *)

Accept(c) ==
  /\ serve = "accept" /\ listener = "open" /\ raw[c] = "dialled"
  /\ raw' = [raw EXCEPT ![c] = "open"]
  /\ accepted' = c /\ serve' = "enter"
  /\ UNCHANGED <<stop, listener, table, wg, conn>>

AcceptFails ==
  /\ serve = "accept" /\ listener = "closed"
  /\ serve' = "over"
  /\ UNCHANGED <<stop, listener, accepted, table, wg, raw, conn>>

Room == Cardinality(table) < MaxConns

\* Under mu: the connection is entered in the table, or turned away.
Enter ==
  /\ serve = "enter"
  /\ IF Room
       THEN table' = table \cup {accepted} /\ serve' = "add" /\ UNCHANGED <<raw, accepted>>
       ELSE Shut({accepted}) /\ serve' = "accept" /\ accepted' = None /\ UNCHANGED table
  /\ UNCHANGED <<stop, listener, wg, conn>>

Handle ==
  /\ serve = "add"
  /\ wg' = wg + 1
  /\ Becomes(accepted, "handshake")
  /\ serve' = "accept" /\ accepted' = None
  /\ UNCHANGED <<stop, listener, table, raw, cancelled, sessions>>

DisconnectAll == Shut(table)

\* Any command of the agent that changes the account calls it.
Command ==
  /\ ~CtxDone
  /\ DisconnectAll
  /\ UNCHANGED <<stop, serveVars, table, wg, conn>>

\* ctx.Done: the listener is closed, clients that are not accepted are
\* refused, then the connections are closed.
CloseListener ==
  /\ closer = "idle" /\ CtxDone
  /\ listener' = "closed" /\ closer' = "disconnect"
  /\ Shut({c \in Conns : raw[c] = "dialled"})
  /\ UNCHANGED <<run, serve, accepted, table, wg, conn>>

CloserDisconnects ==
  /\ closer = "disconnect"
  /\ DisconnectAll
  /\ closer' = "over"
  /\ UNCHANGED <<run, serveVars, table, wg, conn>>

-----------------------------------------------------------------------------
(* handle *)

\* Wrong: the deferred call is made after the handshake only.
LeaveTableServed(c) == table' = IF handler[c] = "handshake" THEN table ELSE table \ {c}
LeaveTable(c) == table' = table \ {c}

\* The deadline passes, the key is wrong, or the client is gone.
HandshakeFails(c) ==
  /\ handler[c] = "handshake"
  /\ Shut({c})
  /\ LeaveTable(c)
  /\ Becomes(c, "done") /\ wg' = wg - 1
  /\ UNCHANGED <<stop, serveVars, cancelled, sessions>>

Handshake(c) ==
  /\ handler[c] = "handshake" /\ raw[c] = "open"
  /\ Becomes(c, "serving")
  /\ UNCHANGED <<stop, serveVars, table, wg, raw, cancelled, sessions>>

\* The client opens a session and there is a place.  Without one, or when
\* nc.Accept fails and gives the place back, nothing changes.
OpenSession(c) ==
  /\ handler[c] = "serving" /\ raw[c] = "open"
  /\ sessions[c] < MaxSessions
  /\ sessions' = [sessions EXCEPT ![c] = @ + 1]
  /\ UNCHANGED <<stop, serveVars, table, wg, raw, handler, cancelled>>

\* When the connection is gone, its context is cancelled.
CancelNever(c) == UNCHANGED cancelled       \* wrong: nobody waits for its end
Cancel(c) == cancelled' = [cancelled EXCEPT ![c] = TRUE]

ConnEnds(c) ==
  /\ handler[c] \in {"serving", "draining"} /\ raw[c] = "closed" /\ ~cancelled[c]
  /\ Cancel(c)
  /\ UNCHANGED <<stop, serveVars, table, wg, raw, handler, sessions>>

\* A session ends by itself or, certainly, when its context does.
SessionEnds(c) ==
  /\ sessions[c] > 0
  /\ sessions' = [sessions EXCEPT ![c] = @ - 1]
  /\ UNCHANGED <<stop, serveVars, table, wg, raw, handler, cancelled>>

NoMoreChannels(c) ==
  /\ handler[c] = "serving" /\ raw[c] = "closed"
  /\ Becomes(c, "draining")
  /\ UNCHANGED <<stop, serveVars, table, wg, raw, cancelled, sessions>>

SessionsOver(c) == sessions[c] = 0

\* The deferred calls: wait, cancel, close, leave the table, wg.Done.
HandleEnds(c) ==
  /\ handler[c] = "draining" /\ SessionsOver(c)
  /\ cancelled' = [cancelled EXCEPT ![c] = TRUE]
  /\ LeaveTable(c)
  /\ Becomes(c, "done") /\ wg' = wg - 1
  /\ UNCHANGED <<stop, serveVars, raw, sessions>>

-----------------------------------------------------------------------------
(* Run: ctx is cancelled, then DisconnectAll, then Wait *)

Stop ==
  /\ run = "running"
  /\ run' = "stop"
  /\ UNCHANGED <<closer, serveVars, table, wg, raw, conn>>

RunDisconnects ==
  /\ run = "stop"
  /\ DisconnectAll
  /\ run' = "wait"
  /\ UNCHANGED <<closer, serveVars, table, wg, conn>>

Wait ==
  /\ run = "wait" /\ wg = 0
  /\ run' = "over"
  /\ UNCHANGED <<closer, serveVars, table, wg, raw, conn>>

-----------------------------------------------------------------------------
Serve == (\E c \in Conns : Accept(c)) \/ AcceptFails \/ Enter \/ Handle
Closer == CloseListener \/ CloserDisconnects
Handler(c) == HandshakeFails(c) \/ Handshake(c) \/ NoMoreChannels(c) \/ HandleEnds(c)

Next ==
  \/ \E c \in Conns : Dial(c) \/ Leave(c) \/ Gone(c) \/ OpenSession(c)
  \/ Serve \/ Closer \/ Command
  \/ \E c \in Conns : Handler(c) \/ ConnEnds(c) \/ SessionEnds(c)
  \/ Stop \/ RunDisconnects \/ Wait

Spec == Init /\ [][Next]_vars

\* Goroutines run, a handshake has a deadline, and a session ends with its
\* context (SshSession, AllEnd).  No client has to leave.
Fairness ==
  /\ WF_vars(Serve) /\ WF_vars(Closer) /\ WF_vars(RunDisconnects) /\ WF_vars(Wait)
  /\ \A c \in Conns :
       /\ WF_vars(Handler(c)) /\ WF_vars(ConnEnds(c))
       /\ WF_vars((cancelled[c] \/ CtxDone) /\ SessionEnds(c))

FairSpec == Spec /\ Fairness
-----------------------------------------------------------------------------
(* Properties *)

\* DisconnectAll reaches every connection that is served: a goroutine has its
\* connection in the table until it is through, and nothing else is there, so
\* that no place of the 64 is lost.
Entered(c) == serve = "add" /\ accepted = c
HandledIsListed ==
  \A c \in Conns :
    c \in table <=> Entered(c) \/ handler[c] \in {"handshake", "serving", "draining"}

\* A connection that is closed, by its client, a command or the stop of the
\* agent, is through after a while, whatever its sessions do.
ClosedEnds == \A c \in Conns : handler[c] = "serving" /\ raw[c] = "closed" ~> handler[c] = "done"

\* The agent stops: Wait returns once the connections are closed.
StopEnds == run = "stop" ~> run = "over"
=============================================================================
