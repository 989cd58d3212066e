----------------------------- MODULE SshProofs -----------------------------
(***************************************************************************)
(* Proofs about SshServer for any set of connections and any limits: the   *)
(* type invariant and HandledIsListed; and about a session of a            *)
(* connection, SshSession, for any terminal sizes, any length of the queue *)
(* and any number of requests: the type invariant, LatestSize and          *)
(* NoSocketLeft.                                                           *)
(*                                                                         *)
(* The server's strengthening says in which order a connection goes        *)
(* through its socket, the loop of Serve and its goroutine (Sockets), and  *)
(* that Wait counts the goroutines (Counted).  The session's follows the   *)
(* worker (Stages): before it has connected there is no socket, until it   *)
(* has attached the socket the loop knows of none and the WebShell has the *)
(* size of the handshake, and once it is over the socket is closed,        *)
(* whether or not the loop is still there.                                 *)
(***************************************************************************)
EXTENDS SshServer, SshSession, FiniteSetTheorems, SequenceTheorems, TLAPS

-----------------------------------------------------------------------------
(* The server *)

\* A connection has no goroutine before Serve has accepted it, nor while
\* Serve still holds it.
Sockets ==
  /\ \A c \in Conns : raw[c] \in {"none", "dialled"} => handler[c] = "none"
  /\ accepted # None => handler[accepted] = "none" /\ raw[accepted] \in {"open", "closed"}

\* wg counts the goroutines of the connections.
Active == {c \in Conns : handler[c] \in {"handshake", "serving", "draining"}}
Counted == IsFiniteSet(Active) /\ wg = Cardinality(Active)

IInv ==
  /\ TypeOK /\ Sockets /\ Counted
  /\ IsFiniteSet(table)
  /\ HandledIsListed

-----------------------------------------------------------------------------
LEMMA InitIInv == Init => IInv
<1> SUFFICES ASSUME Init PROVE IInv
  OBVIOUS
<1>1. Active = {} /\ table = {}  BY DEF Init, Active
<1>2. IsFiniteSet({}) /\ Cardinality({}) = 0  BY FS_EmptySet
<1>3. TypeOK  BY <1>1, <1>2, LimitsAssumption DEF Init, TypeOK
<1>4. Sockets /\ HandledIsListed
  BY DEF Init, Sockets, HandledIsListed, Entered
<1>5. QED  BY <1>1, <1>2, <1>3, <1>4 DEF Init, IInv, Counted

-----------------------------------------------------------------------------
\* What a step does to the goroutines it does not name.
LEMMA Uncounted ==
  ASSUME IInv, handler' = handler, wg' = wg PROVE Counted'
<1>1. Active' = Active  BY DEF Active
<1>2. QED  BY <1>1 DEF IInv, Counted

\* The sockets: nobody's goroutine is affected when sockets are shut.
LEMMA Shutting ==
  ASSUME TypeOK, Sockets, NEW S, Shut(S), UNCHANGED <<handler, accepted>>
  PROVE  raw' \in [Conns -> {"none", "dialled", "open", "closed"}] /\ Sockets'
  BY DEF TypeOK, Sockets, Shut

\* The steps of clients and of the sessions.
LEMMA ClientStep ==
  ASSUME IInv, NEW c \in Conns,
         Dial(c) \/ Leave(c) \/ Gone(c) \/ OpenSession(c) \/ ConnEnds(c) \/ SessionEnds(c)
  PROVE  IInv'
<1> USE DEF IInv, TypeOK, Sockets, HandledIsListed, Entered, stop, serveVars, conn
<1>1. CASE Dial(c)  BY <1>1, Uncounted DEF Dial
<1>2. CASE Leave(c)  BY <1>2, Uncounted, Shutting DEF Leave
<1>3. CASE Gone(c)
  <2>1. Active' = Active  BY <1>3 DEF Gone, Active, Becomes
  <2>2. Counted'  BY <1>3, <2>1 DEF Gone, Counted
  <2>3. QED  BY <1>3, <2>2 DEF Gone, Becomes
<1>4. CASE OpenSession(c)  BY <1>4, Uncounted, LimitsAssumption DEF OpenSession
<1>5. CASE ConnEnds(c)  BY <1>5, Uncounted DEF ConnEnds, Cancel
<1>6. CASE SessionEnds(c)  BY <1>6, Uncounted, LimitsAssumption DEF SessionEnds
<1>7. QED  BY <1>1, <1>2, <1>3, <1>4, <1>5, <1>6

\* The loop of Serve: the table grows below the limit only, and a goroutine
\* is counted when it starts.
LEMMA ServeStep == ASSUME IInv, Serve PROVE IInv'
<1> USE NoneAssumption DEF IInv, TypeOK, Sockets, HandledIsListed, Entered, stop, serveVars, conn
<1>1. ASSUME NEW c \in Conns, Accept(c) PROVE IInv'  BY <1>1, Uncounted DEF Accept
<1>2. CASE AcceptFails  BY <1>2, Uncounted DEF AcceptFails
<1>3. CASE Enter
  <2>1. accepted \in Conns /\ accepted \notin table  BY <1>3 DEF Enter
  <2>2. CASE Room
    <3>1. table' = table \cup {accepted} /\ serve' = "add" /\ UNCHANGED <<raw, accepted>>
      BY <1>3, <2>2 DEF Enter
    <3>2. IsFiniteSet(table') /\ Cardinality(table') = Cardinality(table) + 1
      BY <2>1, <3>1, FS_AddElement
    <3>3. Cardinality(table) \in Nat  BY FS_CardinalityType
    <3>4. Cardinality(table') <= MaxConns  BY <2>2, <3>2, <3>3, LimitsAssumption DEF Room
    <3>5. QED  BY <1>3, <2>1, <3>1, <3>2, <3>4, Uncounted DEF Enter
  <2>3. CASE ~Room  BY <1>3, <2>1, <2>3, Uncounted DEF Enter, Shut
  <2>4. QED  BY <2>2, <2>3
<1>4. CASE Handle
  <2>1. accepted \in Conns /\ accepted \notin Active  BY <1>4 DEF Handle, Active
  <2>2. Active' = Active \cup {accepted}  BY <1>4, <2>1 DEF Handle, Active, Becomes
  <2>3. IsFiniteSet(Active') /\ Cardinality(Active') = Cardinality(Active) + 1
    BY <2>1, <2>2, FS_AddElement DEF Counted
  <2>4. Counted'  BY <1>4, <2>3 DEF Handle, Counted
  <2>5. QED  BY <1>4, <2>1, <2>4 DEF Handle, Becomes
<1>5. QED  BY <1>1, <1>2, <1>3, <1>4 DEF Serve

\* A goroutine that is through is not counted any more.
LEMMA HandlerDone ==
  ASSUME IInv, NEW c \in Active, Becomes(c, "done"), wg' = wg - 1, LeaveTable(c)
  PROVE  /\ wg' \in Nat /\ Counted'
         /\ IsFiniteSet(table') /\ Cardinality(table') <= MaxConns
<1>1. Active' = Active \ {c}  BY DEF IInv, TypeOK, Active, Becomes
<1>2. IsFiniteSet(Active') /\ Cardinality(Active') = Cardinality(Active) - 1
  BY <1>1, FS_RemoveElement DEF IInv, Counted
<1>3. Cardinality(Active') \in Nat  BY <1>2, FS_CardinalityType
<1>4. c \in table  BY DEF IInv, HandledIsListed, Active
<1>5. IsFiniteSet(table') /\ Cardinality(table') = Cardinality(table) - 1
  BY <1>4, FS_RemoveElement DEF IInv, LeaveTable
<1>6. Cardinality(table) \in Nat  BY FS_CardinalityType DEF IInv
<1>7. QED  BY <1>2, <1>3, <1>5, <1>6, LimitsAssumption DEF IInv, TypeOK, Counted

LEMMA HandlerStep == ASSUME IInv, NEW c \in Conns, Handler(c) PROVE IInv'
<1> USE NoneAssumption DEF IInv, TypeOK, Sockets, HandledIsListed, Entered, stop, serveVars, conn
<1>1. CASE HandshakeFails(c)
  <2>1. c \in Active  BY <1>1 DEF HandshakeFails, Active
  <2>2. wg' \in Nat /\ Counted' /\ IsFiniteSet(table') /\ Cardinality(table') <= MaxConns
    BY <1>1, <2>1, HandlerDone DEF HandshakeFails
  <2>3. /\ raw' \in [Conns -> {"none", "dialled", "open", "closed"}]
        /\ \A d \in Conns : raw'[d] = raw[d] \/ raw'[d] = "closed"
        /\ \A d \in Conns : raw'[d] \in {"none", "dialled"} => raw[d] = raw'[d]
        /\ raw[c] \notin {"none", "dialled"}
    BY <1>1 DEF HandshakeFails, Shut
  <2>4. /\ handler' = [handler EXCEPT ![c] = "done"] /\ table' = table \ {c} /\ accepted # c
        /\ UNCHANGED <<stop, serveVars, cancelled, sessions>>
    BY <1>1 DEF HandshakeFails, Becomes, LeaveTable
  <2>5. TypeOK'  BY <2>2, <2>3, <2>4
  <2>6. Sockets'  BY <2>3, <2>4
  <2>7. HandledIsListed'
    BY <1>1, <2>4 DEF HandshakeFails
  <2>8. QED  BY <2>2, <2>5, <2>6, <2>7
<1>2. CASE Handshake(c)
  <2>1. Active' = Active  BY <1>2 DEF Handshake, Active, Becomes
  <2>2. Counted'  BY <1>2, <2>1 DEF Handshake, Counted
  <2>3. QED  BY <1>2, <2>2 DEF Handshake, Becomes
<1>3. CASE NoMoreChannels(c)
  <2>1. Active' = Active  BY <1>3 DEF NoMoreChannels, Active, Becomes
  <2>2. Counted'  BY <1>3, <2>1 DEF NoMoreChannels, Counted
  <2>3. QED  BY <1>3, <2>2 DEF NoMoreChannels, Becomes
<1>4. CASE HandleEnds(c)
  <2>1. c \in Active  BY <1>4 DEF HandleEnds, Active
  <2>2. wg' \in Nat /\ Counted' /\ IsFiniteSet(table') /\ Cardinality(table') <= MaxConns
    BY <1>4, <2>1, HandlerDone DEF HandleEnds
  <2>3. QED  BY <1>4, <2>2 DEF HandleEnds, Becomes, LeaveTable, SessionsOver
<1>5. QED  BY <1>1, <1>2, <1>3, <1>4 DEF Handler

\* Commands and the stop: they shut sockets, the goroutines do the rest.
LEMMA StopStep ==
  ASSUME IInv, Closer \/ Command \/ Stop \/ RunDisconnects \/ Wait PROVE IInv'
<1> USE DEF IInv, TypeOK, HandledIsListed, Entered, stop, serveVars, conn, DisconnectAll
<1>1. CASE CloseListener  BY <1>1, Uncounted, Shutting DEF CloseListener
<1>2. CASE CloserDisconnects  BY <1>2, Uncounted, Shutting DEF CloserDisconnects
<1>3. CASE Command  BY <1>3, Uncounted, Shutting DEF Command
<1>4. CASE Stop  BY <1>4, Uncounted DEF Stop, Sockets
<1>5. CASE RunDisconnects  BY <1>5, Uncounted, Shutting DEF RunDisconnects
<1>6. CASE Wait  BY <1>6, Uncounted DEF Wait, Sockets
<1>7. QED  BY <1>1, <1>2, <1>3, <1>4, <1>5, <1>6 DEF Closer

LEMMA StepIInv == IInv /\ [Next]_vars => IInv'
<1> SUFFICES ASSUME IInv, [Next]_vars PROVE IInv'
  OBVIOUS
<1>1. CASE Next  BY <1>1, ClientStep, ServeStep, HandlerStep, StopStep DEF Next
<1>2. CASE UNCHANGED vars
  BY <1>2, Uncounted DEF IInv, TypeOK, Sockets, HandledIsListed, Entered,
    vars, stop, serveVars, conn
<1>3. QED  BY <1>1, <1>2

\* The inductive invariant holds.
THEOREM Invariance == Spec => []IInv
  BY InitIInv, StepIInv, PTL DEF Spec

-----------------------------------------------------------------------------
\* The table never holds more than MaxConns connections, nor a connection
\* more than MaxSessions sessions; Wait's counter is never negative.
THEOREM TypeCorrect == Spec => []TypeOK
  BY Invariance, PTL DEF IInv

\* DisconnectAll reaches whatever Serve handles, and no place is lost.
THEOREM Listed == Spec => []HandledIsListed
  BY Invariance, PTL DEF IInv

-----------------------------------------------------------------------------
(* A session *)

Stages ==
  /\ program = Unset => worker = "none"
  /\ worker \in {"none", "connect"} => socket = "none"
  /\ worker \in {"none", "connect", "attach"} => ~ws
  /\ worker = "relay" => ws
  /\ worker = "attach" /\ socket = "open" => remote = initial
  /\ worker = "over" => socket \in {"none", "closed"}

SessionInv == SessionTypeOK /\ Stages /\ LatestSize

LEMMA InitSession == ASSUME SessionInit PROVE SessionInv
<1> USE QueueAssumption, SizesAssumption DEF SessionInit
<1>1. <<>> \in Seq(Requests) /\ Len(<<>>) = 0  OBVIOUS
<1>2. incoming \in Seq(Requests) /\ Len(incoming) <= MaxQueue  BY <1>1
<1>3. sent \in 0 .. MaxRequests  OBVIOUS
<1>4. SessionTypeOK  BY <1>2, <1>3 DEF SessionTypeOK
<1>5. Stages /\ LatestSize  BY DEF Stages, LatestSize
<1>6. QED  BY <1>4, <1>5 DEF SessionInv

\* What the loop takes out of the queue.
LEMMA Requested ==
  ASSUME SessionInv, NEW op, Request(op)
  PROVE  /\ Head(incoming) \in Requests /\ Head(incoming).op = op
         /\ incoming' \in Seq(Requests) /\ Len(incoming') <= MaxQueue
<1>1. /\ incoming \in Seq(Requests) /\ incoming # <<>>
      /\ Head(incoming).op = op /\ incoming' = Tail(incoming)
  BY DEF SessionInv, SessionTypeOK, Request
<1>2. /\ Head(incoming) \in Requests /\ Tail(incoming) \in Seq(Requests)
      /\ Len(Tail(incoming)) = Len(incoming) - 1
  BY <1>1, HeadTailProperties
<1>3. QED  BY <1>1, <1>2, QueueAssumption DEF SessionInv, SessionTypeOK

LEMMA SizeOf ==
  ASSUME NEW r \in Requests, r.op \in {"pty-req", "window-change"} PROVE r.size \in Sizes
BY DEF Requests, Programs

\* The client, the connection, the WebShell and the feeder.
LEMMA ChannelStep ==
  ASSUME SessionInv, Hangup \/ ConnectionEnds \/ SocketBreaks
     \/ FeederEnds \/ CopyInput
  PROVE  SessionInv'
<1> USE DEF SessionInv, SessionTypeOK, Stages, LatestSize, client,
  loopVars, workerVars, shell, Cancelled
<1>1. CASE Hangup  BY <1>1 DEF Hangup
<1>2. CASE ConnectionEnds  BY <1>2 DEF ConnectionEnds
<1>3. CASE SocketBreaks  BY <1>3 DEF SocketBreaks
<1>4. CASE FeederEnds  BY <1>4 DEF FeederEnds
<1>5. CASE CopyInput  BY <1>5 DEF CopyInput
<1>6. QED  BY <1>1, <1>2, <1>3, <1>4, <1>5

LEMMA FeedStep == ASSUME SessionInv, NEW r \in Requests, Feed(r) PROVE SessionInv'
<1>1. /\ incoming \in Seq(Requests) /\ Len(incoming) < MaxQueue
      /\ incoming' = Append(incoming, r)
  BY DEF Feed, QueueHasRoom, SessionInv, SessionTypeOK
<1>2. incoming' \in Seq(Requests) /\ Len(incoming') = Len(incoming) + 1
  BY <1>1, AppendProperties
<1>3. Len(incoming') <= MaxQueue /\ sent' \in 0 .. MaxRequests
  BY <1>1, <1>2, QueueAssumption, LenProperties DEF Feed, SessionInv, SessionTypeOK
<1>4. QED
  BY <1>2, <1>3
  DEF Feed, SessionInv, SessionTypeOK, Stages, LatestSize, loopVars,
    workerVars, shell

-----------------------------------------------------------------------------
(* The loop *)

LEMMA Returning ==
  ASSUME SessionInv, Return, exit' \in Codes \cup {Unset},
         incoming' \in Seq(Requests), Len(incoming') <= MaxQueue
  PROVE  SessionInv'
BY
DEF Return, CloseSocket, CtxCancelled, Cancelled, SessionInv,
  SessionTypeOK, Stages, LatestSize, workerVars

LEMMA LoopStep == ASSUME SessionInv, Loop PROVE SessionInv'
<1> USE DEF SessionInv
<1>1. CASE LoopEnds  BY <1>1, Returning DEF LoopEnds, SessionTypeOK
<1>2. CASE SendExit  BY <1>2, Returning DEF SendExit, SessionTypeOK
<1>3. CASE Pty
  <2>1. size' \in Sizes  BY <1>3, Requested, SizeOf DEF Pty, SessionTypeOK
  <2>2. program # Unset => size' = size  BY <1>3 DEF Pty
  <2>3. QED
    BY <1>3, <2>1, <2>2, Requested
    DEF Pty, SessionTypeOK, Stages, LatestSize, client,
      workerVars, shell
<1>4. CASE WindowChange
  <2>1. size' \in Sizes  BY <1>4, Requested, SizeOf DEF WindowChange
  <2>2. QED
    BY <1>4, <2>1, Requested
    DEF WindowChange, SessionTypeOK, Stages, LatestSize, client,
      workerVars, shell
<1>5. CASE PassOn
  BY <1>5
  DEF PassOn, Resize, SessionTypeOK, Stages, LatestSize, client,
    workerVars
<1>6. CASE Signal
  BY <1>6, Requested
  DEF Signal, SessionTypeOK, Stages, LatestSize, client,
    loopVars, workerVars, shell
<1>7. ASSUME NEW p \in Programs, StartProgram(p) PROVE SessionInv'
  <2>1. incoming' \in Seq(Requests) /\ Len(incoming') <= MaxQueue
    BY <1>7, Requested DEF StartProgram
  <2>2. UNCHANGED <<hangup, sent, ctx, feeder, loop, size, exit, done, ws, socket, remote>>
    BY <1>7 DEF StartProgram, client, shell
  <2>3. CASE program = Unset
    <3>1. program' = p /\ worker' = "connect" /\ initial' = size /\ input' \in {"none", "waiting"}
      BY <1>7, <2>3 DEF StartProgram
    <3>2. p # Unset  BY SizesAssumption
    <3>3. QED
      BY <2>1, <2>2, <2>3, <3>1, <3>2
      DEF SessionTypeOK, Stages, LatestSize, Programs
  <2>4. CASE program # Unset
    <3>1. UNCHANGED <<program, worker, initial, input>>  BY <1>7, <2>4 DEF StartProgram
    <3>2. QED  BY <2>1, <2>2, <2>4, <3>1 DEF SessionTypeOK, Stages, LatestSize
  <2>5. QED  BY <2>3, <2>4
<1>8. QED  BY <1>1, <1>2, <1>3, <1>4, <1>5, <1>6, <1>7 DEF Loop

-----------------------------------------------------------------------------
(* The worker *)

LEMMA WorkerStep == ASSUME SessionInv, Worker PROVE SessionInv'
<1> USE DEF SessionInv, SessionTypeOK, Stages, LatestSize, client,
  loopVars, shell, Codes
<1>1. CASE ConnectFails  BY <1>1 DEF ConnectFails
<1>2. CASE Connects  BY <1>2 DEF Connects
<1>3. CASE SftpEnds  BY <1>3 DEF SftpEnds
<1>4. CASE Attach  BY <1>4 DEF Attach, Resize, SizeChanged
<1>5. CASE RelayEnds  BY <1>5 DEF RelayEnds
<1>6. CASE WorkerEnds
  BY <1>6 DEF WorkerEnds, WorkerCloses, CloseSocket
<1>7. QED  BY <1>1, <1>2, <1>3, <1>4, <1>5, <1>6 DEF Worker

-----------------------------------------------------------------------------
LEMMA SessionInvariance == SessionSpec => []SessionInv
<1>1. ASSUME SessionInv, [SessionNext]_sessionVars PROVE SessionInv'
  <2>1. CASE UNCHANGED sessionVars
    BY <1>1, <2>1
    DEF SessionInv, SessionTypeOK, Stages, LatestSize, sessionVars, client,
      loopVars, workerVars, shell
  <2>2. CASE SessionNext
    BY <1>1, <2>2, ChannelStep, FeedStep, LoopStep, WorkerStep DEF SessionNext
  <2>3. QED  BY <1>1, <2>1, <2>2
<1>2. SessionInit => SessionInv  BY InitSession
<1>3. QED  BY <1>1, <1>2, PTL DEF SessionSpec

\* Every variable keeps its type; the queue never holds more than its capacity.
THEOREM SessionTypeCorrect == SessionSpec => []SessionTypeOK
<1>1. SessionInv => SessionTypeOK  BY DEF SessionInv
<1>2. QED  BY <1>1, SessionInvariance, PTL

\* Whenever the loop and the worker find a new size, before, during or after
\* the handshake, a WebShell that relays has the size that is noted.
THEOREM Sized == SessionSpec => []LatestSize
<1>1. SessionInv => LatestSize  BY DEF SessionInv
<1>2. QED  BY <1>1, SessionInvariance, PTL

\* No socket survives its session, in whichever order the two goroutines end.
THEOREM NoSocket == SessionSpec => []NoSocketLeft
<1>1. SessionInv => NoSocketLeft
  BY DEF SessionInv, SessionTypeOK, Stages, NoSocketLeft
<1>2. QED  BY <1>1, SessionInvariance, PTL
=============================================================================
