----------------------------- MODULE SshSession -----------------------------
(***************************************************************************)
(* One session channel of the local SSH server (internal/sshserver,        *)
(* Server.session) and the WebShell it opens: the loop that serves the     *)
(* client's requests, the goroutine that feeds it, the worker that         *)
(* connects and relays the output, and the copier of the input.  wsMu      *)
(* guards `size' and `ws'; its critical sections are steps.  The channel,  *)
(* the connection and the WebShell may end at any moment.  A malformed     *)
(* request changes nothing and is left out.                                *)
(***************************************************************************)
EXTENDS Integers, Sequences

CONSTANTS Sizes, Default,      \* terminal sizes; 24 x 80
          Unset,               \* no program, no status yet
          MaxQueue,            \* capacity of `incoming' (16)
          MaxRequests          \* bound: requests the client sends

Programs == {"shell", "exec", "sftp"}

ASSUME SizesAssumption == Default \in Sizes /\ Unset \notin Sizes \cup Programs
ASSUME QueueAssumption == MaxQueue \in Nat \ {0} /\ MaxRequests \in Nat

Requests == [op : {"pty-req", "window-change"}, size : Sizes]
            \cup [op : Programs \cup {"signal"}]
\* What the worker sends to `done': the command's status, 0, or 255.
Codes == {"status", "zero", "failed"}

VARIABLES hangup, ctx,                \* requests is closed; ctx is done
          incoming, feeder, sent,     \* requests under way
          loop, size, program,        \* program: what the client started
          worker, initial, done,      \* the goroutine that was started for it
          ws, input,                  \* what the others know of its socket
          socket, remote,             \* the socket; the WebShell's size
          exit                        \* the exit status the client was sent

client == <<hangup, sent>>
loopVars == <<loop, size, program, exit>>
workerVars == <<worker, initial, done>>
shell == <<ws, socket, remote>>
sessionVars == <<client, ctx, incoming, feeder, loopVars, workerVars, shell, input>>

SessionTypeOK ==
  /\ hangup \in BOOLEAN /\ ctx \in {"live", "cancelled", "returned"} /\ sent \in 0 .. MaxRequests
  /\ incoming \in Seq(Requests) /\ Len(incoming) <= MaxQueue
  /\ feeder \in {"running", "over"}
  /\ loop \in {"select", "resize", "over"} /\ size \in Sizes
  /\ program \in Programs \cup {Unset}
  /\ worker \in {"none", "connect", "attach", "relay", "close", "over"}
  /\ initial \in Sizes /\ done \in Codes \cup {Unset}
  /\ ws \in BOOLEAN /\ input \in {"none", "waiting", "copying", "over"}
  /\ socket \in {"none", "open", "broken", "closed"} /\ remote \in Sizes
  /\ exit \in Codes \cup {Unset}

SessionInit ==
  /\ hangup = FALSE /\ ctx = "live" /\ sent = 0
  /\ incoming = <<>> /\ feeder = "running"
  /\ loop = "select" /\ size = Default /\ program = Unset
  /\ worker = "none" /\ initial = Default /\ done = Unset
  /\ ws = FALSE /\ input = "none"
  /\ socket = "none" /\ remote = Default
  /\ exit = Unset

-----------------------------------------------------------------------------
(* The client, the connection and the WebShell *)

\* The client closes the channel: no more requests, and input and output end.
Hangup ==
  /\ ~hangup
  /\ hangup' = TRUE
  /\ UNCHANGED <<sent, ctx, incoming, feeder, loopVars, workerVars, shell, input>>

\* The connection ends, DisconnectAll closes it, or the agent stops.
Cancelled(why) == ctx' = IF ctx = "live" THEN why ELSE ctx

ConnectionEnds ==
  /\ ctx = "live"
  /\ Cancelled("cancelled")
  /\ UNCHANGED <<client, incoming, feeder, loopVars, workerVars, shell, input>>

SocketBreaks ==
  /\ socket = "open"
  /\ socket' = "broken"
  /\ UNCHANGED <<client, ctx, incoming, feeder, loopVars, workerVars, ws, remote, input>>

QueueHasRoom == Len(incoming) < MaxQueue

\* The feeder hands a request on when there is room for it.
Feed(r) ==
  /\ feeder = "running" /\ ~hangup /\ sent < MaxRequests /\ QueueHasRoom
  /\ incoming' = Append(incoming, r)
  /\ sent' = sent + 1
  /\ UNCHANGED <<hangup, ctx, feeder, loopVars, workerVars, shell, input>>

\* It ends with the requests, and cancels ctx, or with ctx.
FeederEnds ==
  /\ feeder = "running"
  /\ \/ hangup /\ Cancelled("cancelled")
     \/ ctx # "live" /\ UNCHANGED ctx
  /\ feeder' = "over"
  /\ UNCHANGED <<client, incoming, loopVars, workerVars, shell, input>>

-----------------------------------------------------------------------------
(* The loop *)

CloseSocket == socket' = IF socket = "none" THEN "none" ELSE "closed"

CtxKept == UNCHANGED ctx            \* wrong: ctx outlives the session
CtxCancelled == Cancelled("returned")

\* The deferred calls close the socket if there is one, the channel, and ctx.
Return ==
  /\ loop' = "over"
  /\ IF ws THEN CloseSocket ELSE UNCHANGED socket
  /\ CtxCancelled
  /\ UNCHANGED <<hangup, sent, feeder, size, program, workerVars, ws, remote, input>>

LoopEnds ==
  /\ loop = "select"
  /\ \/ ctx # "live"
     \/ feeder = "over" /\ incoming = <<>>
  /\ Return
  /\ UNCHANGED <<incoming, exit>>

\* Select takes any of the cases that are ready.
SendExit ==
  /\ loop = "select" /\ done # Unset
  /\ exit' = done
  /\ Return
  /\ UNCHANGED incoming

Request(op) ==
  /\ loop = "select" /\ incoming # <<>> /\ Head(incoming).op = op
  /\ incoming' = Tail(incoming)

\* A pty-req counts until a program is started.
Pty ==
  /\ Request("pty-req")
  /\ size' = IF program = Unset THEN Head(incoming).size ELSE size
  /\ UNCHANGED <<client, ctx, feeder, loop, program, exit, workerVars, shell, input>>

\* The size is noted and, in a second critical section, passed on.
WindowChange ==
  /\ Request("window-change")
  /\ size' = Head(incoming).size
  /\ loop' = "resize"
  /\ UNCHANGED <<client, ctx, feeder, program, exit, workerVars, shell, input>>

\* A resize that cannot be sent breaks the socket.
Resize ==
  \/ socket = "open" /\ remote' = size /\ UNCHANGED socket
  \/ socket' = (IF socket = "open" THEN "broken" ELSE socket) /\ UNCHANGED remote

PassOn ==
  /\ loop = "resize"
  /\ IF ws THEN Resize ELSE UNCHANGED <<socket, remote>>
  /\ loop' = "select"
  /\ UNCHANGED <<client, ctx, incoming, feeder, size, program, exit, workerVars, ws, input>>

StartProgram(p) ==
  /\ Request(p)
  /\ IF program = Unset
       THEN /\ program' = p
            /\ worker' = "connect" /\ initial' = size
            /\ input' = IF p = "sftp" THEN "none" ELSE "waiting"
       ELSE UNCHANGED <<program, worker, initial, input>>
  /\ UNCHANGED <<client, ctx, feeder, loop, size, exit, done, shell>>

\* A signal is written to the WebShell as a control character.
Signal ==
  /\ Request("signal")
  /\ UNCHANGED <<client, ctx, feeder, loopVars, workerVars, shell, input>>

-----------------------------------------------------------------------------
(* The worker, and the copier of the input *)

\* Wrong: it returns without a word.
ConnectFailsSilently ==
  /\ worker = "connect" /\ program # "sftp"
  /\ worker' = "over"
  /\ UNCHANGED <<client, ctx, incoming, feeder, loopVars, initial, done, shell, input>>

ConnectFails ==
  /\ worker = "connect" /\ program # "sftp"
  /\ done' = "failed" /\ worker' = "over"
  /\ UNCHANGED <<client, ctx, incoming, feeder, loopVars, initial, shell, input>>

\* The handshake carries the size the program was started with.
Connects ==
  /\ worker = "connect" /\ program # "sftp" /\ ctx = "live"
  /\ socket' = "open" /\ remote' = initial
  /\ worker' = "attach"
  /\ UNCHANGED <<client, ctx, incoming, feeder, loopVars, initial, done, ws, input>>

\* serveSFTP has sockets of its own, and ends with its client or by itself.
SftpEnds ==
  /\ worker = "connect" /\ program = "sftp"
  /\ done' \in {"zero", "failed"} /\ worker' = "over"
  /\ UNCHANGED <<client, ctx, incoming, feeder, loopVars, initial, shell, input>>

SizeKept == FALSE          \* wrong: the size of the handshake is the size
SizeChanged == size # initial

\* Under wsMu: the loop sees the socket from now on, and a size that changed
\* during the handshake is sent; then `ready'.
Attach ==
  /\ worker = "attach"
  /\ ws' = TRUE
  /\ IF SizeChanged THEN Resize ELSE UNCHANGED <<socket, remote>>
  /\ worker' = "relay"
  /\ UNCHANGED <<client, ctx, incoming, feeder, loopVars, initial, done, input>>

\* Reading the WebShell or writing the channel fails.
RelayCut == socket \in {"broken", "closed"} \/ ctx # "live" \/ hangup \/ loop = "over"

\* A shell's output ends with 0; a command's status is known from its marker.
RelayEnds ==
  /\ worker = "relay"
  /\ \/ program = "shell" /\ RelayCut /\ done' = "zero"
     \/ program = "exec" /\ done' = "failed"        \* cut, no marker in time
     \/ program = "exec" /\ socket = "open" /\ done' = "status"
  /\ worker' = "close"
  /\ UNCHANGED <<client, ctx, incoming, feeder, loopVars, initial, shell, input>>

\* Wrong: only the loop closes the socket.
WorkerLeaves == socket' = socket
WorkerCloses == CloseSocket

WorkerEnds ==
  /\ worker = "close"
  /\ WorkerCloses
  /\ worker' = "over"
  /\ UNCHANGED <<client, ctx, incoming, feeder, loopVars, initial, done, ws, remote, input>>

\* The copier waits for the socket and forwards a shell's input to its end.
CopyInput ==
  /\ \/ input = "waiting" /\ ctx # "live" /\ input' = "over"
     \/ /\ input = "waiting" /\ worker \in {"relay", "close", "over"} /\ ws
        /\ input' = IF program = "shell" THEN "copying" ELSE "over"
     \/ input = "copying" /\ input' = "over"     \* no more input, or nobody takes it
  /\ UNCHANGED <<client, ctx, incoming, feeder, loopVars, workerVars, shell>>

-----------------------------------------------------------------------------
Loop ==
  \/ LoopEnds \/ SendExit \/ Pty \/ WindowChange \/ PassOn \/ Signal
  \/ \E p \in Programs : StartProgram(p)

Worker == ConnectFails \/ Connects \/ SftpEnds \/ Attach \/ RelayEnds \/ WorkerEnds

SessionNext ==
  \/ Hangup \/ ConnectionEnds \/ SocketBreaks
  \/ (\E r \in Requests : Feed(r)) \/ FeederEnds
  \/ Loop \/ Worker \/ CopyInput

SessionSpec == SessionInit /\ [][SessionNext]_sessionVars

\* The client has closed the channel or answered its close, or its connection is
\* gone: only then does a read or a write of the channel certainly return.
ClientGone == hangup \/ ctx = "cancelled"

\* Goroutines run, and Connect returns.  A program need not end by itself, and a
\* client that stays need neither read nor write nor answer a close: the relay,
\* an SFTP server and the copier of the input end when it is gone.
SessionFairness ==
  /\ WF_sessionVars(FeederEnds) /\ WF_sessionVars(Loop)
  /\ WF_sessionVars(Connects \/ ConnectFails) /\ WF_sessionVars(Attach) /\ WF_sessionVars(WorkerEnds)
  /\ WF_sessionVars(ClientGone /\ (RelayEnds \/ SftpEnds))
  /\ WF_sessionVars((input = "copying" => ClientGone) /\ CopyInput)

FairSession == SessionSpec /\ SessionFairness
-----------------------------------------------------------------------------
(* Properties *)

\* A window that changes during the handshake, before or after the program is
\* started, is not lost: the WebShell has the client's latest size.
LatestSize ==
  worker = "relay" /\ loop = "select" /\ socket = "open" => remote = size

\* Whoever is last, the loop or the worker, leaves no WebShell open behind it,
\* even one that connected after its session had ended.
NoSocketLeft ==
  loop = "over" /\ worker \in {"none", "over"} => socket \in {"none", "closed"}

\* "Closing a channel while its authentication/handshake is pending must
\* cancel that operation too": all goroutines of a session end with it, but for
\* a copier whose client has not answered the close of the channel.
AllEnd ==
  hangup \/ ctx # "live" \/ loop = "over" ~>
    /\ loop = "over" /\ feeder = "over"
    /\ worker \in {"none", "over"}
    /\ input \in {"none", "over"} \/ (input = "copying" /\ ~ClientGone)

\* A client that stays is told how its program ended, a failed connection
\* included.
EndIsTold == worker = "over" ~> exit # Unset \/ hangup \/ ctx = "cancelled"
=============================================================================
