----------------------------- MODULE ExecBridge -----------------------------
(***************************************************************************)
(* Exec (internal/bridge/bridge.go): a command is run in the WebShell's    *)
(* terminal between two markers, and readExec cuts its output and its      *)
(* status out of what the terminal shows, however the bytes arrive.  The   *)
(* terminal shows a banner and an echo, the first marker, the output, the  *)
(* second marker and the status; it may break off anywhere, or never       *)
(* begin.  Markers carry a random number, so they appear once.             *)
(*                                                                         *)
(* A round of readExec's loop is two steps: it reads and looks for the     *)
(* first marker, then it passes on what it may, which waits for a client   *)
(* that does not read.  A session is either an exec or a shell; of a shell *)
(* the input matters here.                                                 *)
(***************************************************************************)
EXTENDS WebShellSocket, TLC

CONSTANTS Symbols,          \* that stand for bytes
          Begin, End,       \* the markers; "U" is the byte that ends a status
          Before,           \* what may precede the first marker
          Outputs, Statuses,   \* of the command; digits, or what was mangled
          Inputs,           \* what a client of a shell may type
          Chunk             \* size of readExec's reads (16384)

ASSUME SizesAssumption == {MaxFrame, MaxWrite, Chunk} \subseteq Nat \ {0}

VARIABLES command,          \* [ok, output, status], or a shell
          exec,             \* "start", "read", "pass" (what is in buf) or "over"
          started, buf, dst,   \* of readExec
          timer,            \* "off", "armed", "fired" or "done"
          code, ok          \* Exec's answer

loop == <<started, buf, dst>>
answer == <<code, ok>>
execVars == <<command, exec, loop, timer, answer>>
vars == <<socketVars, execVars>>

Commands == [ok : {TRUE}, output : Outputs, status : Statuses]
Refused == [ok |-> FALSE, output |-> <<>>, status |-> <<"0">>]
Shell == [ok |-> FALSE, output |-> <<>>, status |-> <<>>]

Shown(c, b) == b \o Begin \o c.output \o End \o c.status \o <<"U">>

Init ==
  /\ socket = "open" /\ pending = <<>>
  /\ typed = 0 /\ incomplete = <<>> /\ sent = <<>>
  /\ started = FALSE /\ buf = <<>> /\ dst = <<>>
  /\ timer = "off" /\ code = 0 /\ ok = FALSE
  /\ \/ /\ command \in Commands \cup {Refused} /\ exec = "start" /\ copier = "over"
        /\ inputMode = "json" /\ input = <<>>
        /\ \E b \in Before : arriving \in {Shown(command, b), b}
     \/ /\ command = Shell /\ exec = "over" /\ copier = "copying"
        /\ inputMode \in {"json", "binary"} /\ input \in Inputs
        /\ arriving = <<>>

-----------------------------------------------------------------------------
(* Exec *)

Returns(c, good) == exec' = "over" /\ code' = c /\ ok' = good

\* A command that holds a NUL or is too long is refused; writing it may fail.
Exec ==
  /\ exec = "start"
  /\ \/ command.ok /\ socket = "open" /\ exec' = "read" /\ timer' = "armed" /\ UNCHANGED answer
     \/ (~command.ok \/ socket # "open") /\ Returns(1, FALSE) /\ UNCHANGED timer
  /\ UNCHANGED <<socketVars, command, loop>>

\* Thirty seconds without the first marker.  A timer that has fired is not
\* stopped any more, though the marker may be read before it closes.
TimerFires ==
  /\ timer = "armed"
  /\ timer' = "fired"
  /\ UNCHANGED <<socketVars, command, exec, loop, answer>>

TimerExpires ==       \* wrong: the socket stays open
  timer = "fired" /\ timer' = "done" /\ UNCHANGED <<socketVars, command, exec, loop, answer>>
TimerCloses ==
  /\ timer = "fired"
  /\ timer' = "done" /\ Close
  /\ UNCHANGED <<inputMode, reading, writing, command, exec, loop, answer>>

StopTimer == timer' = IF timer = "armed" THEN "off" ELSE timer

-----------------------------------------------------------------------------
(* readExec *)

Places(m, s) == {i \in 0 .. Len(s) - Len(m) : SubSeq(s, i + 1, i + Len(m)) = m}
Contains(s, m) == Places(m, s) # {}
Preceding(s, m) == Take(s, Min(Places(m, s)))
Following(s, m) == Drop(s, Min(Places(m, s)) + Len(m))

\* Wrong: nothing is let go before a marker is complete.
KeepsAll(s, m) == s
Tail_(s, m) == Drop(s, IF Len(s) > Len(m) THEN Len(s) - Len(m) ELSE 0)

\* Wrong: what may be a part of the marker is passed on.
PassesAll(s, m) == s
PassesSafely(s, m) == Take(s, Len(s) - Len(Tail_(s, m)))

Digits == "0" :> 0 @@ "2" :> 2 @@ "5" :> 5 @@ "6" :> 6
Number(s) == LET value[i \in 0 .. Len(s)] ==
                   IF i = 0 THEN 0 ELSE 10 * value[i - 1] + Digits[s[i]]
             IN value[Len(s)]
\* ParseUint of eight bits.
IsStatus(s) == s # <<>> /\ (\A i \in 1 .. Len(s) : s[i] \in DOMAIN Digits) /\ Number(s) < 256

ASSUME MarkersAssumption ==
  /\ {Begin, End} \subseteq Seq(Symbols) \ {<<>>} /\ {"U", "0"} \subseteq Symbols
  /\ Before \cup Outputs \cup Statuses \cup Inputs \subseteq Seq(Symbols)

\* The random number and the control bytes of a marker are in nothing else that
\* is shown; $? is printed without leading zeros.
ASSUME RandomAssumption ==
  /\ \A b \in Before : Places(Begin, b \o Begin) = {Len(b)}
  /\ \A o \in Outputs : Places(End, o \o End) = {Len(o)}
  /\ \A v \in Statuses : (\A i \in 1 .. Len(v) : v[i] # "U") /\ (IsStatus(v) => Len(v) <= 3)

\* Wrong: two digits are enough.
TwoDigits(s) == Len(s) > Len(End) + 2
TooLong(s) == Len(s) > Len(End) + 4

\* The first marker is not there yet.
Skip(s) == buf' = Tail_(s, Begin) /\ UNCHANGED <<exec, started, dst, timer>>

\* It is: the timer is stopped before anything is written.
Begun(s) ==
  /\ exec' = "pass" /\ started' = TRUE
  /\ buf' = IF started THEN s ELSE Following(s, Begin)
  /\ IF started THEN UNCHANGED timer ELSE StopTimer
  /\ UNCHANGED dst

Round ==
  /\ exec = "read" /\ pending # <<>>
  /\ Read(Chunk)
  /\ LET got == buf \o Take(pending, Chunk)
     IN IF started \/ Contains(got, Begin) THEN Begun(got) ELSE Skip(got)
  /\ UNCHANGED <<inputMode, socket, arriving, writing, command, answer>>

PassOn(s) ==
  /\ ~Contains(s, End)
  /\ dst' = dst \o PassesSafely(s, End) /\ buf' = Tail_(s, End)
  /\ exec' = "read" /\ UNCHANGED answer

Finish(s) ==
  LET marked == Drop(s, Len(Preceding(s, End)))
      status == Following(s, End)
  IN /\ Contains(s, End)
     /\ dst' = dst \o Preceding(s, End) /\ buf' = marked
     /\ IF Contains(status, <<"U">>)
          THEN LET v == Preceding(status, <<"U">>)
               IN IF IsStatus(v) THEN Returns(Number(v), TRUE) ELSE Returns(1, FALSE)
          ELSE IF TooLong(marked) THEN Returns(1, FALSE)
               ELSE exec' = "read" /\ UNCHANGED answer

\* What is written to the client.
Written(s) == IF Contains(s, End) THEN Preceding(s, End) ELSE PassesSafely(s, End)

\* The client is gone: the write fails, perhaps after a part of it.
PassingFails(s) ==
  /\ Written(s) # <<>>
  /\ \E n \in 0 .. Len(Written(s)) : dst' = dst \o Take(s, n)
  /\ buf' = <<>>
  /\ Returns(1, FALSE)

Pass ==
  /\ exec = "pass"
  /\ PassOn(buf) \/ Finish(buf) \/ PassingFails(buf)
  /\ UNCHANGED <<socketVars, command, started, timer>>

\* The socket is gone: what is left in the buffer is written to the client, as
\* much as it takes: the second marker and what there is of the status too.
ReadError ==
  /\ exec = "read" /\ ReadFails
  /\ \E n \in 0 .. Len(buf) : dst' = IF started THEN dst \o Take(buf, n) ELSE dst
  /\ Returns(255, FALSE)
  /\ StopTimer
  /\ UNCHANGED <<socketVars, command, started, buf>>

-----------------------------------------------------------------------------
Next ==
  \/ Receive /\ UNCHANGED execVars
  \/ Break /\ UNCHANGED execVars
  \/ Copy /\ UNCHANGED execVars
  \/ Exec \/ TimerFires \/ TimerCloses \/ Round \/ Pass \/ ReadError

Spec == Init /\ [][Next]_vars

\* A write to the channel of a client that stays and does not read waits as
\* long as it likes, whatever happens to the WebShell.
Writes == IF exec = "pass" THEN Written(buf) # <<>> ELSE started /\ buf # <<>>

\* The exec's goroutine runs while it does not write, its timer fires, what the
\* WebShell sends arrives.  Nobody has to type.
Fairness ==
  /\ WF_vars(Exec) /\ WF_vars(TimerFires) /\ WF_vars(TimerCloses)
  /\ WF_vars(Round) /\ WF_vars(~Writes /\ (Pass \/ ReadError))
  /\ WF_vars(Receive /\ UNCHANGED execVars)

FairSpec == Spec /\ Fairness
-----------------------------------------------------------------------------
(* Properties *)

\* What the client of an exec gets is the command's output, in order and from
\* its first byte, however messages, reads and markers are cut.  When the session
\* breaks off, the second marker and digits may follow the output (readExec
\* writes out its buffer); `passed' leaves that out.
Output == INSTANCE Relay WITH
  source <- command.output,
  passed <- IF exec = "over" /\ ~ok THEN Take(dst, Len(command.output)) ELSE dst,
  over <- IF command = Shell \/ exec # "over" THEN "no" ELSE IF ok THEN "complete" ELSE "cut"

RelaysOutput == Output!Spec

\* A status is reported only after all of the output, and it is the command's,
\* 255 included; nothing that breaks off or is mangled passes for success, and
\* no status of three digits for a mangled one.
StatusIsTheCommands ==
  /\ ok => dst = command.output /\ IsStatus(command.status) /\ code = Number(command.status)
  /\ exec = "over" /\ command # Shell /\ ~ok => code \in {1, 255}
  /\ ~ok /\ code = 1 /\ buf # <<>> => ~IsStatus(command.status)

\* What the client types reaches the WebShell in order and once, wherever its
\* reads cut a character: nothing is held back but an unfinished character, and
\* in JSON mode no message ends within one (the encoder would replace it).
InputIsWhole ==
  /\ copier = "copying" => sent \o incomplete = Take(input, typed)
  /\ inputMode = "json" => WholeBytes(sent) = Len(sent) /\ Len(incomplete) < 3
  /\ inputMode = "binary" => incomplete = <<>>

\* From round to round the buffer holds no more than a marker and a status.
BufferIsBounded ==
  exec = "read" => Len(buf) <= (IF started THEN Len(End) + 4 ELSE Len(Begin))

\* Every write to the client returns: it reads, or it leaves.
ClientTakes == WF_vars(Pass) /\ WF_vars(ReadError)

\* A terminal that never shows the first marker does not hold an exec: its
\* timer ends it, whatever the client does.  And an exec whose socket is gone
\* returns, unless its client stays and does not read.
ExecEnds ==
  /\ exec = "read" /\ ~started ~> started \/ exec = "over"
  /\ ClientTakes => (exec \in {"read", "pass"} /\ socket # "open" ~> exec = "over")
=============================================================================
