--------------------------- MODULE WebShellSocket ---------------------------
(***************************************************************************)
(* The WebShell socket (internal/webshell/client.go) as a stream of bytes  *)
(* in both directions: Read hands the messages of the websocket out in     *)
(* pieces of the caller's size, Write passes on what the client types,     *)
(* which in JSON mode must be whole characters.  Of UTF-8 matters how many *)
(* bytes a character has: "l2" and "l3" begin one of two and of three,     *)
(* continued by "c"; every other byte is a character of its own.  A Write  *)
(* is one step, since writeMu is held throughout.                          *)
(***************************************************************************)
EXTENDS Integers, Sequences, FiniteSetsExt

CONSTANTS MaxFrame,         \* bound: bytes of a message
          MaxWrite          \* bound: bytes of one Write

VARIABLES inputMode,        \* "json" or "binary"
          socket,           \* "open", "broken" (by the other end) or "closed"
          arriving,         \* what the WebShell has yet to send
          pending,          \* the rest of the message that Read took last
          input, typed,     \* the client's bytes, and how many are written
          incomplete, sent, \* an unfinished character; what was sent
          copier            \* of the input: "copying" or "over"

reading == <<arriving, pending>>
writing == <<input, typed, incomplete, sent, copier>>
socketVars == <<inputMode, socket, reading, writing>>

Least(a, b) == IF a < b THEN a ELSE b
Take(s, n) == SubSeq(s, 1, Least(n, Len(s)))
Drop(s, n) == SubSeq(s, n + 1, Len(s))

-----------------------------------------------------------------------------
(* Read *)

Receive ==
  /\ socket = "open" /\ pending = <<>> /\ arriving # <<>>
  /\ \E n \in 1 .. Least(MaxFrame, Len(arriving)) :
       pending' = Take(arriving, n) /\ arriving' = Drop(arriving, n)
  /\ UNCHANGED <<inputMode, socket, writing>>

\* The rest of the message waits for the next Read.
Read(n) == pending' = Drop(pending, n)

\* A text message ends the session as a broken connection does.
ReadFails == socket # "open" /\ pending = <<>>

Break == socket = "open" /\ socket' = "broken" /\ UNCHANGED <<inputMode, reading, writing>>
Close == socket' = "closed"

-----------------------------------------------------------------------------
(* Write *)

Width(b) == CASE b = "l2" -> 2 [] b = "l3" -> 3 [] OTHER -> 1
Continued(s, n) == \A i \in 2 .. n : s[i] = "c"

IsRune(s) == s[1] # "c" /\ Len(s) = Width(s[1]) /\ Continued(s, Len(s))

\* There is enough of s to decode a character or to see that it is none.
FullRune(s) == Len(s) >= Width(s[1]) \/ ~Continued(s, Len(s))

\* The bytes of s up to the last character that is whole: `end' of the loop.
WholeBytes(s) ==
  LET whole[i \in 0 .. Len(s)] ==
        i = 0 \/ \E w \in 1 .. Least(3, i) : whole[i - w] /\ IsRune(SubSeq(s, i - w + 1, i))
  IN Max({i \in 0 .. Len(s) : whole[i]})

KeepsOld(rest) == incomplete' = IF rest = <<>> THEN incomplete ELSE rest  \* wrong: not reset
Keeps(rest) == incomplete' = rest

Sendable(data) == IF inputMode = "json" THEN WholeBytes(data) ELSE Len(data)

Send(bytes) == sent' = sent \o bytes /\ UNCHANGED copier
GivesUp == copier' = "over" /\ UNCHANGED sent

Write(p) ==
  LET data == IF inputMode = "json" THEN incomplete \o p ELSE p
      end == Sendable(data)
      rest == Drop(data, end)
  IN IF rest # <<>> /\ FullRune(rest)
       THEN Keeps(<<>>) /\ GivesUp                     \* invalid UTF-8
       ELSE /\ Keeps(rest)
            /\ IF socket = "open" \/ end = 0 THEN Send(Take(data, end)) ELSE GivesUp

\* io.Copy writes what it has read of the client's input.
Copy ==
  /\ copier = "copying" /\ typed < Len(input)
  /\ \E n \in 1 .. Least(MaxWrite, Len(input) - typed) :
       typed' = typed + n /\ Write(SubSeq(input, typed + 1, typed + n))
  /\ UNCHANGED <<inputMode, socket, reading, input>>
=============================================================================
