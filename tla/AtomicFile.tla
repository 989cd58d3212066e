----------------------------- MODULE AtomicFile -----------------------------
(***************************************************************************)
(* What replacing a file promises: an SFTP upload of the remote file, a    *)
(* download of the installer in the updater's cache.  The file changes     *)
(* from one whole content to another: to all that a writer was given       *)
(* before it was closed, never to a part of it, and never to that of an    *)
(* aborted transfer.  A close that reports success has replaced the file;  *)
(* one that reports failure may have, or may still.                        *)
(***************************************************************************)
CONSTANTS Handles, Contents, Absent

VARIABLES file,      \* the content of the remote file, Absent if there is none
          given,     \* given[h]: the content the client has given so far
          phase      \* phase[h] of the transfer

vars == <<file, given, phase>>

Phases == {"unused", "writing", "aborted", "closed", "replaced", "ok", "failed"}

Init ==
  /\ file \in Contents \cup {Absent}
  /\ given = [h \in Handles |-> Absent]
  /\ phase = [h \in Handles |-> "unused"]

Becomes(h, p) == phase' = [phase EXCEPT ![h] = p]

Write(h) ==
  /\ phase[h] \in {"unused", "writing", "aborted"}
  /\ \E c \in Contents : given' = [given EXCEPT ![h] = c]
  /\ \E p \in {"writing", "aborted"} : (phase[h] = "aborted" => p = "aborted") /\ Becomes(h, p)
  /\ UNCHANGED file

Close(h) ==
  /\ \/ phase[h] = "writing" /\ Becomes(h, "closed")
     \/ phase[h] \in {"writing", "aborted"} /\ Becomes(h, "aborted")
  /\ UNCHANGED <<file, given>>

Replace(h) ==
  /\ \/ phase[h] = "closed" /\ \E p \in {"replaced", "ok"} : Becomes(h, p)
     \/ phase[h] = "failed" /\ UNCHANGED phase
  /\ file' = given[h]
  /\ UNCHANGED given

Report(h) ==
  /\ \/ phase[h] = "replaced" /\ \E p \in {"ok", "failed"} : Becomes(h, p)
     \/ phase[h] = "closed" /\ Becomes(h, "failed")
  /\ UNCHANGED <<file, given>>

\* Somebody removes the file or renames it away.
Remove == file' = Absent /\ UNCHANGED <<given, phase>>

Next == Remove \/ \E h \in Handles : Write(h) \/ Close(h) \/ Replace(h) \/ Report(h)

Spec == Init /\ [][Next]_vars
=============================================================================
