----------------------------- MODULE SftpUpload -----------------------------
(***************************************************************************)
(* SFTP uploads to one remote path: sftpserver.Handler with its writers,   *)
(* which spool to a local temporary file, and finder.Client.Upload, which  *)
(* sends the spool in chunks to a stage on SEU, has it merged, checks its  *)
(* size and renames it into place.  Several SFTP sessions, each with its   *)
(* own Handler, replace the file at the same time.                         *)
(*                                                                         *)
(* A file is a sequence of blocks, a block the name of who wrote it; of a  *)
(* stage only counts whether Finder has made all of the spool of it.  The  *)
(* requests of a session are handled in any order the mutexes allow.  A    *)
(* request to Finder is executed and answered; or the client gives up on   *)
(* it (an error, a lost answer, a timeout, the end of the session) and     *)
(* Finder executes it before, at any later time, or never.                 *)
(*                                                                         *)
(* `want', `published' and `removed' are history: what the client's writes *)
(* amount to, whether Finder renamed the stage into place, and whether it  *)
(* removed the stage.                                                      *)
(***************************************************************************)
EXTENDS Integers, Sequences

CONSTANTS Sessions, Handles,          \* SFTP sessions, open files
          None, Absent,               \* nobody, no file
          Partial,                    \* a file that lacks some of a spool
          Size,                       \* bound: blocks of a file
          PerBlock                    \* requests that carry a block

ASSUME NoneAssumption == None \notin Handles \cup Sessions
ASSUME SizeAssumption == Size \in Nat /\ PerBlock \in Nat \ {0}

Blocks == Handles \cup {"old", "hole"}
Contents == UNION {[1 .. n -> Blocks] : n \in 0 .. Size}

ASSUME FileAssumption == Absent # Partial /\ {Absent, Partial} \cap Contents = {}

VARIABLES ended,          \* sessions whose context is over
          lock,           \* lock[s]: the handle whose Filewrite holds Handler.mu
          uploads,        \* uploads[s]: the writer of the path, or None
          owner,          \* owner[h]: the session that opened h
          at, spool, failed, next, result,   \* of a writer
          dest, stage, late,      \* Finder's files, requests under way
          sent,                   \* what an upload sends
          want, published, removed                \* history

session == <<ended, lock, uploads, owner>>
writer == <<at, spool, failed, next, result>>
finder == <<dest, stage, late, sent>>
history == <<want, published, removed>>
vars == <<session, writer, finder, history>>

Uploading == {"chunk", "merge", "check", "rename", "remove"}

TypeOK ==
  /\ ended \subseteq Sessions
  /\ lock \in [Sessions -> Handles \cup {None}]
  /\ uploads \in [Sessions -> Handles \cup {None}]
  /\ owner \in [Handles -> Sessions \cup {None}]
  /\ at \in [Handles -> {"unused", "fetch", "fresh", "open", "unlist", "done"} \cup Uploading]
  /\ spool \in [Handles -> Contents \cup {Absent}]
  /\ failed \in [Handles -> BOOLEAN]
  /\ next \in [Handles -> (1 .. Size * PerBlock) \cup {1}]
  /\ result \in [Handles -> {"none", "ok", "error"}]
  /\ dest \in Contents \cup {Absent, Partial}
  /\ stage \in [Handles -> {"none", "parts", "short", "whole"}]
  /\ late \subseteq Handles \X {"part", "last", "merge", "rename", "remove"}
  /\ sent \in [Handles -> Contents \cup {Absent}]
  /\ want \in [Handles -> Contents \cup {Absent}]
  /\ published \in [Handles -> BOOLEAN] /\ removed \in [Handles -> BOOLEAN]

Init ==
  /\ ended = {}
  /\ lock = [s \in Sessions |-> None] /\ uploads = [s \in Sessions |-> None]
  /\ owner = [h \in Handles |-> None]
  /\ at = [h \in Handles |-> "unused"]
  /\ spool = [h \in Handles |-> Absent]
  /\ failed = [h \in Handles |-> FALSE]
  /\ next = [h \in Handles |-> 1]
  /\ result = [h \in Handles |-> "none"]
  /\ dest \in {Absent} \cup [1 .. Size -> {"old"}]
  /\ stage = [h \in Handles |-> "none"] /\ late = {}
  /\ sent = [h \in Handles |-> Absent]
  /\ want = [h \in Handles |-> Absent]
  /\ published = [h \in Handles |-> FALSE] /\ removed = [h \in Handles |-> FALSE]

Goto(h, l) == at' = [at EXCEPT ![h] = l]

-----------------------------------------------------------------------------
(* Filewrite, WriteAt, Setstat, TransferError, Filecmd *)

OpenAnyway(s) == TRUE        \* wrong: the table of open uploads is not read
NotOpen(s) == uploads[s] = None

\* Filewrite holds Handler.mu until it returns, its requests included.  What
\* it learns of the path may be out of date when it fetches the file.
OpenStats(s, h) ==
  /\ at[h] = "unused" /\ s \notin ended
  /\ lock[s] = None /\ NotOpen(s)
  /\ lock' = [lock EXCEPT ![s] = h]
  /\ owner' = [owner EXCEPT ![h] = s]
  /\ \/ Goto(h, "fresh")
     \/ dest # Absent /\ Goto(h, "fetch")
  /\ UNCHANGED <<ended, uploads, spool, failed, next, result, finder, history>>

\* Without truncation the spool starts as a download of the file.
Opened(h) ==
  /\ \E f \in Contents :
       /\ \/ at[h] = "fresh" /\ f = <<>>
          \/ at[h] = "fetch" /\ f = dest
       /\ spool' = [spool EXCEPT ![h] = f]
       /\ want' = [want EXCEPT ![h] = f]
  /\ lock' = [lock EXCEPT ![owner[h]] = None]
  /\ uploads' = [uploads EXCEPT ![owner[h]] = h]
  /\ Goto(h, "open")
  /\ UNCHANGED <<ended, owner, failed, next, result, finder, published, removed>>

\* A lookup, the temporary file or the download fails, or the flags forbid it.
OpenFails(h) ==
  /\ at[h] \in {"fresh", "fetch"}
  /\ lock' = [lock EXCEPT ![owner[h]] = None]
  /\ Goto(h, "done")
  /\ result' = [result EXCEPT ![h] = "error"]
  /\ UNCHANGED <<ended, owner, uploads, spool, failed, next, finder, history>>

\* File f with h's data in block i; what lies between is a hole.
Put(f, i, h) ==
  [j \in 1 .. (IF i > Len(f) THEN i ELSE Len(f)) |->
     IF j = i THEN h ELSE IF j <= Len(f) THEN f[j] ELSE "hole"]

\* File f cut or extended to n blocks.
Resized(f, n) == [j \in 1 .. n |-> IF j <= Len(f) THEN f[j] ELSE "hole"]

Fail(h) == failed' = [failed EXCEPT ![h] = TRUE]

WriteAt(h) ==
  /\ at[h] = "open"
  /\ \E i \in 1 .. Size :
       /\ want' = [want EXCEPT ![h] = Put(@, i, h)]
       /\ \/ spool' = [spool EXCEPT ![h] = Put(@, i, h)] /\ UNCHANGED failed
          \/ Fail(h) /\ UNCHANGED spool
  /\ UNCHANGED <<session, at, next, result, finder, published, removed>>

\* A truncation that fails is only reported, the writer goes on.
Setstat(h) ==
  /\ at[h] = "open" /\ lock[owner[h]] = None /\ uploads[owner[h]] = h
  /\ \E n \in 0 .. Size :
       /\ spool' = [spool EXCEPT ![h] = Resized(@, n)]
       /\ want' = [want EXCEPT ![h] = Resized(@, n)]
  /\ UNCHANGED <<session, at, failed, next, result, finder, published, removed>>

\* The request server lost the client while the file was open.
TransferError(h) ==
  /\ at[h] = "open"
  /\ Fail(h)
  /\ UNCHANGED <<session, at, spool, next, result, finder, history>>

SessionEnds(s) ==
  /\ s \notin ended
  /\ ended' = ended \cup {s}
  /\ UNCHANGED <<lock, uploads, owner, writer, finder, history>>

\* A session removes the file or renames it away.
Filecmd ==
  /\ ended # Sessions /\ dest # Absent
  /\ dest' = Absent
  /\ UNCHANGED <<session, writer, stage, late, sent, history>>

-----------------------------------------------------------------------------
(* Finder *)

\* What request op of h does to Finder's files when it is executed.
NewStage(h, op) ==
  CASE op = "part"   -> {IF stage[h] = "none" THEN "parts" ELSE stage[h]}
    [] op = "last"   -> {"parts", "short", "whole"}
    [] op = "merge"  -> {"short", "whole"}
    [] op = "rename" -> {"none"}
    [] op = "remove" -> {"none"}

Placed(h) == IF stage[h] = "whole" THEN sent[h] ELSE Partial

Execute(h, op) ==
  /\ \E s \in NewStage(h, op) : stage' = [stage EXCEPT ![h] = s]
  /\ IF op = "rename"
       THEN /\ stage[h] \in {"short", "whole"}     \* there is such a file
            /\ dest' = Placed(h)
            /\ published' = [published EXCEPT ![h] = TRUE]
       ELSE UNCHANGED <<dest, published>>
  /\ removed' = [removed EXCEPT ![h] = @ \/ op = "remove"]

\* The client gets an error: Finder has executed the request, will, or never does.
GiveUp(h, op) ==
  \/ Execute(h, op) /\ UNCHANGED late
  \/ late' = late \cup {<<h, op>>} /\ UNCHANGED <<dest, stage, published, removed>>
  \/ UNCHANGED <<dest, stage, late, published, removed>>

Late(h, op) ==
  /\ <<h, op>> \in late
  /\ late' = late \ {<<h, op>>}
  /\ Execute(h, op)
  /\ UNCHANGED <<session, writer, sent, want>>

-----------------------------------------------------------------------------
(* writer.Close and finder.Client.Upload *)

\* Wrong: a cancelled Close returns before its deferred functions are set up.
FinishLeaks(h, r) ==
  /\ result' = [result EXCEPT ![h] = r]
  /\ IF at[h] = "open" THEN Goto(h, "done") /\ UNCHANGED spool
                       ELSE Goto(h, "unlist") /\ spool' = [spool EXCEPT ![h] = Absent]

\* Close's deferred functions: the spool goes, then the path is free again.
Finish(h, r) ==
  /\ Goto(h, "unlist")
  /\ spool' = [spool EXCEPT ![h] = Absent]
  /\ result' = [result EXCEPT ![h] = r]

Cancelled(h) == failed[h] \/ owner[h] \in ended

Close(h) ==
  /\ at[h] = "open"
  /\ \/ /\ Cancelled(h)
        /\ Finish(h, "error")
        /\ UNCHANGED sent
     \/ /\ ~Cancelled(h)
        /\ Goto(h, "chunk")
        /\ sent' = [sent EXCEPT ![h] = spool[h]]
        /\ UNCHANGED <<spool, result>>
  /\ UNCHANGED <<session, failed, next, dest, stage, late, history>>

Unlist(h) ==
  /\ at[h] = "unlist" /\ lock[owner[h]] = None
  /\ uploads' = [uploads EXCEPT ![owner[h]] = None]
  /\ Goto(h, "done")
  /\ UNCHANGED <<ended, owner, lock, spool, failed, next, result, finder, history>>

\* An empty file is one empty chunk.
Last(h) == next[h] >= Len(spool[h]) * PerBlock
ChunkOp(h) == IF Last(h) THEN "last" ELSE "part"

\* Finder asks for a merge after the last chunk or makes the file at once.
Chunk(h) ==
  /\ at[h] = "chunk"
  /\ Execute(h, ChunkOp(h))
  /\ IF Last(h)
       THEN Goto(h, IF stage'[h] = "parts" THEN "merge" ELSE "check") /\ UNCHANGED next
       ELSE next' = [next EXCEPT ![h] = @ + 1] /\ UNCHANGED at
  /\ UNCHANGED <<session, spool, failed, result, late, sent, want>>

Merge(h) ==
  /\ at[h] = "merge"
  /\ Execute(h, "merge")
  /\ Goto(h, "check")
  /\ UNCHANGED <<session, spool, failed, next, result, late, sent, want>>

SizeUnchecked(h) == TRUE       \* wrong: any stage is renamed
SizeAgrees(h) == stage[h] = "whole"

Check(h) ==
  /\ at[h] = "check"
  /\ \/ SizeAgrees(h) /\ Goto(h, "rename")
     \/ Goto(h, "remove")                  \* another size, or the request fails
  /\ UNCHANGED <<session, spool, failed, next, result, finder, history>>

Rename(h) ==
  /\ at[h] = "rename"
  /\ Execute(h, "rename")
  /\ Finish(h, "ok")
  /\ UNCHANGED <<session, failed, next, late, sent, want>>

\* Wrong: a request that seems to have failed may be sent again.
UploadRetries(h) ==
  /\ at[h] \in {"chunk", "merge", "rename"}
  /\ GiveUp(h, IF at[h] = "chunk" THEN ChunkOp(h) ELSE at[h])
  /\ (UNCHANGED at) \/ Goto(h, "remove")
  /\ UNCHANGED <<session, spool, failed, next, result, sent, want>>

\* Any other end of a request: the stage is removed, as far as possible.
UploadFails(h) ==
  /\ at[h] \in {"chunk", "merge", "rename"}
  /\ GiveUp(h, IF at[h] = "chunk" THEN ChunkOp(h) ELSE at[h])
  /\ Goto(h, "remove")
  /\ UNCHANGED <<session, spool, failed, next, result, sent, want>>

Remove(h) ==
  /\ at[h] = "remove"
  /\ (Execute(h, "remove") /\ UNCHANGED late) \/ GiveUp(h, "remove")
  /\ Finish(h, "error")
  /\ UNCHANGED <<session, failed, next, sent, want>>

-----------------------------------------------------------------------------
Upload(h) == Chunk(h) \/ Merge(h) \/ Check(h) \/ Rename(h) \/ UploadFails(h) \/ Remove(h) \/ Unlist(h)

Open(h) == (\E s \in Sessions : OpenStats(s, h)) \/ Opened(h) \/ OpenFails(h)

Next ==
  \/ \E h \in Handles : Open(h) \/ WriteAt(h) \/ Setstat(h) \/ TransferError(h)
                        \/ Close(h) \/ Upload(h)
  \/ \E h \in Handles, op \in {"part", "last", "merge", "rename", "remove"} : Late(h, op)
  \/ \E s \in Sessions : SessionEnds(s)
  \/ Filecmd

Spec == Init /\ [][Next]_vars
-----------------------------------------------------------------------------
(* Properties *)

\* Filewrite refuses a path that is open for upload, from the moment it is
\* opened until its Upload is through: one session never has two writers
\* replace one file.
Writing(h) == at[h] \in {"open"} \cup Uploading
OneWriter ==
  \A g, h \in Handles : g # h /\ owner[g] = owner[h] => ~(Writing(g) /\ Writing(h))

\* A request that Finder executes late cannot bring back an upload that was
\* given up: once the stage is removed, it is not renamed into place any more.
RemovedStaysOut ==
  [][\A h \in Handles : removed[h] /\ ~published[h] => ~published'[h]]_vars

\* An upload leaves nothing behind on this computer, however it ends: no
\* temporary file, and no entry that keeps the path from being opened again.
NothingLeft ==
  \A h \in Handles :
    at[h] = "done" => spool[h] = Absent /\ \A s \in Sessions : uploads[s] # h

\* To a reader of the file, uploads are atomic replacements.
Phase(h) ==
  IF at[h] \in {"unused", "fetch", "fresh"} \/ want[h] = Absent THEN "unused"
  ELSE IF sent[h] = Absent THEN IF failed[h] \/ at[h] # "open" THEN "aborted" ELSE "writing"
  ELSE IF result[h] = "ok" THEN "ok"
  ELSE IF result[h] = "error" THEN "failed"
  ELSE IF published[h] THEN "replaced" ELSE "closed"

FilePhase == [h \in Handles |-> Phase(h)]
File == INSTANCE AtomicFile WITH file <- dest, given <- want, phase <- FilePhase
ImplementsAtomicFile == File!Spec
=============================================================================
