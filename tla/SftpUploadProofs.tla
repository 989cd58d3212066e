-------------------------- MODULE SftpUploadProofs --------------------------
(***************************************************************************)
(* Proofs about SftpUpload for any sets of sessions and handles, any size  *)
(* of files and any number of requests per block: the type invariant,      *)
(* OneWriter, NothingLeft, RemovedStaysOut and the refinement of           *)
(* AtomicFile.                                                             *)
(*                                                                         *)
(* The strengthening says what a handle owns at each of its steps: the     *)
(* lock (Locks), the entry of the path (Listed, Unlisted) and the spool    *)
(* (Files); and which requests may still be executed late (Requested): a   *)
(* rename only when nothing can fill the stage any more.  The refinement   *)
(* needs besides what became of the client's data (Told) and what a rename *)
(* finds whenever it is executed (Ready).                                  *)
(***************************************************************************)
EXTENDS SftpUpload, SequenceTheorems, TLAPS

Busy == {"open"} \cup Uploading
Holding == Busy \cup {"unlist"}
Filling == {"part", "last", "merge"}
Ops == Filling \cup {"rename", "remove"}
Over == {"unlist", "done"}

Files ==
  \A h \in Handles :
    /\ at[h] \in Busy => spool[h] \in Contents /\ want[h] \in Contents
    /\ at[h] \notin Busy => spool[h] = Absent

Locks ==
  \A h \in Handles : at[h] \in {"fetch", "fresh"} =>
    owner[h] \in Sessions /\ lock[owner[h]] = h /\ uploads[owner[h]] = None

Listed ==
  \A h \in Handles : at[h] \in Holding => owner[h] \in Sessions /\ uploads[owner[h]] = h

Unlisted ==
  \A h \in Handles, s \in Sessions : uploads[s] = h => owner[h] = s /\ at[h] \in Holding

Requested ==
  \A h \in Handles :
    /\ \A op \in Ops : <<h, op>> \in late => at[h] \in {"remove"} \cup Over
    /\ removed[h] \/ <<h, "remove">> \in late => at[h] \in Over
    /\ <<h, "rename">> \in late =>
         /\ \A op \in Filling : <<h, op>> \notin late
         /\ removed[h] => stage[h] = "none"

Table == Locks /\ Listed /\ Unlisted
IInv == TypeOK /\ Files /\ Table /\ Requested

-----------------------------------------------------------------------------
(* Files *)

LEMMA FileLength ==
  ASSUME NEW f \in Contents PROVE Len(f) \in 0 .. Size /\ f \in [1 .. Len(f) -> Blocks]
<1>1. PICK n \in 0 .. Size : f \in [1 .. n -> Blocks]  BY DEF Contents
<1>2. f \in Seq(Blocks)  BY <1>1, SizeAssumption, SeqDef
<1>3. DOMAIN f = 1 .. Len(f) /\ Len(f) \in Nat /\ f \in [1 .. Len(f) -> Blocks]
  BY <1>2, LenProperties
<1>4. DOMAIN f = 1 .. n  BY <1>1
<1>5. Len(f) = n
  <2>1. \A i \in Int : i \in 1 .. Len(f) <=> i \in 1 .. n  BY <1>3, <1>4
  <2>2. Len(f) \in 1 .. n \/ Len(f) = 0  BY <1>3, <2>1
  <2>3. n \in 1 .. Len(f) \/ n = 0  BY <2>1, SizeAssumption
  <2>4. Len(f) \in Nat /\ n \in Nat  BY <1>3, SizeAssumption
  <2>5. QED  BY <2>2, <2>3, <2>4
<1>6. QED  BY <1>3, <1>5

LEMMA PutIsFile ==
  ASSUME NEW f \in Contents, NEW i \in 1 .. Size, NEW h \in Handles
  PROVE  Put(f, i, h) \in Contents
<1> DEFINE n == IF i > Len(f) THEN i ELSE Len(f)
<1>1. n \in 0 .. Size  BY FileLength, SizeAssumption
<1>2. \A j \in 1 .. n : (IF j = i THEN h ELSE IF j <= Len(f) THEN f[j] ELSE "hole") \in Blocks
  BY FileLength, SizeAssumption DEF Blocks
<1>3. Put(f, i, h) \in [1 .. n -> Blocks]  BY <1>2 DEF Put
<1>4. QED  BY <1>1, <1>3 DEF Contents

LEMMA ResizedIsFile ==
  ASSUME NEW f \in Contents, NEW n \in 0 .. Size PROVE Resized(f, n) \in Contents
<1>1. \A j \in 1 .. n : (IF j <= Len(f) THEN f[j] ELSE "hole") \in Blocks
  BY FileLength, SizeAssumption DEF Blocks
<1>2. Resized(f, n) \in [1 .. n -> Blocks]  BY <1>1 DEF Resized
<1>3. QED  BY <1>2 DEF Contents

LEMMA Fewer ==
  ASSUME NEW a \in Nat, NEW b \in Nat, NEW c \in Nat, a <= b PROVE a * c <= b * c /\ b * c \in Nat
OBVIOUS

-----------------------------------------------------------------------------
LEMMA InitIInv == Init => IInv
<1> SUFFICES ASSUME Init PROVE IInv  OBVIOUS
<1>1. dest \in Contents \cup {Absent}
  <2>1. [1 .. Size -> {"old"}] \subseteq [1 .. Size -> Blocks]  BY DEF Blocks
  <2>2. [1 .. Size -> Blocks] \subseteq Contents  BY SizeAssumption DEF Contents
  <2>3. QED  BY <2>1, <2>2 DEF Init
<1>2. TypeOK  BY <1>1 DEF Init, TypeOK
<1>3. Files /\ Table /\ Requested
  BY NoneAssumption DEF Init, Files, Table, Locks, Listed, Unlisted, Requested, Busy, Holding, Uploading
<1>4. QED  BY <1>2, <1>3 DEF IInv

-----------------------------------------------------------------------------
(* Opening and leaving: the table of open uploads *)

\* Steps of h that are not among the requests to Finder.
LEMMA Unrequested ==
  ASSUME IInv, NEW h \in Handles, UNCHANGED <<late, removed, stage>>,
         at[h] \notin {"remove"} \cup Over \/ at'[h] \in Over,
         \A g \in Handles : g # h => at'[g] = at[g]
  PROVE  Requested'
BY DEF IInv, Requested

LEMMA OpenStatsKeeps ==
  ASSUME IInv, NEW s \in Sessions, NEW h \in Handles, OpenStats(s, h) PROVE IInv'
<1> USE NoneAssumption DEF IInv, TypeOK, OpenStats, NotOpen, Goto, finder, history
<1>1. at'[h] \in {"fetch", "fresh"} /\ at[h] = "unused" /\ \A g \in Handles : g # h => at'[g] = at[g]
  OBVIOUS
<1>2. TypeOK'  OBVIOUS
<1>3. Files'  BY <1>1 DEF Files, Busy, Uploading
<1>4. Table'  BY <1>1 DEF Table, Locks, Listed, Unlisted, Holding, Busy, Uploading
<1>5. Requested'  BY <1>1, Unrequested DEF Over
<1>6. QED  BY <1>2, <1>3, <1>4, <1>5

LEMMA OpenedKeeps ==
  ASSUME IInv, NEW h \in Handles, Opened(h) PROVE IInv'
<1> USE NoneAssumption DEF IInv, TypeOK, Opened, Goto, finder, history
<1>1. at'[h] = "open" /\ at[h] \in {"fetch", "fresh"} /\ \A g \in Handles : g # h => at'[g] = at[g]
  OBVIOUS
<1>2. owner[h] \in Sessions /\ lock[owner[h]] = h /\ uploads[owner[h]] = None
  BY <1>1 DEF Table, Locks
<1>3. TypeOK'  BY <1>2
<1>4. Files'  BY <1>1 DEF Files, Busy, Uploading
<1>5. Table'  BY <1>1, <1>2 DEF Table, Locks, Listed, Unlisted, Holding, Busy, Uploading
<1>6. Requested'  BY <1>1, Unrequested DEF Over
<1>7. QED  BY <1>3, <1>4, <1>5, <1>6

LEMMA OpenFailsKeeps ==
  ASSUME IInv, NEW h \in Handles, OpenFails(h) PROVE IInv'
<1> USE NoneAssumption DEF IInv, TypeOK, OpenFails, Goto, finder, history
<1>1. at'[h] = "done" /\ at[h] \in {"fetch", "fresh"} /\ \A g \in Handles : g # h => at'[g] = at[g]
  OBVIOUS
<1>2. owner[h] \in Sessions /\ lock[owner[h]] = h  BY <1>1 DEF Table, Locks
<1>3. TypeOK'  BY <1>2
<1>4. Files'  BY <1>1 DEF Files, Busy, Uploading
<1>5. Table'  BY <1>1, <1>2 DEF Table, Locks, Listed, Unlisted, Holding, Busy, Uploading
<1>6. Requested'  BY <1>1, Unrequested DEF Over
<1>7. QED  BY <1>3, <1>4, <1>5, <1>6

LEMMA UnlistKeeps ==
  ASSUME IInv, NEW h \in Handles, Unlist(h) PROVE IInv'
<1> USE NoneAssumption DEF IInv, TypeOK, Unlist, Goto, finder, history
<1>1. at'[h] = "done" /\ at[h] = "unlist" /\ \A g \in Handles : g # h => at'[g] = at[g]
  OBVIOUS
<1>2. owner[h] \in Sessions /\ uploads[owner[h]] = h /\ lock[owner[h]] = None
  BY <1>1 DEF Table, Listed, Holding
<1>3. TypeOK'  BY <1>2
<1>4. Files'  BY <1>1 DEF Files, Busy, Uploading
<1>5. Table'  BY <1>1, <1>2 DEF Table, Locks, Listed, Unlisted, Holding, Busy, Uploading
<1>6. Requested'  BY <1>1, Unrequested DEF Over
<1>7. QED  BY <1>3, <1>4, <1>5, <1>6

-----------------------------------------------------------------------------
(* An open file, and the steps of others *)

LEMMA WriteKeeps ==
  ASSUME IInv, NEW h \in Handles, WriteAt(h) \/ Setstat(h) \/ TransferError(h) PROVE IInv'
<1> USE DEF IInv
<1>1. at[h] = "open" /\ spool[h] \in Contents /\ want[h] \in Contents
  BY DEF WriteAt, Setstat, TransferError, Files, Busy
<1>2. UNCHANGED <<session, at, next, result, finder, published, removed>>
  BY DEF WriteAt, Setstat, TransferError, history
<1>3. /\ spool' \in [Handles -> Contents \cup {Absent}] /\ want' \in [Handles -> Contents \cup {Absent}]
      /\ failed' \in [Handles -> BOOLEAN]
      /\ spool'[h] \in Contents /\ want'[h] \in Contents
      /\ \A g \in Handles : g # h => spool'[g] = spool[g] /\ want'[g] = want[g]
  <2>1. CASE WriteAt(h)
    <3>1. PICK i \in 1 .. Size :
            /\ want' = [want EXCEPT ![h] = Put(want[h], i, h)]
            /\ \/ spool' = [spool EXCEPT ![h] = Put(spool[h], i, h)] /\ UNCHANGED failed
               \/ Fail(h) /\ UNCHANGED spool
      BY <2>1 DEF WriteAt
    <3>2. Put(want[h], i, h) \in Contents /\ Put(spool[h], i, h) \in Contents
      BY <1>1, PutIsFile
    <3>3. failed' \in [Handles -> BOOLEAN]  BY <3>1 DEF Fail, TypeOK
    <3>4. QED  BY <1>1, <3>1, <3>2, <3>3 DEF TypeOK
  <2>2. CASE Setstat(h)  BY <2>2, <1>1, ResizedIsFile DEF Setstat, TypeOK
  <2>3. CASE TransferError(h)  BY <2>3, <1>1 DEF TransferError, Fail, TypeOK, history
  <2>4. QED  BY <2>1, <2>2, <2>3
<1>4. TypeOK'  BY <1>2, <1>3 DEF TypeOK, session, finder
<1>5. Files'  BY <1>1, <1>2, <1>3 DEF Files, Busy
<1>6. Table' /\ Requested'
  BY <1>2 DEF Table, Locks, Listed, Unlisted, Requested, session, finder
<1>7. QED  BY <1>4, <1>5, <1>6

LEMMA OthersKeep ==
  ASSUME IInv, (\E s \in Sessions : SessionEnds(s)) \/ Filecmd PROVE IInv'
BY DEF IInv, TypeOK, Files, Table, Locks, Listed, Unlisted, Requested, SessionEnds, Filecmd,
  session, writer, finder, history

-----------------------------------------------------------------------------
(* Requests to Finder *)

LEMMA Executing ==
  ASSUME TypeOK, NEW h \in Handles, NEW op \in Ops, Execute(h, op)
  PROVE  /\ dest' \in Contents \cup {Absent, Partial}
         /\ stage' \in [Handles -> {"none", "parts", "short", "whole"}]
         /\ published' \in [Handles -> BOOLEAN] /\ removed' \in [Handles -> BOOLEAN]
         /\ \A g \in Handles : g # h =>
              stage'[g] = stage[g] /\ published'[g] = published[g] /\ removed'[g] = removed[g]
         /\ op \in {"rename", "remove"} => stage'[h] = "none"
         /\ removed'[h] <=> removed[h] \/ op = "remove"
         /\ op # "rename" => published' = published
         /\ op = "rename" => stage[h] \in {"short", "whole"}
<1>1. PICK s \in NewStage(h, op) : stage' = [stage EXCEPT ![h] = s]  BY DEF Execute
<1>2. s \in {"none", "parts", "short", "whole"} /\ (op \in {"rename", "remove"} => s = "none")
  BY <1>1 DEF NewStage, Ops, Filling, TypeOK
<1>3. dest' \in Contents \cup {Absent, Partial}  BY DEF Execute, Placed, TypeOK
<1>4. QED  BY <1>1, <1>2, <1>3 DEF Execute, TypeOK

\* Nothing about the table changes while an upload goes on.
LEMMA Uploads ==
  ASSUME IInv, NEW h \in Handles, UNCHANGED session, at[h] \in Busy,
         at'[h] \in Uploading \cup {"unlist"},
         \A g \in Handles : g # h => at'[g] = at[g]
  PROVE  Table'
BY DEF IInv, Table, Locks, Listed, Unlisted, session, Holding, Busy, Uploading

\* An upload that goes on, with its request executed.
LEMMA GoesOn ==
  ASSUME IInv, NEW h \in Handles, Chunk(h) \/ Merge(h) \/ Check(h) PROVE IInv'
<1> USE DEF IInv
<1>1. at[h] \in {"chunk", "merge", "check"}  BY DEF Chunk, Merge, Check
<1>2. /\ at'[h] \in Uploading /\ (\A g \in Handles : g # h => at'[g] = at[g])
      /\ at' \in [Handles -> {"unused", "fetch", "fresh", "open", "unlist", "done"} \cup Uploading]
  BY DEF Chunk, Merge, Check, Goto, TypeOK, Uploading
<1>3. UNCHANGED <<session, spool, failed, result, late, sent, want, removed>>
      /\ stage' \in [Handles -> {"none", "parts", "short", "whole"}]
      /\ dest' \in Contents \cup {Absent, Partial} /\ published' = published
      /\ \A g \in Handles : g # h => stage'[g] = stage[g]
  <2>1. CASE Chunk(h)
    <3>1. ChunkOp(h) \in {"part", "last"} /\ Execute(h, ChunkOp(h))  BY <2>1 DEF Chunk, ChunkOp
    <3>2. removed' = removed  BY <3>1 DEF Execute, TypeOK
    <3>3. QED  BY <2>1, <3>1, <3>2, Executing DEF Chunk, Ops, Filling
  <2>2. CASE Merge(h)
    <3>1. Execute(h, "merge")  BY <2>2 DEF Merge
    <3>2. removed' = removed  BY <3>1 DEF Execute, TypeOK
    <3>3. QED  BY <2>2, <3>1, <3>2, Executing DEF Merge, Ops, Filling
  <2>3. CASE Check(h)  BY <2>3 DEF Check, finder, history, TypeOK
  <2>4. QED  BY <2>1, <2>2, <2>3
<1>4. next' \in [Handles -> (1 .. Size * PerBlock) \cup {1}]
  <2>1. CASE next' = next  BY <2>1 DEF TypeOK
  <2>2. CASE Chunk(h) /\ ~Last(h)
    <3>1. next' = [next EXCEPT ![h] = next[h] + 1] /\ ~(next[h] >= Len(spool[h]) * PerBlock)
      BY <2>2 DEF Chunk, Last
    <3>2. Len(spool[h]) \in 0 .. Size  BY <1>1, FileLength DEF Files, Busy, Uploading
    <3>3. Len(spool[h]) * PerBlock <= Size * PerBlock /\ Size * PerBlock \in Nat
          /\ Len(spool[h]) * PerBlock \in Nat
      BY <3>2, SizeAssumption, Fewer
    <3>4. next[h] \in Nat \ {0}  BY <3>3 DEF TypeOK
    <3>5. next[h] + 1 \in 1 .. Size * PerBlock  BY <3>1, <3>3, <3>4
    <3>6. QED  BY <3>1, <3>5 DEF TypeOK
  <2>3. QED  BY <2>1, <2>2 DEF Chunk, Merge, Check
<1>5. TypeOK'  BY <1>2, <1>3, <1>4 DEF TypeOK, session
<1>6. Files'  BY <1>1, <1>2, <1>3 DEF Files, Busy, Uploading
<1>7. Table'  BY <1>1, <1>2, <1>3, Uploads DEF Busy, Uploading
<1>8. Requested'  BY <1>1, <1>2, <1>3 DEF Requested, Over
<1>9. QED  BY <1>5, <1>6, <1>7, <1>8

\* The types after an upload's end, and what the table and the files make of it.
LEMMA Ending ==
  ASSUME IInv, NEW h \in Handles, NEW r \in {"ok", "error"}, Finish(h, r), at[h] \in Busy,
         UNCHANGED <<session, failed, next, want>>
  PROVE  /\ at'[h] = "unlist" /\ \A g \in Handles : g # h => at'[g] = at[g]
         /\ at' \in [Handles -> {"unused", "fetch", "fresh", "open", "unlist", "done"} \cup Uploading]
         /\ spool' \in [Handles -> Contents \cup {Absent}]
         /\ result' \in [Handles -> {"none", "ok", "error"}]
         /\ Files' /\ Table'
<1> USE DEF IInv
<1>1. /\ at'[h] = "unlist" /\ \A g \in Handles : g # h => at'[g] = at[g]
      /\ at' \in [Handles -> {"unused", "fetch", "fresh", "open", "unlist", "done"} \cup Uploading]
      /\ spool' = [spool EXCEPT ![h] = Absent] /\ spool' \in [Handles -> Contents \cup {Absent}]
      /\ result' \in [Handles -> {"none", "ok", "error"}]
  BY DEF Finish, Goto, TypeOK
<1>2. Files'  BY <1>1 DEF Files, Busy, Uploading, TypeOK
<1>3. Table'  BY <1>1, Uploads
<1>4. QED  BY <1>1, <1>2, <1>3

LEMMA CloseKeeps == ASSUME IInv, NEW h \in Handles, Close(h) PROVE IInv'
<1> USE DEF IInv
<1>1. at[h] = "open" /\ spool[h] \in Contents /\ UNCHANGED <<session, failed, next, dest, stage, late, history>>
  BY DEF Close, Files, Busy
<1>2. CASE Finish(h, "error") /\ UNCHANGED sent
  <2>1. Files' /\ Table'  BY <1>1, <1>2, Ending DEF Busy, history
  <2>2. TypeOK'  BY <1>1, <1>2, Ending DEF Busy, history, TypeOK, session
  <2>3. Requested'  BY <1>1, <1>2, Ending, Unrequested DEF Busy, history, Over
  <2>4. QED  BY <2>1, <2>2, <2>3
<1>3. CASE /\ Goto(h, "chunk") /\ sent' = [sent EXCEPT ![h] = spool[h]] /\ UNCHANGED <<spool, result>>
  <2>1. at'[h] = "chunk" /\ \A g \in Handles : g # h => at'[g] = at[g]
    BY <1>3 DEF Goto, TypeOK
  <2>2. TypeOK'  BY <1>1, <1>3 DEF TypeOK, Goto, Uploading, session, history
  <2>3. Files'  BY <1>1, <1>3, <2>1 DEF Files, Busy, Uploading, history
  <2>4. Table'  BY <1>1, <2>1, Uploads DEF Busy, Uploading
  <2>5. Requested'  BY <1>1, <2>1, Unrequested DEF Over, history
  <2>6. QED  BY <2>2, <2>3, <2>4, <2>5
<1>4. QED  BY <1>2, <1>3 DEF Close

LEMMA RenameKeeps == ASSUME IInv, NEW h \in Handles, Rename(h) PROVE IInv'
<1> USE DEF IInv
<1>1. at[h] = "rename" /\ Execute(h, "rename") /\ Finish(h, "ok")
      /\ UNCHANGED <<session, failed, next, late, sent, want>>
  BY DEF Rename
<1>2. at[h] \in Busy  BY <1>1 DEF Busy, Uploading
<1>3. TypeOK'  BY <1>1, <1>2, Ending, Executing DEF TypeOK, session, Ops, Filling
<1>4. Files' /\ Table'  BY <1>1, <1>2, Ending
<1>5. Requested'
  BY <1>1, <1>2, Ending, Executing DEF Requested, Ops, Filling, Over
<1>6. QED  BY <1>3, <1>4, <1>5

\* A request given up for, executed or not.
LEMMA GivingUp ==
  ASSUME TypeOK, NEW h \in Handles, NEW op \in Ops, GiveUp(h, op)
  PROVE  /\ dest' \in Contents \cup {Absent, Partial}
         /\ stage' \in [Handles -> {"none", "parts", "short", "whole"}]
         /\ published' \in [Handles -> BOOLEAN] /\ removed' \in [Handles -> BOOLEAN]
         /\ late' \subseteq Handles \X Ops
         /\ late' \in {late, late \cup {<<h, op>>}}
         /\ \A g \in Handles : g # h => stage'[g] = stage[g] /\ removed'[g] = removed[g]
         /\ removed'[h] => removed[h] \/ op = "remove"
         /\ removed'[h] # removed[h] => stage'[h] = "none"
         /\ op = "remove" => stage'[h] \in {stage[h], "none"}
<1>1. CASE Execute(h, op) /\ UNCHANGED late  BY <1>1, Executing DEF TypeOK, Ops, Filling
<1>2. CASE late' = late \cup {<<h, op>>} /\ UNCHANGED <<dest, stage, published, removed>>
  BY <1>2 DEF TypeOK, Ops, Filling
<1>3. CASE UNCHANGED <<dest, stage, late, published, removed>>
  BY <1>3 DEF TypeOK, Ops, Filling
<1>4. QED  BY <1>1, <1>2, <1>3 DEF GiveUp

LEMMA FailsKeeps == ASSUME IInv, NEW h \in Handles, UploadFails(h) PROVE IInv'
<1> USE DEF IInv
<1> DEFINE op == IF at[h] = "chunk" THEN ChunkOp(h) ELSE at[h]
<1>1. /\ at[h] \in {"chunk", "merge", "rename"} /\ op \in Filling \cup {"rename"}
      /\ GiveUp(h, op) /\ UNCHANGED <<session, spool, failed, next, result, sent, want>>
      /\ at' = [at EXCEPT ![h] = "remove"]
  BY DEF UploadFails, ChunkOp, Filling, Goto
<1>2. at'[h] = "remove" /\ \A g \in Handles : g # h => at'[g] = at[g]  BY <1>1 DEF TypeOK
<1> HIDE DEF op
<1>3. op \in Ops /\ op # "remove"  BY <1>1 DEF Ops, Filling
<1>4. TypeOK'  BY <1>1, <1>3, GivingUp DEF TypeOK, Uploading, session, Ops, Filling
<1>5. Files'  BY <1>1, <1>2 DEF Files, Busy, Uploading
<1>6. Table'  BY <1>1, <1>2, Uploads DEF Busy, Uploading
<1>7. Requested'
  <2>1. \A o \in Ops : <<h, o>> \notin late  BY <1>1 DEF Requested, Over
  <2>2. ~removed[h] /\ ~removed'[h]  BY <1>1, <1>3, GivingUp DEF Requested, Over, TypeOK
  <2>3. \A o \in Ops : <<h, o>> \in late' => o = op  BY <1>1, <1>3, <2>1, GivingUp
  <2>4. \A g \in Handles, o \in Ops : g # h => (<<g, o>> \in late' <=> <<g, o>> \in late)
    BY <1>1, <1>3, GivingUp
  <2>5. \A g \in Handles : g # h => stage'[g] = stage[g] /\ removed'[g] = removed[g]
    BY <1>1, <1>3, GivingUp
  <2>6. \A o \in Filling : o \in Ops /\ o # "rename"  BY DEF Filling, Ops
  <2>7. "remove" \in Ops /\ "rename" \in Ops  BY DEF Ops
  <2>8. QED  BY <1>2, <1>3, <2>1, <2>2, <2>3, <2>4, <2>5, <2>6, <2>7 DEF Requested
<1>8. QED  BY <1>4, <1>5, <1>6, <1>7

LEMMA RemoveKeeps == ASSUME IInv, NEW h \in Handles, Remove(h) PROVE IInv'
<1> USE DEF IInv
<1>1. /\ at[h] = "remove" /\ Finish(h, "error") /\ UNCHANGED <<session, failed, next, sent, want>>
      /\ GiveUp(h, "remove")
  BY DEF Remove, GiveUp
<1>2. at[h] \in Busy /\ "remove" \in Ops  BY <1>1 DEF Busy, Uploading, Ops
<1>3. TypeOK'  BY <1>1, <1>2, Ending, GivingUp DEF TypeOK, session, Ops, Filling
<1>4. Files' /\ Table'  BY <1>1, <1>2, Ending
<1>5. Requested'
  <2>1. at'[h] = "unlist" /\ \A g \in Handles : g # h => at'[g] = at[g]  BY <1>1, <1>2, Ending
  <2>2. \A g \in Handles, o \in Ops : <<g, o>> \in late' => <<g, o>> \in late \/ (g = h /\ o = "remove")
    BY <1>1, <1>2, GivingUp
  <2>3. \A g \in Handles : g # h => stage'[g] = stage[g] /\ removed'[g] = removed[g]
    BY <1>1, <1>2, GivingUp
  <2>4. ~removed[h]  BY <1>1 DEF Requested, Over
  <2>5. removed'[h] => stage'[h] = "none"  BY <1>1, <1>2, <2>4, GivingUp DEF TypeOK
  <2>6. \A o \in Filling : o \in Ops /\ o # "remove"  BY DEF Filling, Ops
  <2>7. "rename" \in Ops  BY DEF Ops
  <2>8. QED  BY <1>2, <2>1, <2>2, <2>3, <2>4, <2>5, <2>6, <2>7 DEF Requested, Over
<1>6. QED  BY <1>3, <1>4, <1>5

LEMMA LateKeeps ==
  ASSUME IInv, NEW h \in Handles, NEW op \in Ops, Late(h, op) PROVE IInv'
<1> USE DEF IInv
<1>1. <<h, op>> \in late /\ late' = late \ {<<h, op>>} /\ Execute(h, op)
      /\ UNCHANGED <<session, writer, sent, want>>
  BY DEF Late
<1>2. TypeOK'  BY <1>1, Executing DEF TypeOK, session, writer
<1>3. Files' /\ Table'  BY <1>1 DEF Files, Table, Locks, Listed, Unlisted, session, writer
<1>4. Requested'
  <2>1. at[h] \in {"remove"} \cup Over /\ (op = "remove" => at[h] \in Over)  BY <1>1 DEF Requested
  <2>2. <<h, "rename">> \in late /\ op # "rename" => op = "remove"
    BY <1>1 DEF Requested, Ops
  <2>3. op \in {"rename", "remove"} => stage'[h] = "none"  BY <1>1, Executing
  <2>4. removed'[h] <=> removed[h] \/ op = "remove"  BY <1>1, Executing
  <2>5. \A g \in Handles : g # h => stage'[g] = stage[g] /\ removed'[g] = removed[g]
    BY <1>1, Executing
  <2>6. at' = at  BY <1>1 DEF writer
  <2>7. QED  BY <1>1, <2>1, <2>2, <2>3, <2>4, <2>5, <2>6 DEF Requested
<1>5. QED  BY <1>2, <1>3, <1>4

-----------------------------------------------------------------------------
LEMMA NextKeeps == ASSUME IInv, [Next]_vars PROVE IInv'
<1>1. CASE UNCHANGED vars
  BY <1>1 DEF IInv, TypeOK, Files, Table, Locks, Listed, Unlisted, Requested, vars,
    session, writer, finder, history
<1>2. CASE Next
  <2>1. ASSUME NEW h \in Handles, Open(h) PROVE IInv'
    BY <2>1, OpenStatsKeeps, OpenedKeeps, OpenFailsKeeps DEF Open
  <2>2. ASSUME NEW h \in Handles, WriteAt(h) \/ Setstat(h) \/ TransferError(h) PROVE IInv'
    BY <2>2, WriteKeeps
  <2>3. ASSUME NEW h \in Handles, Upload(h) PROVE IInv'
    BY <2>3, GoesOn, RenameKeeps, FailsKeeps, RemoveKeeps, UnlistKeeps DEF Upload
  <2>4. ASSUME NEW h \in Handles, NEW op \in Ops, Late(h, op) PROVE IInv'  BY <2>4, LateKeeps
  <2>5. QED
    BY <1>2, <2>1, <2>2, <2>3, <2>4, CloseKeeps, OthersKeep DEF Next, Ops, Filling
<1>3. QED  BY <1>1, <1>2

LEMMA Invariance == Spec => []IInv
<1>1. IInv /\ [Next]_vars => IInv'  BY NextKeeps
<1>2. QED  BY <1>1, InitIInv, PTL DEF Spec

\* Every variable keeps its type: a chunk is never numbered past the last.
THEOREM TypeCorrect == Spec => []TypeOK
<1>1. IInv => TypeOK  BY DEF IInv
<1>2. QED  BY <1>1, Invariance, PTL

\* One session never has two writers of one path, however lookups, uploads
\* and the deferred functions of Close interleave.
THEOREM Exclusive == Spec => []OneWriter
<1>1. IInv => OneWriter
  BY DEF IInv, Table, Listed, OneWriter, Writing, Holding, Busy, Uploading
<1>2. QED  BY <1>1, Invariance, PTL

\* An upload that is over leaves no temporary file and no entry of the path.
THEOREM CleanedUp == Spec => []NothingLeft
<1>1. IInv => NothingLeft
  BY DEF IInv, Table, Unlisted, Files, NothingLeft, Holding, Busy, Uploading
<1>2. QED  BY <1>1, Invariance, PTL

-----------------------------------------------------------------------------
\* Only a request that is executed puts a file in place, and only before the
\* stage is removed.
LEMMA Publishing ==
  ASSUME IInv, [Next]_vars
  PROVE  \A h \in Handles : removed[h] /\ ~published[h] => ~published'[h]
<1> SUFFICES ASSUME NEW h \in Handles, removed[h], ~published[h] PROVE ~published'[h]
  OBVIOUS
<1> USE DEF IInv
<1>1. at[h] \in Over  BY DEF Requested
<1>2. ASSUME NEW g \in Handles, NEW op \in Ops, Execute(g, op), g # h \/ op # "rename"
      PROVE ~published'[h]
  BY <1>2, Executing
<1>3. ASSUME published' = published PROVE ~published'[h]  BY <1>3
<1>4. ASSUME NEW g \in Handles, Upload(g) PROVE ~published'[h]
  <2>1. CASE Chunk(g) \/ Merge(g)
    <3>1. ChunkOp(g) \in Ops \ {"rename"} /\ "merge" \in Ops  BY DEF ChunkOp, Ops, Filling
    <3>2. QED  BY <2>1, <3>1, <1>2 DEF Chunk, Merge
  <2>2. CASE Check(g) \/ Unlist(g)  BY <2>2 DEF Check, Unlist, history
  <2>3. CASE Rename(g) \/ UploadFails(g) \/ Remove(g)
    <3>1. g # h  BY <1>1, <2>3 DEF Rename, UploadFails, Remove, Over
    <3>2. "rename" \in Ops /\ "remove" \in Ops  BY DEF Ops
    <3>3. at[g] = "chunk" \/ at[g] = "merge" \/ at[g] = "rename" =>
            (IF at[g] = "chunk" THEN ChunkOp(g) ELSE at[g]) \in Ops
      BY DEF ChunkOp, Ops, Filling
    <3>4. ASSUME NEW op \in Ops, GiveUp(g, op) PROVE ~published'[h]
      BY <3>4, <3>1, <1>2 DEF GiveUp
    <3>5. QED  BY <2>3, <3>1, <3>2, <3>3, <3>4, <1>2 DEF Rename, UploadFails, Remove
  <2>4. QED  BY <1>4, <2>1, <2>2, <2>3 DEF Upload
<1>5. ASSUME NEW g \in Handles, NEW op \in Ops, Late(g, op) PROVE ~published'[h]
  <2>1. <<g, op>> \in late /\ Execute(g, op)  BY <1>5 DEF Late
  <2>2. CASE g # h \/ op # "rename"  BY <2>1, <2>2, <1>2
  <2>3. CASE g = h /\ op = "rename"
    <3>1. stage[h] = "none"  BY <2>1, <2>3 DEF Requested
    <3>2. QED  BY <2>1, <2>3, <3>1, Executing
  <2>4. QED  BY <2>2, <2>3
<1>6. CASE \/ UNCHANGED vars \/ Filecmd \/ (\E s \in Sessions : SessionEnds(s))
           \/ \E g \in Handles : Open(g) \/ WriteAt(g) \/ Setstat(g) \/ TransferError(g) \/ Close(g)
  BY <1>6 DEF vars, Filecmd, SessionEnds, Open, OpenStats, Opened, OpenFails, WriteAt, Setstat,
    TransferError, Close, history
<1>7. QED  BY <1>4, <1>5, <1>6 DEF Next, Ops, Filling

\* No request that Finder executes late brings a removed upload into place.
THEOREM RemovalIsFinal == Spec => RemovedStaysOut
<1>1. IInv /\ [Next]_vars => [\A h \in Handles : removed[h] /\ ~published[h] => ~published'[h]]_vars
  BY Publishing
<1>2. QED  BY <1>1, Invariance, PTL DEF Spec, RemovedStaysOut

-----------------------------------------------------------------------------
(* The uploads of the path implement AtomicFile.  For this the history     *)
(* counts: Told says what becomes of what the client gave (what is sent is *)
(* all of it, and only a writer that is over has a result); Ready says     *)
(* that a rename, whenever Finder executes it, finds a whole stage or      *)
(* none, and that no request outlives an upload that succeeded.            *)

Starting == {"unused", "fetch", "fresh"}

Told(h) ==
  /\ sent[h] # Absent => sent[h] = want[h] /\ at[h] \in Uploading \cup Over
  /\ at[h] \in Starting => want[h] = Absent
  /\ at[h] \in Starting \cup {"open"} => sent[h] = Absent
  /\ at[h] = "open" => failed[h] \/ spool[h] = want[h]
  /\ at[h] \in Uploading => sent[h] # Absent
  /\ at[h] \in Over <=> result[h] # "none"
  /\ sent[h] = Absent => ~published[h] /\ result[h] # "ok"

Ready(h) ==
  /\ at[h] = "rename" => stage[h] = "whole"
  /\ at[h] \in {"chunk", "merge", "check", "rename"} => ~published[h]
  /\ \A op \in Ops : <<h, op>> \in late => sent[h] # Absent /\ result[h] # "ok"
  /\ <<h, "rename">> \in late => stage[h] \in {"whole", "none"} /\ ~published[h]

HInv == \A h \in Handles : Told(h) /\ Ready(h)

\* Nothing that Told, Ready and Phase say of g changes.
Alike(g) ==
  /\ at'[g] = at[g] /\ spool'[g] = spool[g] /\ failed'[g] = failed[g] /\ result'[g] = result[g]
  /\ want'[g] = want[g] /\ sent'[g] = sent[g] /\ published'[g] = published[g]
  /\ stage'[g] = stage[g] /\ \A op \in Ops : <<g, op>> \in late' => <<g, op>> \in late

LEMMA AlikeKeeps ==
  ASSUME NEW g \in Handles, Told(g), Ready(g), Alike(g)
  PROVE  Told(g)' /\ Ready(g)' /\ Phase(g)' = Phase(g)
<1>1. "rename" \in Ops  BY DEF Ops
<1>2. Told(g)'  BY DEF Told, Alike
<1>3. Ready(g)'  BY <1>1 DEF Ready, Alike
<1>4. Phase(g)' = Phase(g)  BY DEF Phase, Alike
<1>5. QED  BY <1>2, <1>3, <1>4

\* A step of h is one of AtomicFile's if h's phase and the file change as there.
LEMMA StepOfOne ==
  ASSUME HInv, NEW h \in Handles, \A g \in Handles : g # h => Alike(g), Told(h)', Ready(h)'
  PROVE  HInv' /\ FilePhase' = [FilePhase EXCEPT ![h] = Phase(h)']
<1>1. \A g \in Handles : g # h => Told(g)' /\ Ready(g)' /\ Phase(g)' = Phase(g)
  BY AlikeKeeps DEF HInv
<1>2. HInv'  BY <1>1 DEF HInv
<1>3. FilePhase' = [FilePhase EXCEPT ![h] = Phase(h)']  BY <1>1 DEF FilePhase
<1>4. QED  BY <1>2, <1>3

\* What a step of h has to show.
Implements == HInv' /\ [File!Next]_(File!vars)

\* A step that the file's readers and the client do not notice.
LEMMA Silent ==
  ASSUME HInv, NEW h \in Handles, \A g \in Handles : g # h => Alike(g), Told(h)', Ready(h)',
         dest' = dest, want' = want, Phase(h)' = Phase(h)
  PROVE  Implements
<1>1. FilePhase' = FilePhase  BY StepOfOne DEF FilePhase
<1>2. QED  BY <1>1, StepOfOne DEF Implements, File!vars

LEMMA OpeningImplements ==
  ASSUME IInv, HInv, NEW h \in Handles, Open(h) PROVE Implements
<1> USE DEF IInv, TypeOK, Goto, finder, history, Starting, Over, Uploading
<1>0. Told(h) /\ Ready(h)  BY DEF HInv
<1>1. CASE (\E s \in Sessions : OpenStats(s, h)) \/ OpenFails(h)
  <2>1. /\ \A g \in Handles : g # h => Alike(g)
        /\ UNCHANGED <<spool, failed, dest, stage, late, sent, want, published, removed>>
        /\ \/ at[h] = "unused" /\ at'[h] \in {"fresh", "fetch"} /\ result' = result
           \/ at[h] \in {"fresh", "fetch"} /\ at'[h] = "done" /\ result'[h] = "error"
    BY <1>1 DEF OpenStats, OpenFails, Alike
  <2>2. Told(h)'  BY <1>0, <2>1 DEF Told
  <2>3. Ready(h)'  BY <1>0, <2>1 DEF Ready
  <2>4. Phase(h)' = Phase(h)  BY <1>0, <2>1 DEF Told, Phase
  <2>5. QED  BY <2>1, <2>2, <2>3, <2>4, Silent
<1>2. CASE Opened(h)
  <2>1. PICK f \in Contents :
          spool' = [spool EXCEPT ![h] = f] /\ want' = [want EXCEPT ![h] = f]
    BY <1>2 DEF Opened
  <2>2. /\ \A g \in Handles : g # h => Alike(g)
        /\ at[h] \in {"fresh", "fetch"} /\ at'[h] = "open" /\ spool'[h] = f /\ want'[h] = f
        /\ UNCHANGED <<failed, result, dest, stage, late, sent, published, removed>>
    BY <1>2, <2>1 DEF Opened, Alike
  <2>3. Told(h)'  BY <1>0, <2>2, FileAssumption DEF Told
  <2>4. Ready(h)'  BY <1>0, <2>2 DEF Ready
  <2>5. Phase(h) = "unused" /\ Phase(h)' \in {"writing", "aborted"}
    BY <1>0, <2>2, FileAssumption DEF Told, Phase
  <2>6. HInv' /\ FilePhase' = [FilePhase EXCEPT ![h] = Phase(h)'] /\ FilePhase[h] = "unused"
    BY <2>2, <2>3, <2>4, <2>5, StepOfOne DEF FilePhase
  <2>7. File!Write(h)  BY <2>1, <2>2, <2>5, <2>6 DEF File!Write, File!Becomes
  <2>8. QED  BY <2>6, <2>7 DEF Implements, File!Next
<1>3. QED  BY <1>1, <1>2 DEF Open

LEMMA WritingImplements ==
  ASSUME IInv, HInv, NEW h \in Handles, WriteAt(h) \/ Setstat(h) \/ TransferError(h)
  PROVE  Implements
<1> USE DEF IInv, TypeOK, finder, history, session, Starting, Over, Uploading
<1>0. Told(h) /\ Ready(h)  BY DEF HInv
<1>1. /\ at[h] = "open" /\ at' = at /\ spool[h] \in Contents /\ want[h] \in Contents
      /\ UNCHANGED <<result, dest, stage, late, sent, published, removed>>
  BY DEF WriteAt, Setstat, TransferError, Files, Busy
<1>2. /\ want' = [want EXCEPT ![h] = want'[h]] /\ want'[h] \in Contents
      /\ \A g \in Handles : g # h => Alike(g)
      /\ failed[h] => failed'[h]
      /\ failed'[h] \/ spool'[h] = want'[h]
      /\ TransferError(h) => want' = want /\ failed'[h]
  <2>1. CASE WriteAt(h)
    <3>1. PICK i \in 1 .. Size :
            /\ want' = [want EXCEPT ![h] = Put(want[h], i, h)]
            /\ \/ spool' = [spool EXCEPT ![h] = Put(spool[h], i, h)] /\ UNCHANGED failed
               \/ failed' = [failed EXCEPT ![h] = TRUE] /\ UNCHANGED spool
      BY <2>1 DEF WriteAt, Fail
    <3>2. Put(want[h], i, h) \in Contents  BY <1>1, PutIsFile
    <3>3. failed'[h] \/ spool'[h] = want'[h]
      <4>1. CASE failed[h]  BY <3>1, <4>1
      <4>2. CASE spool[h] = want[h]  BY <3>1, <4>2
      <4>3. QED  BY <1>0, <1>1, <4>1, <4>2 DEF Told
    <3>4. ~TransferError(h) \/ (want' = want /\ failed'[h])
      BY <1>1 DEF TransferError, Fail
    <3>5. failed[h] => failed'[h]  BY <3>1
    <3>6. \A g \in Handles : g # h => Alike(g)  BY <1>1, <3>1 DEF Alike
    <3>7. QED  BY <3>1, <3>2, <3>3, <3>4, <3>5, <3>6
  <2>2. CASE Setstat(h)
    <3>1. PICK n \in 0 .. Size :
            /\ spool' = [spool EXCEPT ![h] = Resized(spool[h], n)]
            /\ want' = [want EXCEPT ![h] = Resized(want[h], n)]
      BY <2>2 DEF Setstat
    <3>2. Resized(want[h], n) \in Contents /\ failed' = failed
      BY <1>1, <2>2, ResizedIsFile DEF Setstat
    <3>3. failed'[h] \/ spool'[h] = want'[h]  BY <1>0, <1>1, <3>1, <3>2 DEF Told
    <3>4. ~TransferError(h) \/ (want' = want /\ failed'[h])
      BY <1>1 DEF TransferError, Fail
    <3>5. \A g \in Handles : g # h => Alike(g)  BY <1>1, <3>1, <3>2 DEF Alike
    <3>6. QED  BY <3>1, <3>2, <3>3, <3>4, <3>5
  <2>3. CASE TransferError(h)  BY <1>1, <2>3 DEF TransferError, Fail, Alike
  <2>4. QED  BY <2>1, <2>2, <2>3
<1>3. Told(h)'  BY <1>0, <1>1, <1>2 DEF Told
<1>4. Ready(h)'  BY <1>0, <1>1, <1>2 DEF Ready
<1>5. Phase(h) = (IF failed[h] THEN "aborted" ELSE "writing")
      /\ Phase(h)' = (IF failed'[h] THEN "aborted" ELSE "writing")
  BY <1>0, <1>1, <1>2, FileAssumption DEF Told, Phase
<1>6. HInv' /\ FilePhase' = [FilePhase EXCEPT ![h] = Phase(h)'] /\ FilePhase[h] = Phase(h)
  BY <1>2, <1>3, <1>4, StepOfOne DEF FilePhase
<1>7. CASE TransferError(h)
  <2>1. File!Close(h)  BY <1>1, <1>2, <1>5, <1>6, <1>7 DEF File!Close, File!Becomes
  <2>2. QED  BY <1>6, <2>1 DEF Implements, File!Next
<1>8. CASE ~TransferError(h)
  <2>1. File!Write(h)  BY <1>1, <1>2, <1>5, <1>6 DEF File!Write, File!Becomes
  <2>2. QED  BY <1>6, <2>1 DEF Implements, File!Next
<1>9. QED  BY <1>7, <1>8

LEMMA CloseImplements ==
  ASSUME IInv, HInv, NEW h \in Handles, Close(h) PROVE Implements
<1> USE DEF IInv, TypeOK, history, session, Starting, Over, Uploading, Goto
<1>0. Told(h) /\ Ready(h)  BY DEF HInv
<1>1. /\ at[h] = "open" /\ spool[h] \in Contents /\ want[h] \in Contents /\ sent[h] = Absent
      /\ UNCHANGED <<failed, dest, stage, late, want, published, removed>>
      /\ FilePhase[h] = (IF failed[h] THEN "aborted" ELSE "writing")
  BY <1>0, FileAssumption DEF Close, Files, Busy, Told, FilePhase, Phase
<1>2. /\ \A g \in Handles : g # h => Alike(g)
      /\ \/ at'[h] = "unlist" /\ result'[h] = "error" /\ sent' = sent
         \/ at'[h] = "chunk" /\ ~failed[h] /\ sent'[h] = spool[h] /\ result' = result
  BY <1>1 DEF Close, Finish, Cancelled, Alike
<1>3. Told(h)'  BY <1>0, <1>1, <1>2, FileAssumption DEF Told
<1>4. Ready(h)'  BY <1>0, <1>1, <1>2, FileAssumption DEF Ready, Told
<1>5. HInv' /\ FilePhase' = [FilePhase EXCEPT ![h] = Phase(h)']
  BY <1>2, <1>3, <1>4, StepOfOne
<1>6. Phase(h)' = "aborted" \/ (Phase(h)' = "closed" /\ ~failed[h])
  BY <1>0, <1>1, <1>2, FileAssumption DEF Phase, Told
<1>7. File!Close(h)  BY <1>1, <1>5, <1>6 DEF File!Close, File!Becomes
<1>8. QED  BY <1>5, <1>7 DEF Implements, File!Next

\* Requests that make the stage, its check, and the end of the deferred functions.
LEMMA FillingImplements ==
  ASSUME IInv, HInv, NEW h \in Handles, Chunk(h) \/ Merge(h) \/ Check(h) \/ Unlist(h)
  PROVE  Implements
<1> USE DEF IInv, TypeOK, history, finder, Starting, Over, Uploading, Goto
<1>0. Told(h) /\ Ready(h)  BY DEF HInv
<1>1. UNCHANGED <<spool, failed, result, late, sent, want, dest, published>>
      /\ \A g \in Handles : g # h => stage'[g] = stage[g] /\ at'[g] = at[g]
  <2>1. ASSUME NEW op \in Filling, Execute(h, op)
        PROVE  dest' = dest /\ published' = published /\ \A g \in Handles : g # h => stage'[g] = stage[g]
    <3>1. op # "rename" /\ op \in Ops  BY DEF Filling, Ops
    <3>2. QED  BY <2>1, <3>1, Executing DEF Execute
  <2>2. ChunkOp(h) \in Filling /\ "merge" \in Filling  BY DEF ChunkOp, Filling
  <2>3. CASE Chunk(h)  BY <2>1, <2>2, <2>3 DEF Chunk
  <2>4. CASE Merge(h)  BY <2>1, <2>2, <2>4 DEF Merge
  <2>5. CASE Check(h) \/ Unlist(h)  BY <2>5 DEF Check, Unlist
  <2>6. QED  BY <2>3, <2>4, <2>5
<1>2. \A g \in Handles : g # h => Alike(g)  BY <1>1 DEF Alike
<1>3. \/ /\ at[h] \in {"chunk", "merge", "check"} /\ at'[h] \in Uploading
         /\ at'[h] = "rename" => stage'[h] = "whole"
      \/ at[h] = "unlist" /\ at'[h] = "done" /\ stage' = stage
  BY DEF Chunk, Merge, Check, SizeAgrees, Unlist
<1>4. Told(h)'  BY <1>0, <1>1, <1>3 DEF Told
<1>5. Ready(h)'
  <2>1. CASE at[h] = "unlist"  BY <1>0, <1>1, <1>3, <2>1 DEF Ready
  <2>2. CASE at[h] # "unlist"
    <3>1. \A op \in Ops : <<h, op>> \notin late  BY <1>3, <2>2 DEF Requested
    <3>2. "rename" \in Ops  BY DEF Ops
    <3>3. QED  BY <1>0, <1>1, <1>3, <2>2, <3>1, <3>2 DEF Ready
  <2>3. QED  BY <2>1, <2>2
<1>6. Phase(h)' = Phase(h)  BY <1>0, <1>1, <1>3 DEF Told, Phase
<1>7. QED  BY <1>1, <1>2, <1>4, <1>5, <1>6, Silent

\* What is renamed into place is all that the client gave.
LEMMA RenameImplements ==
  ASSUME IInv, HInv, NEW h \in Handles, Rename(h) PROVE Implements
<1> USE DEF IInv, TypeOK, history, Starting, Over, Uploading, Goto
<1>0. Told(h) /\ Ready(h)  BY DEF HInv
<1>1. /\ at[h] = "rename" /\ Execute(h, "rename") /\ Finish(h, "ok")
      /\ UNCHANGED <<session, failed, next, late, sent, want>>
      /\ want[h] \in Contents /\ sent[h] = want[h] /\ stage[h] = "whole" /\ ~published[h]
      /\ "rename" \in Ops
  BY <1>0 DEF Rename, Files, Busy, Told, Ready, Ops
<1>2. dest' = want[h]  BY <1>1 DEF Execute, Placed
<1>3. published'[h] /\ at'[h] = "unlist" /\ result'[h] = "ok"  BY <1>1 DEF Execute, Finish
<1>4. \A op \in Ops : <<h, op>> \notin late  BY <1>1 DEF Requested
<1>5. \A g \in Handles : g # h => Alike(g)  BY <1>1, Executing DEF Finish, Alike
<1>6. Told(h)'  BY <1>0, <1>1, <1>3, FileAssumption DEF Told
<1>7. Ready(h)'  BY <1>1, <1>3, <1>4 DEF Ready
<1>8. Phase(h) = "closed" /\ Phase(h)' = "ok"
  BY <1>0, <1>1, <1>3, FileAssumption DEF Told, Phase
<1>9. HInv' /\ FilePhase' = [FilePhase EXCEPT ![h] = "ok"] /\ FilePhase[h] = "closed"
  BY <1>5, <1>6, <1>7, <1>8, StepOfOne DEF FilePhase
<1>10. File!Replace(h)  BY <1>1, <1>2, <1>9 DEF File!Replace, File!Becomes
<1>11. QED  BY <1>9, <1>10 DEF Implements, File!Next

\* An error of a request: a rename may have been executed all the same, or may be yet.
LEMMA FailsImplements ==
  ASSUME IInv, HInv, NEW h \in Handles, UploadFails(h) PROVE Implements
<1> USE DEF IInv, TypeOK, history, Starting, Over, Uploading, Goto
<1> DEFINE op == IF at[h] = "chunk" THEN ChunkOp(h) ELSE at[h]
<1>0. Told(h) /\ Ready(h)  BY DEF HInv
<1>1. /\ at[h] \in {"chunk", "merge", "rename"} /\ op \in Ops \ {"remove"}
      /\ op = "rename" <=> at[h] = "rename"
      /\ GiveUp(h, op) /\ UNCHANGED <<session, spool, failed, next, result, sent, want>>
      /\ at' = [at EXCEPT ![h] = "remove"]
      /\ want[h] \in Contents /\ sent[h] = want[h] /\ ~published[h] /\ result[h] = "none"
      /\ "rename" \in Ops
  BY <1>0 DEF UploadFails, ChunkOp, Ops, Filling, Files, Busy, Told, Ready
<1> HIDE DEF op
<1>2. \A o \in Ops : <<h, o>> \in late' => late' # late /\ o = op
  <2>1. \A o \in Ops : <<h, o>> \notin late  BY <1>1 DEF Requested
  <2>2. QED  BY <1>1, <2>1, GivingUp
<1>3. \A g \in Handles : g # h => Alike(g)
  <2>1. ASSUME NEW g \in Handles, g # h
        PROVE  published'[g] = published[g] /\ \A o \in Ops : <<g, o>> \in late' => <<g, o>> \in late
    BY <1>1, <2>1, GivingUp, Executing DEF GiveUp
  <2>2. QED  BY <1>1, <2>1, GivingUp DEF Alike
<1>4. Told(h)'  BY <1>0, <1>1, FileAssumption DEF Told
<1>5. CASE Execute(h, op) /\ late' = late /\ op = "rename"
  <2>1. published'[h] /\ dest' = want[h]
    BY <1>0, <1>1, <1>5 DEF Execute, Placed, Ready
  <2>2. Ready(h)'  BY <1>1, <1>2, <1>5, <2>1 DEF Ready
  <2>3. Phase(h) = "closed" /\ Phase(h)' = "replaced"
    BY <1>0, <1>1, <2>1, FileAssumption DEF Told, Phase
  <2>4. HInv' /\ FilePhase' = [FilePhase EXCEPT ![h] = "replaced"] /\ FilePhase[h] = "closed"
    BY <1>3, <1>4, <2>2, <2>3, StepOfOne DEF FilePhase
  <2>5. File!Replace(h)  BY <1>1, <2>1, <2>4 DEF File!Replace, File!Becomes
  <2>6. QED  BY <2>4, <2>5 DEF Implements, File!Next
<1>6. CASE ~(Execute(h, op) /\ late' = late /\ op = "rename")
  <2>1. dest' = dest /\ published' = published /\ (late' # late => stage' = stage)
    BY <1>1, <1>6 DEF GiveUp, Execute
  <2>2. Ready(h)'
    <3>1. <<h, "rename">> \in late' => stage'[h] = "whole"
      BY <1>0, <1>1, <1>2, <2>1 DEF Ready
    <3>2. QED  BY <1>1, <2>1, <3>1, FileAssumption DEF Ready
  <2>3. Phase(h)' = Phase(h)  BY <1>0, <1>1, <2>1 DEF Told, Phase
  <2>4. QED  BY <1>1, <1>3, <1>4, <2>1, <2>2, <2>3, Silent
<1>7. QED  BY <1>5, <1>6

LEMMA RemoveImplements ==
  ASSUME IInv, HInv, NEW h \in Handles, Remove(h) PROVE Implements
<1> USE DEF IInv, TypeOK, history, Starting, Over, Uploading, Goto
<1>0. Told(h) /\ Ready(h)  BY DEF HInv
<1>1. /\ at[h] = "remove" /\ Finish(h, "error") /\ UNCHANGED <<session, failed, next, sent, want>>
      /\ GiveUp(h, "remove") /\ "remove" \in Ops /\ "rename" \in Ops
      /\ want[h] \in Contents /\ sent[h] = want[h] /\ result[h] = "none"
  BY <1>0 DEF Remove, GiveUp, Files, Busy, Told, Ops
<1>2. dest' = dest /\ published' = published  BY <1>1 DEF GiveUp, Execute
<1>3. \A g \in Handles : g # h => Alike(g)
  <2>1. ASSUME NEW g \in Handles, g # h
        PROVE  \A o \in Ops : <<g, o>> \in late' => <<g, o>> \in late
    BY <1>1, <2>1, GivingUp
  <2>2. QED  BY <1>1, <1>2, <2>1, GivingUp DEF Alike, Finish
<1>4. at'[h] = "unlist" /\ result'[h] = "error"  BY <1>1 DEF Finish
<1>5. Told(h)'  BY <1>0, <1>1, <1>2, <1>4, FileAssumption DEF Told
<1>6. Ready(h)'
  <2>1. <<h, "rename">> \in late' => <<h, "rename">> \in late  BY <1>1, GivingUp
  <2>2. stage'[h] \in {stage[h], "none"}  BY <1>1, GivingUp
  <2>3. QED  BY <1>0, <1>1, <1>2, <1>4, <2>1, <2>2, FileAssumption DEF Ready
<1>7. Phase(h) \in {"closed", "replaced"} /\ Phase(h)' = "failed"
  BY <1>0, <1>1, <1>2, <1>4, FileAssumption DEF Told, Phase
<1>8. HInv' /\ FilePhase' = [FilePhase EXCEPT ![h] = "failed"] /\ FilePhase[h] \in {"closed", "replaced"}
  BY <1>3, <1>5, <1>6, <1>7, StepOfOne DEF FilePhase
<1>9. File!Report(h)  BY <1>1, <1>2, <1>8 DEF File!Report, File!Becomes
<1>10. QED  BY <1>8, <1>9 DEF Implements, File!Next

\* Finder executes a request late, the upload perhaps long reported as failed.
LEMMA LateImplements ==
  ASSUME IInv, HInv, NEW h \in Handles, NEW op \in Ops, Late(h, op) PROVE Implements
<1> USE DEF IInv, TypeOK, history, Starting, Over, Uploading
<1>0. Told(h) /\ Ready(h)  BY DEF HInv
<1>1. /\ <<h, op>> \in late /\ late' = late \ {<<h, op>>} /\ Execute(h, op)
      /\ UNCHANGED <<session, at, spool, failed, next, result, sent, want>>
      /\ at[h] \in {"remove"} \cup Over /\ sent[h] # Absent /\ sent[h] = want[h]
      /\ want[h] \in Contents /\ result[h] # "ok"
  BY <1>0 DEF Late, writer, Requested, Told, Ready
<1>2. \A g \in Handles : g # h => Alike(g)
  <2>1. \A g \in Handles : g # h => stage'[g] = stage[g] /\ published'[g] = published[g]
    BY <1>1, Executing
  <2>2. QED  BY <1>1, <2>1 DEF Alike
<1>3. Told(h)'  BY <1>0, <1>1 DEF Told
<1>4. CASE op = "rename"
  <2>1. stage[h] = "whole" /\ ~published[h] /\ stage'[h] = "none"
    BY <1>0, <1>1, <1>4, Executing DEF Ready
  <2>2. dest' = want[h] /\ published'[h]  BY <1>1, <1>4, <2>1 DEF Execute, Placed
  <2>3. Ready(h)'  BY <1>0, <1>1, <1>4, <2>1 DEF Ready
  <2>4. \/ Phase(h) = "closed" /\ Phase(h)' = "replaced"
        \/ Phase(h) = "failed" /\ Phase(h)' = "failed"
    BY <1>0, <1>1, <2>1, <2>2, FileAssumption DEF Told, Phase
  <2>5. HInv' /\ FilePhase' = [FilePhase EXCEPT ![h] = Phase(h)'] /\ FilePhase[h] = Phase(h)
    BY <1>2, <1>3, <2>3, StepOfOne DEF FilePhase
  <2>6. File!Replace(h)
    <3>1. CASE Phase(h) = "closed"  BY <1>1, <2>2, <2>4, <2>5, <3>1 DEF File!Replace, File!Becomes
    <3>2. CASE Phase(h) = "failed"
      <4>1. FilePhase' = FilePhase  BY <2>4, <2>5, <3>2 DEF FilePhase
      <4>2. QED  BY <1>1, <2>2, <2>5, <3>2, <4>1 DEF File!Replace
    <3>3. QED  BY <2>4, <3>1, <3>2
  <2>7. QED  BY <2>5, <2>6 DEF Implements, File!Next
<1>5. CASE op # "rename"
  <2>1. dest' = dest /\ published' = published  BY <1>1, <1>5 DEF Execute
  <2>2. <<h, "rename">> \in late => op = "remove" /\ stage'[h] = "none"
    BY <1>1, <1>5, Executing DEF Requested, Ops
  <2>3. "rename" \in Ops  BY DEF Ops
  <2>4. Ready(h)'  BY <1>0, <1>1, <2>1, <2>2, <2>3 DEF Ready
  <2>5. Phase(h)' = Phase(h)  BY <1>1, <2>1 DEF Phase
  <2>6. QED  BY <1>1, <1>2, <1>3, <2>1, <2>4, <2>5, Silent
<1>6. QED  BY <1>4, <1>5

LEMMA StepImplements == ASSUME IInv, HInv, [Next]_vars PROVE Implements
<1>1. CASE UNCHANGED <<writer, stage, late, sent, history>> /\ (dest' = dest \/ dest' = Absent)
  <2>1. \A g \in Handles : Alike(g)  BY <1>1 DEF Alike, writer, history
  <2>2. HInv' /\ FilePhase' = FilePhase  BY <2>1, AlikeKeeps DEF HInv, FilePhase
  <2>3. QED  BY <1>1, <2>2 DEF Implements, history, File!vars, File!Next, File!Remove
<1>2. CASE UNCHANGED vars \/ Filecmd \/ \E s \in Sessions : SessionEnds(s)
  BY <1>1, <1>2 DEF vars, Filecmd, SessionEnds, finder
<1>3. ASSUME NEW h \in Handles, Open(h) \/ WriteAt(h) \/ Setstat(h) \/ TransferError(h) \/ Close(h)
      PROVE  Implements
  BY <1>3, OpeningImplements, WritingImplements, CloseImplements
<1>4. ASSUME NEW h \in Handles, Upload(h) PROVE Implements
  BY <1>4, FillingImplements, RenameImplements, FailsImplements, RemoveImplements DEF Upload
<1>5. ASSUME NEW h \in Handles, NEW op \in Ops, Late(h, op) PROVE Implements
  BY <1>5, LateImplements
<1>6. QED  BY <1>2, <1>3, <1>4, <1>5 DEF Next, Ops, Filling

\* To a reader of the remote file, each upload replaces it whole with all that
\* its client gave, or not at all, whoever else uploads at the time; a close
\* that reports success has replaced it, and a request that Finder executes
\* late puts no part of a file and no aborted transfer in place.
THEOREM UploadsReplaceTheFile == Spec => ImplementsAtomicFile
<1>1. Init => HInv /\ File!Init
  <2>1. SUFFICES ASSUME Init PROVE HInv /\ File!Init  OBVIOUS
  <2>2. dest \in Contents \cup {Absent}
    <3>1. [1 .. Size -> {"old"}] \subseteq [1 .. Size -> Blocks]  BY DEF Blocks
    <3>2. [1 .. Size -> Blocks] \subseteq Contents  BY SizeAssumption DEF Contents
    <3>3. QED  BY <2>1, <3>1, <3>2 DEF Init
  <2>3. HInv  BY <2>1 DEF Init, HInv, Told, Ready, Starting, Over, Uploading
  <2>4. QED  BY <2>1, <2>2, <2>3 DEF Init, File!Init, FilePhase, Phase
<1>2. IInv /\ HInv /\ [Next]_vars => HInv' /\ [File!Next]_(File!vars)
  BY StepImplements DEF Implements
<1>3. QED  BY <1>1, <1>2, Invariance, PTL DEF Spec, ImplementsAtomicFile, File!Spec
=============================================================================
