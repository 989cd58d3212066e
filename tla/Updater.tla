------------------------------ MODULE Updater -------------------------------
(***************************************************************************)
(* The updater (internal/update/update.go) as the GUI calls it: Check      *)
(* shows a newer release, DownloadAndLaunch fetches its installer, which   *)
(* every release keeps under one name in one cache directory, verifies it  *)
(* against the release's checksum manifest and starts it.  Calls overlap;  *)
(* releases come, are withdrawn and have their files replaced meanwhile; a *)
(* download may be cut or the request fail; the process may be killed.     *)
(*                                                                         *)
(* A checksum stands for the content it is of.  Addresses and redirects    *)
(* are not modelled: a request that they rule out fails.                   *)
(***************************************************************************)
EXTENDS Integers

CONSTANTS Calls,            \* of DownloadAndLaunch, each made once
          Versions, Current,   \* of releases; of this program
          Builds,           \* of one release's installer
          Junk, Absent, Nothing,
          MaxChanges        \* bound: changes of the releases

\* parseVersion wants three numbers.
Triple(v) == v \in Nat \X Nat \X Nat

ASSUME VersionsAssumption == Triple(Current) /\ Current \in Versions
ASSUME FilesAssumption ==
  /\ Junk \notin Versions \X Builds /\ Absent \notin Versions \X Builds
  /\ Nothing \notin Versions \X Builds \cup {Junk, Absent}
  /\ Nothing \notin Versions /\ Absent # Junk

VARIABLES latest,           \* GitHub's latest release
          installer, sums,  \* the files of each release
          offered,          \* what Check has shown
          at, rel, want, temp,   \* of each call
          file,             \* in the cache
          launched, changes

release == <<latest, installer, sums>>
locals == <<at, rel, want, temp>>
vars == <<release, offered, locals, file, launched, changes>>

Installers == Versions \X Builds
Contents == Installers \cup {Junk}

\* compareVersions(a, b) < 0
Precedes(a, b) == \E i \in 1 .. 3 : a[i] < b[i] /\ \A j \in 1 .. i - 1 : a[j] = b[j]

\* assetFor finds this system's installer among the release's files.
HasInstaller(v) == installer[v] # Nothing

\* fetchLatest and compareVersions accept it.
IsUpdate(v) == Triple(v) /\ Precedes(Current, v)

\* The cache is as earlier versions left it.
Init ==
  /\ latest \in Versions
  /\ installer = [v \in Versions |-> Nothing] /\ sums = [v \in Versions |-> Nothing]
  /\ offered = Nothing
  /\ at = [c \in Calls |-> "unused"] /\ rel = [c \in Calls |-> Nothing]
  /\ want = [c \in Calls |-> Nothing] /\ temp = [c \in Calls |-> Absent]
  /\ file \in Contents \cup {Absent}
  /\ launched = {} /\ changes = 0

-----------------------------------------------------------------------------
(* GitHub *)

\* The workflow uploads the installer and then the manifest, perhaps again.
Changes ==
  /\ changes < MaxChanges
  /\ changes' = changes + 1
  /\ \/ \E v \in Versions : latest' = v /\ UNCHANGED <<installer, sums>>
     \/ \E v \in Versions, b \in Builds :
          installer' = [installer EXCEPT ![v] = <<v, b>>] /\ UNCHANGED <<latest, sums>>
     \/ \E v \in Versions : sums' = [sums EXCEPT ![v] = installer[v]] /\ UNCHANGED <<latest, installer>>
  /\ UNCHANGED <<offered, locals, file, launched>>

-----------------------------------------------------------------------------
(* Check and DownloadAndLaunch *)

Check ==
  /\ offered' = IF IsUpdate(latest) /\ HasInstaller(latest) THEN latest ELSE Nothing
  /\ UNCHANGED <<release, locals, file, launched, changes>>

Goto(c, l) == at' = [at EXCEPT ![c] = l]

\* The button is there when an update was shown; the latest release is asked
\* for again, which may fail.
FetchLatest(c) ==
  /\ at[c] = "unused" /\ offered # Nothing
  /\ \/ /\ IsUpdate(latest) /\ HasInstaller(latest) /\ sums[latest] # Nothing
        /\ Goto(c, "manifest") /\ rel' = [rel EXCEPT ![c] = latest]
     \/ Goto(c, "failed") /\ UNCHANGED rel
  /\ UNCHANGED <<release, offered, want, temp, file, launched, changes>>

FetchManifest(c) ==
  /\ at[c] = "manifest"
  /\ want' = [want EXCEPT ![c] = sums[rel[c]]]
  /\ Goto(c, "cached")
  /\ UNCHANGED <<release, offered, rel, temp, file, launched, changes>>

\* Wrong: any installer in the cache will do.
AnyFile(c) == file # Absent
MatchesSHA256(c) == file = want[c]

CheckCached(c) ==
  /\ at[c] = "cached"
  /\ Goto(c, IF MatchesSHA256(c) THEN "launch" ELSE "remove")
  /\ UNCHANGED <<release, offered, rel, want, temp, file, launched, changes>>

\* A file in use is not removed, and nobody looks.
RemoveCached(c) ==
  /\ at[c] = "remove"
  /\ file' \in {Absent, file}
  /\ Goto(c, "download")
  /\ UNCHANGED <<release, offered, rel, want, temp, launched, changes>>

\* Wrong: the download goes to the place of the installer itself.
ToPlace(c, got) == temp' = [temp EXCEPT ![c] = got] /\ file' = got
ToTemp(c, got) == temp' = [temp EXCEPT ![c] = got] /\ UNCHANGED file

\* What the release has by now, or a part of it.
Download(c) ==
  /\ at[c] = "download"
  /\ \E got \in {installer[rel[c]], Junk} : ToTemp(c, got)
  /\ Goto(c, "verify")
  /\ UNCHANGED <<release, offered, rel, want, launched, changes>>

Verify(c) ==
  /\ at[c] = "verify" /\ temp[c] = want[c]
  /\ Goto(c, "rename")
  /\ UNCHANGED <<release, offered, rel, want, temp, file, launched, changes>>

Rename(c) ==
  /\ at[c] = "rename"
  /\ file' = temp[c]
  /\ Goto(c, "launch")
  /\ UNCHANGED <<release, offered, rel, want, temp, launched, changes>>

Launch(c) ==
  /\ at[c] = "launch" /\ file # Absent
  /\ launched' = launched \cup {file}
  /\ Goto(c, "launched")
  /\ UNCHANGED <<release, offered, rel, want, temp, file, changes>>

\* A request, the checksum, the rename or the start fails, or the process is
\* killed (then a temporary file stays).
Fails(c) ==
  /\ at[c] \in {"manifest", "download", "verify", "rename", "launch"}
  /\ Goto(c, IF at[c] = "verify" THEN "discarded" ELSE "failed")
  /\ UNCHANGED <<release, offered, rel, want, temp, file, launched, changes>>

DownloadAndLaunch(c) ==
  \/ FetchLatest(c) \/ FetchManifest(c) \/ CheckCached(c) \/ RemoveCached(c)
  \/ Download(c) \/ Verify(c) \/ Rename(c) \/ Launch(c) \/ Fails(c)

Next == Changes \/ Check \/ \E c \in Calls : DownloadAndLaunch(c)

Spec == Init /\ [][Next]_vars
-----------------------------------------------------------------------------
(* Properties *)

\* What is started is a whole installer, as some release's manifest has it, of a
\* release newer than this program, be it the one this call asked for or another
\* call's: whatever happens to the file between the checksum and the start, and
\* whatever GitHub shows by then.
LaunchedIsVerified ==
  \A f \in launched : f \in Installers /\ IsUpdate(f[1])

\* To whoever starts it, the installer in the cache is replaced as a whole.
Phase(c) ==
  IF temp[c] = Absent THEN "unused"
  ELSE CASE at[c] = "verify" -> "writing"
         [] at[c] = "discarded" -> "aborted"
         [] at[c] = "rename" -> "closed"
         [] at[c] = "launch" -> "replaced"
         [] at[c] = "launched" -> "ok"
         [] OTHER -> "failed"
CachePhase == [c \in Calls |-> Phase(c)]

Cache == INSTANCE AtomicFile WITH Handles <- Calls, given <- temp, phase <- CachePhase
ReplacesInstaller == Cache!Spec
=============================================================================
