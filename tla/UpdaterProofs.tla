---------------------------- MODULE UpdaterProofs ----------------------------
(***************************************************************************)
(* Proofs about Updater for any number of calls, releases and changes: no  *)
(* unverified or older installer is started, to whoever starts it the one  *)
(* in the cache is replaced as a whole, and versions are totally ordered.  *)
(*                                                                         *)
(* Calls meet only in the cached file.  Once a call has seen the checksum  *)
(* agree, the file is a good installer or gone: other calls put only what  *)
(* they verified there, each for the release it asked for (Trusted).       *)
(***************************************************************************)
EXTENDS Updater, TLAPS

Good(f) == f \in Installers /\ IsUpdate(f[1])

Labels == {"unused", "manifest", "cached", "remove", "download", "verify", "rename",
           "launch", "launched", "failed", "discarded"}

\* A release's files are its own, and its manifest is not there before them.
FilesOfReleases ==
  /\ installer \in [Versions -> Installers \cup {Nothing}]
  /\ sums \in [Versions -> Installers \cup {Nothing}]
  /\ \A v \in Versions :
       /\ installer[v] # Nothing => installer[v][1] = v
       /\ sums[v] # Nothing => sums[v][1] = v /\ installer[v] # Nothing

TypeOK ==
  /\ latest \in Versions /\ FilesOfReleases
  /\ at \in [Calls -> Labels]
  /\ rel \in [Calls -> Versions \cup {Nothing}]
  /\ want \in [Calls -> Installers \cup {Nothing}]
  /\ temp \in [Calls -> Contents \cup {Absent}]
  /\ file \in Contents \cup {Absent}

\* Where a call that is under way stands.
Asked(c) ==
  /\ at[c] \in {"manifest", "cached", "remove", "download", "verify", "rename"} =>
       rel[c] \in Versions /\ IsUpdate(rel[c]) /\ sums[rel[c]] # Nothing
  /\ at[c] \in {"cached", "remove", "download", "verify", "rename"} => Good(want[c])
  /\ at[c] \in {"verify", "discarded"} => temp[c] # Absent
  /\ at[c] = "rename" => temp[c] = want[c]
  /\ at[c] \in {"unused", "manifest", "cached", "remove", "download"} => temp[c] = Absent

Trusted == (\E c \in Calls : at[c] = "launch") => Good(file) \/ file = Absent

IInv == TypeOK /\ (\A c \in Calls : Asked(c)) /\ Trusted /\ LaunchedIsVerified

-----------------------------------------------------------------------------
LEMMA InitIInv == Init => IInv
  BY FilesAssumption DEF Init, IInv, TypeOK, FilesOfReleases, Asked, Trusted,
    LaunchedIsVerified, Labels, Contents

\* An installer is a release's, and neither junk nor nothing.
LEMMA InstallersApart ==
  ASSUME NEW f \in Installers
  PROVE  f # Nothing /\ f # Absent /\ f # Junk /\ f[1] \in Versions
  BY FilesAssumption DEF Installers

LEMMA ChangesStep == ASSUME IInv, Changes PROVE IInv'
<1> USE DEF IInv, TypeOK, Asked, Trusted, LaunchedIsVerified, Good, locals
<1>1. latest' \in Versions  BY DEF Changes
<1>2. FilesOfReleases'
  <2>1. ASSUME NEW v \in Versions, NEW b \in Builds PROVE <<v, b>> \in Installers /\ <<v, b>>[1] = v
    BY DEF Installers
  <2>2. QED  BY <2>1, InstallersApart DEF Changes, FilesOfReleases
<1>3. \A v \in Versions : sums[v] # Nothing => sums'[v] # Nothing
  BY DEF Changes, FilesOfReleases
<1>4. QED  BY <1>1, <1>2, <1>3 DEF Changes

\* The steps of one call: what it knows, and then what the others do.
LEMMA CallStep == ASSUME IInv, NEW c \in Calls, DownloadAndLaunch(c) PROVE IInv'
<1> USE DEF IInv, TypeOK, Asked, Trusted, LaunchedIsVerified, Good, release, Goto, Labels, FilesOfReleases
<1>1. CASE FetchLatest(c)  BY <1>1 DEF FetchLatest
<1>2. CASE FetchManifest(c)
  BY <1>2, InstallersApart DEF FetchManifest
<1>3. CASE CheckCached(c)  BY <1>3 DEF CheckCached, MatchesSHA256
<1>4. CASE RemoveCached(c)  BY <1>4 DEF RemoveCached
<1>5. CASE Download(c)  BY <1>5, InstallersApart, FilesAssumption DEF Download, ToTemp, Contents
<1>6. CASE Verify(c)  BY <1>6 DEF Verify
<1>7. CASE Rename(c)  BY <1>7 DEF Rename, Contents
<1>8. CASE Launch(c)  BY <1>8 DEF Launch
<1>9. CASE Fails(c)  BY <1>9 DEF Fails
<1>10. QED  BY <1>1, <1>2, <1>3, <1>4, <1>5, <1>6, <1>7, <1>8, <1>9 DEF DownloadAndLaunch

LEMMA StepIInv == IInv /\ [Next]_vars => IInv'
<1> SUFFICES ASSUME IInv, [Next]_vars PROVE IInv'  OBVIOUS
<1>1. CASE Check \/ UNCHANGED vars
  BY <1>1 DEF Check, vars, release, locals, IInv, TypeOK, FilesOfReleases, Asked, Trusted,
    LaunchedIsVerified, Good
<1>2. CASE Changes  BY <1>2, ChangesStep
<1>3. CASE \E c \in Calls : DownloadAndLaunch(c)  BY <1>3, CallStep
<1>4. QED  BY <1>1, <1>2, <1>3 DEF Next

LEMMA Invariance == Spec => []IInv
  BY InitIInv, StepIInv, PTL DEF Spec

\* Only whole, verified installers of newer releases are started, though the
\* file may be replaced between the checksum and the start.
THEOREM OnlyUpdatesAreLaunched == Spec => []LaunchedIsVerified
<1>1. IInv => LaunchedIsVerified  BY DEF IInv
<1>2. QED  BY <1>1, Invariance, PTL

-----------------------------------------------------------------------------
\* Only c's phase changes with a step of c.
LEMMA PhaseOf ==
  ASSUME IInv, NEW c \in Calls, NEW l, Goto(c, l),
         temp' = temp \/ temp' = [temp EXCEPT ![c] = temp'[c]]
  PROVE  CachePhase' = [CachePhase EXCEPT ![c] = Phase(c)']
<1> USE DEF IInv, TypeOK
<1>1. ASSUME NEW d \in Calls, d # c PROVE Phase(d)' = Phase(d)
  BY <1>1 DEF Phase, Goto
<1>2. QED  BY <1>1 DEF CachePhase

LEMMA CallImplements ==
  ASSUME IInv, NEW c \in Calls, DownloadAndLaunch(c)
  PROVE  [Cache!Next]_(Cache!vars)
<1> USE DEF Asked, Goto, Cache!vars, Cache!Next, Cache!Becomes
<1>0. /\ Asked(c) /\ at[c] \in Labels /\ temp \in [Calls -> Contents \cup {Absent}]
      /\ at \in [Calls -> Labels] /\ CachePhase[c] = Phase(c)
      /\ Absent \notin Contents
  BY FilesAssumption DEF IInv, TypeOK, CachePhase, Contents, Installers
<1>1. CASE temp' = temp /\ file' = file /\ Phase(c)' = Phase(c)
           /\ \E l \in Labels : Goto(c, l)
  <2>1. CachePhase' = [CachePhase EXCEPT ![c] = Phase(c)]  BY <1>1, PhaseOf
  <2>2. QED  BY <1>0, <1>1, <2>1 DEF CachePhase
<1>2. CASE FetchLatest(c) \/ FetchManifest(c) \/ CheckCached(c)
  BY <1>0, <1>1, <1>2 DEF FetchLatest, FetchManifest, CheckCached, Labels, Phase
<1>3. CASE RemoveCached(c)
  <2>1. CachePhase' = CachePhase
    BY <1>0, <1>3, PhaseOf DEF RemoveCached, Phase, CachePhase
  <2>2. QED  BY <1>3, <2>1 DEF RemoveCached, Cache!Remove
<1>4. CASE Download(c)
  <2>1. PICK got \in Contents : temp' = [temp EXCEPT ![c] = got] /\ file' = file
    BY <1>0, <1>4 DEF Download, ToTemp, IInv, TypeOK, FilesOfReleases, Contents
  <2>2. Phase(c) = "unused" /\ Phase(c)' = "writing"
    BY <1>0, <1>4, <2>1 DEF Download, Phase
  <2>3. CachePhase' = [CachePhase EXCEPT ![c] = "writing"]
    BY <1>0, <1>4, <2>1, <2>2, PhaseOf DEF Download
  <2>4. Cache!Write(c)  BY <1>0, <2>1, <2>2, <2>3 DEF Cache!Write
  <2>5. QED  BY <2>4
<1>5. CASE Verify(c)
  <2>1. Phase(c) = "writing" /\ Phase(c)' = "closed"
    BY <1>0, <1>5 DEF Verify, Phase
  <2>2. CachePhase' = [CachePhase EXCEPT ![c] = "closed"]  BY <1>5, <2>1, PhaseOf DEF Verify
  <2>3. QED  BY <1>0, <1>5, <2>1, <2>2 DEF Verify, Cache!Close
<1>6. CASE Rename(c)
  <2>1. temp[c] # Absent
    BY <1>0, <1>6, InstallersApart DEF Rename, Good
  <2>2. Phase(c) = "closed" /\ Phase(c)' = "replaced"
    BY <1>0, <1>6, <2>1 DEF Rename, Phase
  <2>3. CachePhase' = [CachePhase EXCEPT ![c] = "replaced"]  BY <1>6, <2>2, PhaseOf DEF Rename
  <2>4. QED  BY <1>0, <1>6, <2>2, <2>3 DEF Rename, Cache!Replace
<1>7. CASE Launch(c)
  <2>1. CASE temp[c] = Absent
    BY <1>0, <1>1, <1>7, <2>1 DEF Launch, Labels, Phase
  <2>2. CASE temp[c] # Absent
    <3>1. Phase(c) = "replaced" /\ Phase(c)' = "ok"
      BY <1>0, <1>7, <2>2 DEF Launch, Phase
    <3>2. CachePhase' = [CachePhase EXCEPT ![c] = "ok"]  BY <1>7, <3>1, PhaseOf DEF Launch
    <3>3. QED  BY <1>0, <1>7, <3>1, <3>2 DEF Launch, Cache!Report
  <2>3. QED  BY <2>1, <2>2
<1>8. CASE Fails(c)
  <2>1. CASE temp[c] = Absent
    BY <1>0, <1>1, <1>8, <2>1 DEF Fails, Labels, Phase
  <2>2. CASE at[c] = "verify"
    <3>1. Phase(c) = "writing" /\ Phase(c)' = "aborted"
      BY <1>0, <1>8, <2>2 DEF Fails, Phase
    <3>2. CachePhase' = [CachePhase EXCEPT ![c] = "aborted"]
      BY <1>8, <2>2, <3>1, PhaseOf DEF Fails
    <3>3. QED  BY <1>0, <1>8, <3>1, <3>2 DEF Fails, Cache!Close
  <2>3. CASE temp[c] # Absent /\ at[c] \in {"rename", "launch"}
    <3>1. Phase(c) \in {"closed", "replaced"} /\ Phase(c)' = "failed"
      BY <1>0, <1>8, <2>3 DEF Fails, Phase
    <3>2. CachePhase' = [CachePhase EXCEPT ![c] = "failed"]
      BY <1>8, <2>3, <3>1, PhaseOf DEF Fails
    <3>3. QED  BY <1>0, <1>8, <3>1, <3>2 DEF Fails, Cache!Report
  <2>4. QED  BY <1>0, <1>8, <2>1, <2>2, <2>3 DEF Fails
<1>9. QED  BY <1>2, <1>3, <1>4, <1>5, <1>6, <1>7, <1>8 DEF DownloadAndLaunch

\* To whoever starts it, the installer in the cache changes only from one whole
\* content to another, whoever downloads at the time.
THEOREM DownloadsReplaceTheInstaller == Spec => ReplacesInstaller
<1>1. Init => Cache!Init
  BY DEF Init, Cache!Init, CachePhase, Phase
<1>2. ASSUME IInv, [Next]_vars PROVE [Cache!Next]_(Cache!vars)
  <2>1. CASE UNCHANGED vars \/ Check \/ Changes
    BY <2>1 DEF vars, locals, Check, Changes, Cache!vars, CachePhase, Phase
  <2>2. CASE \E c \in Calls : DownloadAndLaunch(c)  BY <1>2, <2>2, CallImplements
  <2>3. QED  BY <1>2, <2>1, <2>2 DEF Next
<1>3. QED  BY <1>1, <1>2, Invariance, PTL DEF Spec, ReplacesInstaller, Cache!Spec

-----------------------------------------------------------------------------
\* compareVersions orders all versions: none precedes itself, of two different
\* ones one precedes, and updates lead to newer and newer versions, never back.
THEOREM VersionsAreOrdered ==
  ASSUME NEW a, NEW b, NEW c, Triple(a), Triple(b), Triple(c)
  PROVE  /\ ~Precedes(a, a)
         /\ a = b \/ Precedes(a, b) \/ Precedes(b, a)
         /\ Precedes(a, b) /\ Precedes(b, c) => Precedes(a, c)
<1>1. PICK a1 \in Nat, a2 \in Nat, a3 \in Nat : a = <<a1, a2, a3>>  BY DEF Triple
<1>2. PICK b1 \in Nat, b2 \in Nat, b3 \in Nat : b = <<b1, b2, b3>>  BY DEF Triple
<1>3. PICK c1 \in Nat, c2 \in Nat, c3 \in Nat : c = <<c1, c2, c3>>  BY DEF Triple
\* Precedes, written out.
<1> DEFINE Before(x1, x2, x3, y1, y2, y3) ==
      x1 < y1 \/ (x1 = y1 /\ x2 < y2) \/ (x1 = y1 /\ x2 = y2 /\ x3 < y3)
<1>4. ASSUME NEW x1 \in Nat, NEW x2 \in Nat, NEW x3 \in Nat,
             NEW y1 \in Nat, NEW y2 \in Nat, NEW y3 \in Nat
      PROVE  Precedes(<<x1, x2, x3>>, <<y1, y2, y3>>) <=> Before(x1, x2, x3, y1, y2, y3)
  <2>1. 1 .. 3 = {1, 2, 3}  OBVIOUS
  <2>2. 1 .. 1 - 1 = {} /\ 1 .. 2 - 1 = {1} /\ 1 .. 3 - 1 = {1, 2}  OBVIOUS
  <2>3. QED  BY <2>1, <2>2 DEF Precedes
<1>5. QED  BY <1>1, <1>2, <1>3, <1>4
=============================================================================
