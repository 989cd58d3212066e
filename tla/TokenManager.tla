---------------------------- MODULE TokenManager ----------------------------
(***************************************************************************)
(* auth.Manager (internal/auth/token.go): the one cache of SEU credentials *)
(* that SSH sessions, SFTP transfers, IPC commands and the recovery        *)
(* goroutine share.  A caller is a goroutine inside Get, Connect or        *)
(* finder.Client.request; mu makes each critical section one step, and     *)
(* everything between two critical sections interleaves.                   *)
(*                                                                         *)
(* `born', `asked', `refused' and `loggedIn' are history: the generation   *)
(* that a credential was acquired for, the generation when the current     *)
(* GetCredentials began, the newest credential this call saw refused, and  *)
(* the generations that had a successful login.  No guard reads them.      *)
(***************************************************************************)
EXTENDS Integers

CONSTANTS Callers,        \* goroutines that may use the manager
          Tokens,         \* the bearer tokens SEU hands out; a login may
                          \* capture the one an earlier login captured
          Limits,         \* attempts of an operation: 0 is a bare Get,
                          \* 2 finder's request, 3 Manager.Connect
          None,           \* Credentials{}, and the free gate
          MaxGeneration   \* bound: no Invalidate and no refusal beyond it

ASSUME LimitsAssumption == Limits \subseteq Nat
ASSUME BoundAssumption == MaxGeneration \in Nat
ASSUME NoneAssumption == None \notin Callers /\ None \notin [tok : Tokens, born : Nat]

VARIABLES cached, generation, gate,              \* fields of Manager
          pc, left, seen, cred, res,             \* locals of each caller
          asked, refused, loggedIn               \* history

mvars == <<cached, generation, gate>>
cvars == <<pc, left, seen, cred, res>>
hvars == <<asked, refused, loggedIn>>
vars == <<mvars, cvars, hvars>>

Creds == [tok : Tokens, born : Nat]
PCs == {"idle", "check", "gate", "recheck", "provider", "publish",
        "release", "use", "reject", "done"}
Results == {"none", "token", "accepted", "unauthorized", "changed",
            "cancelled", "failed"}

TypeOK ==
  /\ cached \in Creds \cup {None}
  /\ generation \in Nat
  /\ gate \in Callers \cup {None}
  /\ pc \in [Callers -> PCs]
  /\ left \in [Callers -> Nat]
  /\ seen \in [Callers -> Nat]
  /\ cred \in [Callers -> Creds \cup {None}]
  /\ res \in [Callers -> Results]
  /\ asked \in [Callers -> Nat]
  /\ refused \in [Callers -> Nat \cup {-1}]
  /\ loggedIn \subseteq Nat

Init ==
  /\ cached = None /\ generation = 0 /\ gate = None
  /\ pc = [g \in Callers |-> "idle"]
  /\ left = [g \in Callers |-> 0]
  /\ seen = [g \in Callers |-> 0]
  /\ cred = [g \in Callers |-> None]
  /\ res = [g \in Callers |-> "none"]
  /\ asked = [g \in Callers |-> 0]
  /\ refused = [g \in Callers |-> -1]
  /\ loggedIn = {}

Goto(g, l) == pc' = [pc EXCEPT ![g] = l]

\* The operation returns r; cred keeps what it returned until Return.
Finish(g, r) == Goto(g, "done") /\ res' = [res EXCEPT ![g] = r]

\* GetCredentials returned a credential: a bare Get is over, Connect and
\* request present the token to the server.
Deliver(g) ==
  IF left[g] = 0 THEN Finish(g, "token")
                 ELSE Goto(g, "use") /\ res' = [res EXCEPT ![g] = "none"]

-----------------------------------------------------------------------------
(* GetCredentials *)

Begin(g, n) ==
  /\ pc[g] = "idle"
  /\ Goto(g, "check")
  /\ left' = [left EXCEPT ![g] = n]
  /\ asked' = [asked EXCEPT ![g] = generation]
  /\ UNCHANGED <<mvars, seen, cred, res, refused, loggedIn>>

Check(g) ==
  /\ pc[g] = "check"
  /\ IF cached # None
       THEN cred' = [cred EXCEPT ![g] = cached] /\ Deliver(g)
       ELSE Goto(g, "gate") /\ UNCHANGED <<cred, res>>
  /\ UNCHANGED <<mvars, left, seen, hvars>>

GateFree == gate = None

TakeGate(g) ==
  /\ pc[g] = "gate" /\ GateFree
  /\ gate' = g
  /\ Goto(g, "recheck")
  /\ UNCHANGED <<cached, generation, left, seen, cred, res, hvars>>

GiveUpGate(g) ==
  /\ pc[g] = "gate"
  /\ Finish(g, "cancelled")
  /\ UNCHANGED <<mvars, left, seen, cred, hvars>>

\* Wrong: the cache is not read again.
NeverUsable == FALSE

\* Under the gate the cache is read again: another caller may have filled it.
Usable == cached # None

Recheck(g) ==
  /\ pc[g] = "recheck"
  /\ seen' = [seen EXCEPT ![g] = generation]
  /\ IF Usable
       THEN /\ cred' = [cred EXCEPT ![g] = cached]
            /\ res' = [res EXCEPT ![g] = "token"]
            /\ Goto(g, "release")
       ELSE Goto(g, "provider") /\ UNCHANGED <<cred, res>>
  /\ UNCHANGED <<mvars, left, hvars>>

\* The provider (Agent.acquire, a browser login) runs without mu.
ProviderReturns(g, t) ==
  /\ pc[g] = "provider"
  /\ cred' = [cred EXCEPT ![g] = [tok |-> t, born |-> seen[g]]]
  /\ loggedIn' = loggedIn \cup {seen[g]}
  /\ Goto(g, "publish")
  /\ UNCHANGED <<mvars, left, seen, res, asked, refused>>

\* It fails, or returns an empty token, which counts as a failure.
ProviderFails(g) ==
  /\ pc[g] = "provider"
  /\ res' = [res EXCEPT ![g] = "failed"]
  /\ Goto(g, "release")
  /\ UNCHANGED <<mvars, left, seen, cred, hvars>>

GenerationIgnored(g) == TRUE      \* wrong: the login is always published
SameGeneration(g) == seen[g] = generation

Publish(g) ==
  /\ pc[g] = "publish"
  /\ Goto(g, "release")
  /\ IF SameGeneration(g)
       THEN /\ cached' = cred[g]
            /\ res' = [res EXCEPT ![g] = "token"]
            /\ UNCHANGED cred
       ELSE /\ res' = [res EXCEPT ![g] = "changed"]
            /\ cred' = [cred EXCEPT ![g] = None]
            /\ UNCHANGED cached
  /\ UNCHANGED <<generation, gate, left, seen, hvars>>

\* Wrong: the gate is not freed when the provider failed.
FreeGateUnlessFailed(g) == gate' = IF res[g] = "failed" THEN gate ELSE None

\* The deferred receive from gate runs after the deferred mu.Unlock, on
\* every way out.
FreeGate(g) == gate' = None

Release(g) ==
  /\ pc[g] = "release"
  /\ FreeGate(g)
  /\ seen' = [seen EXCEPT ![g] = 0]
  /\ IF res[g] = "token" THEN Deliver(g) ELSE Goto(g, "done") /\ UNCHANGED res
  /\ UNCHANGED <<cached, generation, left, cred, hvars>>

-----------------------------------------------------------------------------
(* Connect and finder's request: present the token, retry when refused *)

UseEnds(g) ==
  /\ pc[g] = "use"
  /\ \E r \in {"accepted", "failed"} : Finish(g, r)
  /\ UNCHANGED <<mvars, left, seen, cred, hvars>>

UseRefused(g) ==
  /\ pc[g] = "use" /\ generation < MaxGeneration
  /\ Goto(g, "reject")
  /\ refused' = [refused EXCEPT ![g] = cred[g].born]
  /\ UNCHANGED <<mvars, left, seen, cred, res, asked, loggedIn>>

Invalidated == cached' = None /\ generation' = generation + 1

MatchesAny(c) == cached # None     \* wrong: a refusal drops what is cached
MatchesNone(c) == FALSE            \* wrong: a refusal drops nothing
Matches(c) == cached # None /\ cached.tok = c.tok

InvalidateToken(g) ==
  IF Matches(cred[g]) THEN Invalidated ELSE UNCHANGED <<cached, generation>>

Reject(g) ==
  /\ pc[g] = "reject"
  /\ InvalidateToken(g)
  /\ left' = [left EXCEPT ![g] = @ - 1]
  /\ cred' = [cred EXCEPT ![g] = None]
  /\ IF left[g] = 1
       THEN Finish(g, "unauthorized") /\ UNCHANGED asked
       ELSE Goto(g, "check") /\ asked' = [asked EXCEPT ![g] = generation'] /\ UNCHANGED res
  /\ UNCHANGED <<gate, seen, refused, loggedIn>>

\* The goroutine goes on with the result; its next operation starts afresh.
Return(g) ==
  /\ pc[g] = "done"
  /\ Goto(g, "idle")
  /\ left' = [left EXCEPT ![g] = 0]
  /\ cred' = [cred EXCEPT ![g] = None]
  /\ res' = [res EXCEPT ![g] = "none"]
  /\ asked' = [asked EXCEPT ![g] = 0]
  /\ refused' = [refused EXCEPT ![g] = -1]
  /\ UNCHANGED <<mvars, seen, loggedIn>>

\* Somebody drops the credential, whoever is in a login meanwhile.
Invalidate == Invalidated /\ UNCHANGED <<gate, cvars, hvars>>

-----------------------------------------------------------------------------
Provider(g) == (\E t \in Tokens : ProviderReturns(g, t)) \/ ProviderFails(g)

Step(g) ==
  \/ Check(g) \/ TakeGate(g) \/ Recheck(g) \/ Provider(g) \/ Publish(g)
  \/ Release(g) \/ UseEnds(g) \/ Reject(g) \/ Return(g)

Next ==
  \/ \E g \in Callers : Step(g) \/ GiveUpGate(g) \/ UseRefused(g)
  \/ \E g \in Callers, n \in Limits : Begin(g, n)
  \/ generation < MaxGeneration /\ Invalidate

Spec == Init /\ [][Next]_vars

\* Every step of a caller that does not wait is taken; blocked senders of a
\* Go channel queue, so a caller at the gate gets it if it is freed again and
\* again.  Nobody has to begin, to cancel, to refuse or to invalidate.
Fairness == \A g \in Callers : WF_vars(Step(g)) /\ SF_vars(TakeGate(g))
FairSpec == Spec /\ Fairness
-----------------------------------------------------------------------------
(* Properties *)

\* Source comment of Manager: "an invalidation racing a login cannot restore
\* stale credentials".  A cached credential always belongs to the current
\* generation: the login that obtained it began after the last invalidation.
NoStaleCache == cached # None => cached.born = generation

\* No answer is older than the question: once credentials are dropped, a
\* GetCredentials that begins afterwards never returns them, however long
\* it waits at the gate or in the provider.
Answered(g) == pc[g] \in {"release", "use", "reject", "done"} /\ cred[g] # None
FreshAnswers == \A g \in Callers : Answered(g) => cred[g].born >= asked[g]

\* "Manager coalesces concurrent refreshes": no login runs for a generation
\* that already had a successful one, whoever waited at the gate meanwhile.
Coalesced == \A g \in Callers : pc[g] = "provider" => seen[g] \notin loggedIn

\* Connect and finder's request never present the refused credential again:
\* what a retry carries was obtained after everything this call saw refused,
\* even when another caller refreshed or refused the same token meanwhile.
RetriesPresentNewer == \A g \in Callers : pc[g] = "use" => cred[g].born > refused[g]

\* One login at a time: the browser's profile directory has one user.
OneLoginAtATime == \A g, h \in Callers : pc[g] = "provider" /\ pc[h] = "provider" => g = h

\* Whatever is invalidated, refused or cancelled, every operation returns.
EveryCallReturns == \A g \in Callers : pc[g] = "check" ~> pc[g] = "done"

\* The manager implements the abstract cache: a lookup takes effect when the
\* cache is read, or when a login is published.
Asking(g) == pc[g] \in {"check", "gate", "recheck", "provider", "publish"} \/ cred[g] # None
CacheAsk == [g \in Callers |-> IF Asking(g) THEN asked[g] ELSE -1]
CacheAnswer == [g \in Callers |-> IF pc[g] = "publish" THEN None ELSE cred[g]]
Cache == INSTANCE CredentialCache WITH
           epoch <- generation, cur <- cached, ask <- CacheAsk, answer <- CacheAnswer
ImplementsCache == Cache!Spec
=============================================================================
