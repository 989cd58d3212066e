------------------------- MODULE TokenManagerProofs -------------------------
(***************************************************************************)
(* The safety properties of auth.Manager for every set of callers, tokens  *)
(* and attempts, and that it implements CredentialCache.                   *)
(***************************************************************************)
EXTENDS TokenManager, TLAPS

Gated == {"recheck", "provider", "publish", "release"}

\* The gate belongs to the one caller between its send and its receive.
GateInv == \A g \in Callers : pc[g] \in Gated <=> gate = g

\* Where a caller holds a credential, or none, and may still present it.
CredInv == \A g \in Callers :
  /\ pc[g] \in {"use", "reject"} => left[g] > 0
  /\ pc[g] \in {"idle", "check", "gate", "recheck", "provider"} => cred[g] = None
  /\ pc[g] \in {"publish", "use", "reject"} => cred[g] \in Creds
  /\ pc[g] = "release" => (res[g] = "token" <=> cred[g] \in Creds)

\* The order of the generations a caller has met.
TimeInv == \A g \in Callers :
  /\ asked[g] <= generation
  /\ pc[g] \in {"provider", "publish"} => asked[g] <= seen[g] /\ seen[g] <= generation
  /\ pc[g] = "publish" => cred[g].born = seen[g]
  /\ Answered(g) => asked[g] <= cred[g].born /\ cred[g].born <= generation

\* A credential of the current generation is the cached one.
FillInv == \A g \in Callers :
  /\ Answered(g) /\ cred[g].born = generation => cached = cred[g]
  /\ pc[g] \in {"provider", "publish"} /\ seen[g] = generation => cached = None

\* A generation that had its login has the credential cached, or about to be.
LoginInv ==
  /\ \A n \in loggedIn : n <= generation
  /\ generation \in loggedIn /\ cached = None =>
       \E g \in Callers : pc[g] = "publish" /\ seen[g] = generation

\* What a call saw refused is older than the question it asks next.
RefusalInv == \A g \in Callers :
  /\ pc[g] \notin {"reject", "done"} => refused[g] < asked[g]
  /\ pc[g] = "reject" => refused[g] = cred[g].born

IInv == /\ TypeOK /\ NoStaleCache /\ Coalesced
        /\ GateInv /\ CredInv /\ TimeInv /\ FillInv /\ LoginInv /\ RefusalInv

LEMMA InitIInv == Init => IInv
  BY LimitsAssumption, BoundAssumption, NoneAssumption
  DEF Init, IInv, TypeOK, NoStaleCache, Coalesced, GateInv, CredInv, TimeInv, FillInv,
      LoginInv, RefusalInv, Gated, Answered, PCs, Results, Creds

\* Once a refusal is dealt with, its credential is of an earlier generation.
LEMMA RejectedIsOlder ==
  ASSUME IInv, NEW g \in Callers, Reject(g) PROVE cred[g].born < generation'
<1>1. cred[g] \in Creds /\ cred[g] # None /\ generation \in Nat
  BY NoneAssumption DEF IInv, TypeOK, CredInv, Reject, Creds
<1>2. cred[g].born <= generation
  BY <1>1 DEF IInv, TimeInv, Answered, Reject
<1>3. CASE Matches(cred[g])
  BY <1>1, <1>2, <1>3 DEF Reject, InvalidateToken, Invalidated, Creds
<1>4. CASE ~Matches(cred[g])
  <2>1. cached # cred[g]
    BY <1>1, <1>4 DEF Matches
  <2>2. cred[g].born # generation
    BY <1>1, <2>1 DEF IInv, FillInv, Answered, Reject
  <2>3. generation' = generation
    BY <1>4 DEF Reject, InvalidateToken
  <2> QED
    BY <1>1, <1>2, <2>2, <2>3 DEF Creds
<1> QED
  BY <1>3, <1>4

\* Dropping the credential, however often it has been dropped before.
LEMMA InvalidateIInv == ASSUME IInv, Invalidate PROVE IInv'
  BY LimitsAssumption, NoneAssumption
  DEF Invalidate, Invalidated, IInv, TypeOK, NoStaleCache, Coalesced, GateInv, CredInv,
      TimeInv, FillInv, LoginInv, RefusalInv, Gated, Answered, PCs, Results, Creds,
      cvars, hvars

LEMMA StepIInv == IInv /\ [Next]_vars => IInv'
<1> SUFFICES ASSUME IInv, [Next]_vars PROVE IInv'
  OBVIOUS
<1> USE LimitsAssumption, BoundAssumption, NoneAssumption
    DEF IInv, TypeOK, NoStaleCache, Coalesced, GateInv, CredInv, TimeInv, FillInv,
        LoginInv, RefusalInv, Gated, Answered, PCs, Results, Creds, mvars, cvars, hvars,
        Goto, Finish, Deliver
<1>1. ASSUME NEW g \in Callers, NEW n \in Limits, Begin(g, n) PROVE IInv'
  BY <1>1 DEF Begin
<1>2. ASSUME NEW g \in Callers, Check(g) PROVE IInv'
  BY <1>2 DEF Check
<1>3. ASSUME NEW g \in Callers, TakeGate(g) PROVE IInv'
  BY <1>3 DEF TakeGate, GateFree
<1>4. ASSUME NEW g \in Callers, GiveUpGate(g) PROVE IInv'
  BY <1>4 DEF GiveUpGate
<1>5. ASSUME NEW g \in Callers, Recheck(g) PROVE IInv'
  BY <1>5 DEF Recheck, Usable
<1>6. ASSUME NEW g \in Callers, NEW t \in Tokens, ProviderReturns(g, t) PROVE IInv'
  <2>1. TypeOK'
    <3>1. [tok |-> t, born |-> seen[g]] \in Creds
      OBVIOUS
    <3> QED
      BY <1>6, <3>1 DEF ProviderReturns
  <2>2. LoginInv'
    BY <1>6 DEF ProviderReturns
  <2>3. NoStaleCache' /\ GateInv' /\ Coalesced'
    BY <1>6 DEF ProviderReturns
  <2>4. CredInv' /\ TimeInv' /\ FillInv' /\ RefusalInv'
    BY <1>6 DEF ProviderReturns
  <2> QED
    BY <2>1, <2>2, <2>3, <2>4
<1>7. ASSUME NEW g \in Callers, ProviderFails(g) PROVE IInv'
  BY <1>7 DEF ProviderFails
<1>8. ASSUME NEW g \in Callers, Publish(g) PROVE IInv'
  BY <1>8 DEF Publish, SameGeneration
<1>9. ASSUME NEW g \in Callers, Release(g) PROVE IInv'
  BY <1>9 DEF Release, FreeGate
<1>10. ASSUME NEW g \in Callers, UseEnds(g) PROVE IInv'
  BY <1>10 DEF UseEnds
<1>11. ASSUME NEW g \in Callers, UseRefused(g) PROVE IInv'
  BY <1>11 DEF UseRefused
<1>12. ASSUME NEW g \in Callers, Reject(g) PROVE IInv'
  <2>1. cred[g] \in Creds /\ cred[g] # None /\ cred[g].born <= generation
    BY <1>12 DEF Reject
  <2>2. cred[g].born < generation'
    BY <1>12, RejectedIsOlder
  <2>3. RefusalInv'
    BY <1>12, <2>1, <2>2 DEF Reject, InvalidateToken, Matches, Invalidated
  <2>4. TypeOK' /\ NoStaleCache' /\ GateInv' /\ CredInv'
    BY <1>12, <2>1 DEF Reject, InvalidateToken, Matches, Invalidated
  <2>5. TimeInv' /\ FillInv' /\ LoginInv' /\ Coalesced'
    BY <1>12, <2>1 DEF Reject, InvalidateToken, Matches, Invalidated
  <2> QED
    BY <2>3, <2>4, <2>5
<1>13. ASSUME NEW g \in Callers, Return(g) PROVE IInv'
  BY <1>13 DEF Return
<1>14. CASE Invalidate
  BY <1>14, InvalidateIInv
<1>15. CASE UNCHANGED vars
  BY <1>15 DEF vars
<1> QED
  BY <1>1, <1>2, <1>3, <1>4, <1>5, <1>6, <1>7, <1>8, <1>9, <1>10, <1>11, <1>12, <1>13, <1>14, <1>15
  DEF Next, Step, Provider

THEOREM Invariance == Spec => []IInv
  BY InitIInv, StepIInv, PTL DEF Spec

\* Type correctness: every variable keeps its type.
THEOREM TypeCorrect == Spec => []TypeOK
  BY Invariance, PTL DEF IInv

\* The cache never holds a credential of an earlier generation: an
\* invalidation that races a login is never undone by its result.
THEOREM NoStale == Spec => []NoStaleCache
  BY Invariance, PTL DEF IInv

\* At most one successful login per invalidation.
THEOREM Coalescing == Spec => []Coalesced
  BY Invariance, PTL DEF IInv

\* Credentials dropped before a call began are never its answer.
THEOREM Freshness == Spec => []FreshAnswers
<1>1. IInv => FreshAnswers
  BY DEF IInv, TimeInv, FreshAnswers
<1> QED
  BY <1>1, Invariance, PTL

\* A retry never presents a credential this call saw refused.
THEOREM Retries == Spec => []RetriesPresentNewer
<1>1. IInv => RetriesPresentNewer
  BY NoneAssumption
  DEF IInv, TypeOK, TimeInv, RefusalInv, CredInv, RetriesPresentNewer, Answered, Creds
<1> QED
  BY <1>1, Invariance, PTL

\* Two callers never drive a browser login at the same time.
THEOREM MutualExclusion == Spec => []OneLoginAtATime
<1>1. IInv => OneLoginAtATime
  BY DEF IInv, GateInv, Gated, OneLoginAtATime
<1> QED
  BY <1>1, Invariance, PTL

-----------------------------------------------------------------------------
(* Refinement *)

LEMMA InitRefines == Init => Cache!Init
  BY DEF Init, Cache!Init, CacheAsk, CacheAnswer, Asking

LEMMA InvalidateRefines == ASSUME IInv, Invalidate PROVE Cache!Next
  BY DEF Invalidate, Invalidated, cvars, hvars, CacheAsk, CacheAnswer, Asking,
         Cache!Next, Cache!Drop, Cache!Dropped

\* Every step of the manager is one of the cache, or changes nothing it shows.
LEMMA StepRefines == IInv /\ [Next]_vars => [Cache!Next]_Cache!vars
<1> SUFFICES ASSUME IInv, [Next]_vars PROVE Cache!Next \/ UNCHANGED Cache!vars
  OBVIOUS
<1> USE LimitsAssumption, NoneAssumption
    DEF IInv, TypeOK, CredInv, Creds, mvars, cvars, hvars, Goto, Finish, Deliver,
        Cache!vars, CacheAsk, CacheAnswer, Asking, PCs, Results
<1>1. ASSUME NEW g \in Callers, NEW n \in Limits, Begin(g, n) PROVE Cache!Ask(g)
  BY <1>1 DEF Begin, Cache!Ask
<1>2. ASSUME NEW g \in Callers, Check(g) PROVE Cache!Answer(g) \/ UNCHANGED Cache!vars
  <2>1. CASE cached = None
    BY <1>2, <2>1 DEF Check
  <2>2. CASE cached # None
    <3>1. CacheAsk[g] # -1 /\ CacheAnswer[g] = None
      BY <1>2, <2>2 DEF Check
    <3>2. CacheAsk' = CacheAsk
      BY <1>2, <2>2 DEF Check
    <3>3. CacheAnswer' = [CacheAnswer EXCEPT ![g] = cached']
      BY <1>2, <2>2 DEF Check
    <3> QED
      BY <1>2, <2>2, <3>1, <3>2, <3>3 DEF Check, Cache!Answer, Cache!Obtain
  <2> QED
    BY <2>1, <2>2
<1>3. ASSUME NEW g \in Callers, TakeGate(g) PROVE UNCHANGED Cache!vars
  BY <1>3 DEF TakeGate, GateFree
<1>4. ASSUME NEW g \in Callers, GiveUpGate(g) PROVE Cache!Withdraw(g)
  <2>1. CacheAsk[g] # -1
    BY <1>4 DEF GiveUpGate
  <2>2. CacheAsk' = [CacheAsk EXCEPT ![g] = -1]
    BY <1>4 DEF GiveUpGate
  <2>3. CacheAnswer' = [CacheAnswer EXCEPT ![g] = None]
    BY <1>4 DEF GiveUpGate
  <2> QED
    BY <1>4, <2>1, <2>2, <2>3 DEF GiveUpGate, Cache!Withdraw
<1>5. ASSUME NEW g \in Callers, Recheck(g) PROVE Cache!Answer(g) \/ UNCHANGED Cache!vars
  <2>1. CASE ~Usable
    BY <1>5, <2>1 DEF Recheck
  <2>2. CASE Usable
    <3>1. CacheAsk[g] # -1 /\ CacheAnswer[g] = None
      BY <1>5, <2>2 DEF Recheck, Usable
    <3>2. CacheAsk' = CacheAsk
      BY <1>5, <2>2 DEF Recheck, Usable
    <3>3. CacheAnswer' = [CacheAnswer EXCEPT ![g] = cached']
      BY <1>5, <2>2 DEF Recheck, Usable
    <3> QED
      BY <1>5, <2>2, <3>1, <3>2, <3>3 DEF Recheck, Usable, Cache!Answer, Cache!Obtain
  <2> QED
    BY <2>1, <2>2
<1>6. ASSUME NEW g \in Callers, NEW t \in Tokens, ProviderReturns(g, t) PROVE UNCHANGED Cache!vars
  BY <1>6 DEF ProviderReturns
<1>7. ASSUME NEW g \in Callers, ProviderFails(g) PROVE Cache!Withdraw(g)
  <2>1. CacheAsk[g] # -1
    BY <1>7 DEF ProviderFails
  <2>2. CacheAsk' = [CacheAsk EXCEPT ![g] = -1]
    BY <1>7 DEF ProviderFails
  <2>3. CacheAnswer' = [CacheAnswer EXCEPT ![g] = None]
    BY <1>7 DEF ProviderFails
  <2> QED
    BY <1>7, <2>1, <2>2, <2>3 DEF ProviderFails, Cache!Withdraw
<1>8. ASSUME NEW g \in Callers, Publish(g) PROVE Cache!Answer(g) \/ Cache!Withdraw(g)
  <2>1. CASE SameGeneration(g)
    <3>1. cached = None /\ cred[g] \in {[tok |-> t, born |-> generation] : t \in Tokens}
      BY <1>8, <2>1 DEF Publish, SameGeneration, TimeInv, FillInv
    <3>2. CacheAsk[g] # -1 /\ CacheAnswer[g] = None
      BY <1>8 DEF Publish
    <3>3. CacheAsk' = CacheAsk
      BY <1>8, <2>1, <3>1 DEF Publish
    <3>4. CacheAnswer' = [CacheAnswer EXCEPT ![g] = cached']
      BY <1>8, <2>1 DEF Publish
    <3> QED
      BY <1>8, <2>1, <3>1, <3>2, <3>3, <3>4 DEF Publish, Cache!Answer, Cache!Obtain
  <2>2. CASE ~SameGeneration(g)
    <3>1. CacheAsk[g] # -1
      BY <1>8, <2>2 DEF Publish
    <3>2. CacheAsk' = [CacheAsk EXCEPT ![g] = -1]
      BY <1>8, <2>2 DEF Publish
    <3>3. CacheAnswer' = [CacheAnswer EXCEPT ![g] = None]
      BY <1>8, <2>2 DEF Publish
    <3> QED
      BY <1>8, <2>2, <3>1, <3>2, <3>3 DEF Publish, Cache!Withdraw
  <2> QED
    BY <2>1, <2>2
<1>9. ASSUME NEW g \in Callers, Release(g) PROVE UNCHANGED Cache!vars
  BY <1>9 DEF Release, FreeGate
<1>10. ASSUME NEW g \in Callers, UseEnds(g) PROVE UNCHANGED Cache!vars
  BY <1>10 DEF UseEnds
<1>11. ASSUME NEW g \in Callers, UseRefused(g) PROVE UNCHANGED Cache!vars
  BY <1>11 DEF UseRefused
<1>12. ASSUME NEW g \in Callers, Reject(g) PROVE Cache!Refuse(g)
  <2>1. CacheAnswer[g] = cred[g] /\ cred[g] # None
    BY <1>12 DEF Reject
  <2>2. CacheAnswer' = [CacheAnswer EXCEPT ![g] = None]
    BY <1>12 DEF Reject
  <2>3. CacheAsk' \in {[CacheAsk EXCEPT ![g] = e] : e \in {-1, generation'}}
    <3>1. CASE left[g] = 1
      BY <1>12, <3>1 DEF Reject
    <3>2. CASE left[g] # 1
      <4>1. CacheAsk' = [CacheAsk EXCEPT ![g] = generation']
        BY <1>12, <3>2 DEF Reject
      <4> QED
        BY <4>1
    <3> QED
      BY <3>1, <3>2
  <2> QED
    BY <1>12, <2>1, <2>2, <2>3
    DEF Reject, InvalidateToken, Matches, Invalidated, Cache!Refuse, Cache!Dropped
<1>13. ASSUME NEW g \in Callers, Return(g) PROVE Cache!Withdraw(g) \/ UNCHANGED Cache!vars
  <2>1. CASE cred[g] = None
    BY <1>13, <2>1 DEF Return
  <2>2. CASE cred[g] # None
    <3>1. CacheAsk[g] # -1
      BY <1>13, <2>2 DEF Return
    <3>2. CacheAsk' = [CacheAsk EXCEPT ![g] = -1]
      BY <1>13, <2>2 DEF Return
    <3>3. CacheAnswer' = [CacheAnswer EXCEPT ![g] = None]
      BY <1>13, <2>2 DEF Return
    <3> QED
      BY <1>13, <2>2, <3>1, <3>2, <3>3 DEF Return, Cache!Withdraw
  <2> QED
    BY <2>1, <2>2
<1>14. CASE Invalidate
  BY <1>14, InvalidateRefines
<1>15. CASE UNCHANGED vars
  BY <1>15 DEF vars
<1> QED
  BY <1>1, <1>2, <1>3, <1>4, <1>5, <1>6, <1>7, <1>8, <1>9, <1>10, <1>11, <1>12, <1>13, <1>14, <1>15
  DEF Next, Step, Provider, Cache!Next

\* The manager implements the abstract cache.
THEOREM Refinement == Spec => ImplementsCache
  BY InitRefines, StepRefines, Invariance, PTL DEF Spec, Cache!Spec, ImplementsCache
=============================================================================
