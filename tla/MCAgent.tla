------------------------------ MODULE MCAgent ------------------------------
(* Instances of Agent for TLC. *)
EXTENDS Agent, TLC

CONSTANTS u1, u2

Login(u, r, p) == [op |-> "login", user |-> u, remember |-> r, pass |-> p]
Op(o) == [op |-> o]

MCLogout == {Op("logout")}
MCOneAccount ==
  {Login(u1, TRUE, TRUE), Login(None, FALSE, FALSE), Op("logout"), Op("restart")}
MCRequests ==
  {Login(u1, TRUE, TRUE), Login(u1, TRUE, FALSE), Login(u2, FALSE, TRUE),
   Login(None, FALSE, FALSE), Op("logout"), Op("restart")}
\* IPC handlers are alike.
MCSymmetry == Permutations(Cmds)

\* Two states that differ in the manager's history only behave alike: the
\* generation matters to the bound and to the login under way.
Tok(c) == IF c = None THEN None ELSE c.tok
MCView ==
  <<Tok(cached), IF generation < MaxGeneration THEN generation ELSE MaxGeneration,
    gate # None /\ pc[gate] \in {"provider", "publish"} /\ seen[gate] = generation,
    gate, pc, left, [g \in Callers |-> Tok(cred[g])], res, agentVars>>

\* With one account, no guard reads what the stores hold, the state shown, what
\* the login was told or which token it is.
MCLiveView ==
  <<cached # None, IF generation < MaxGeneration THEN generation ELSE MaxGeneration,
    gate # None /\ pc[gate] \in {"provider", "publish"} /\ seen[gate] = generation,
    gate, pc, left, res, user, remember, password, commandMu, authOp, locals, counts>>
=============================================================================
