---------------------------- MODULE MCAgentConfig ----------------------------
(* An instance of AgentConfig for TLC. *)
EXTENDS AgentConfig, TLC

CONSTANTS c1, c2, u1, u2, seu, other, n1, n2

Login(u, r, p) == [op |-> "login", user |-> u, remember |-> r, pass |-> p]
Node(n, i) == [op |-> "set-default-node", node |-> n, id |-> i]

MCJobs ==
  {Login(u1, TRUE, TRUE), Login(u2, FALSE, FALSE), [op |-> "logout"],
   Node(n2, TRUE), Node(BadName, TRUE), Node(n2, FALSE),
   [op |-> "settings", auto |-> FALSE]}
\* n2 is not known yet, and autostart is on.
MCInit == Init /\ mem.node = n1 /\ mem.auto
MCSpec == MCInit /\ [][Next]_vars

\* Handlers differ in nothing but their names.
MCSymmetry == Permutations({c1, c2})
=============================================================================
