\* Three clients, of which two may be served, each with at most two sessions.
CONSTANTS
  k1 = k1
  k2 = k2
  k3 = k3
  Conns = {k1, k2, k3}
  None = None
  MaxConns = 2
  MaxSessions = 2
\* The agent has stopped.
CHECK_DEADLOCK FALSE
SPECIFICATION FairSpec
INVARIANTS HandledIsListed
PROPERTIES ClosedEnds
