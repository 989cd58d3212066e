\* Two clients and the stop of the agent.
CONSTANTS
  k1 = k1
  k2 = k2
  k3 = k3
  Conns = {k1, k2}
  None = None
  MaxConns = 2
  MaxSessions = 1
CHECK_DEADLOCK FALSE
SPECIFICATION FairSpec
PROPERTIES StopEnds
