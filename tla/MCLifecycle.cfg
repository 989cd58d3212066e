\* Two clients and three processes, on Windows.
CONSTANTS
  a1 = a1
  a2 = a2
  a3 = a3
  k1 = k1
  k2 = k2
  Agents = {a1, a2, a3}
  Clients = {k1, k2}
  None = None
  Recovers = TRUE
SPECIFICATION FairSpec
INVARIANTS EndpointIsTheHolders OnlyAgentsAreEnded NoOthersRecord
PROPERTIES EveryCallEnds
