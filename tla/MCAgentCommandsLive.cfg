\* Two commands of four kinds and the recovery goroutine, under fairness; as
\* many refusals as leave one after both commands' invalidations.
CONSTANTS
  u1 = u1
  u2 = u2
  Users = {u1}
  None = None
  Recovery = R
  Cmds = {c1, c2}
  Conns = {}
  Requests <- MCOneAccount
  MaxCommands = 2
  ConnectLimit = 2
  Tries = 2
  MaxGeneration = 5
  MaxSpawned = 1
VIEW MCLiveView
\* With no client and no command left, an agent that restored or gave up the
\* connection is at rest.
CHECK_DEADLOCK FALSE
SPECIFICATION FairSpec
PROPERTIES EveryCommandReplies
