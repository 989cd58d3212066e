\* One client after the other beside the recovery goroutine and a logout, with
\* two attempts in each of two tries, under fairness.
CONSTANTS
  u1 = u1
  u2 = u2
  Users = {u1}
  None = None
  Recovery = R
  Cmds = {c1}
  Conns = {k1}
  Requests <- MCLogout
  MaxCommands = 1
  ConnectLimit = 2
  Tries = 2
  MaxGeneration = 2
  MaxSpawned = 1
VIEW MCLiveView
\* With no client and no command left, an agent that restored or gave up the
\* connection is at rest.
CHECK_DEADLOCK FALSE
SPECIFICATION FairSpec
PROPERTIES EveryConnectReturns EveryCommandReplies
