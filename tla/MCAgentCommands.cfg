\* Two commands at a time beside the recovery goroutine, one attempt each; the
\* retries are in the runs with fairness.
CONSTANTS
  u1 = u1
  u2 = u2
  Users = {u1, u2}
  None = None
  Recovery = R
  Cmds = {c1, c2}
  Conns = {}
  Requests <- MCRequests
  MaxCommands = 2
  ConnectLimit = 1
  Tries = 1
  MaxGeneration = 1
  MaxSpawned = 1
VIEW MCView
\* With no client and no command left, an agent that restored or gave up the
\* connection is at rest.
CHECK_DEADLOCK FALSE
SYMMETRY MCSymmetry
SPECIFICATION Spec
INVARIANTS TypeOK LoginForTheAccount PasswordOnlyDuringLogin LockOrder
PROPERTIES StoresKeepToTheAccount
