\* Two commands at a time, three in all, one kill; a page with a request to SEU
\* and one elsewhere.
CONSTANTS
  c1 = c1
  c2 = c2
  u1 = u1
  u2 = u2
  seu = seu
  other = other
  n1 = n1
  n2 = n2
  None = None
  Torn = Torn
  Unsaid = Unsaid
  Requests = {seu, other}
  Seu = {seu}
  Bearer = {seu}
  MaxExtra = 1
  Cmds = {c1, c2}
  Users = {u1, u2}
  Names = {n1, n2}
  BadName = bad
  Jobs <- MCJobs
  MaxCommands = 3
  MaxKills = 1
\* The commands and the kill are used up.
CHECK_DEADLOCK FALSE
SPECIFICATION MCSpec
SYMMETRY MCSymmetry
INVARIANTS PromisesAreKept StaysValid KeyringIsTheSaved TokenIsFound RecoveryIsTried
