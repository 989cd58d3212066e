\* Two goroutines, each with a bare Get or Connect's three attempts, and three
\* invalidations (a refusal under way when the bound is reached still counts).
\* No symmetry, which TLC's liveness check does not allow.
CONSTANTS
  c1 = c1
  c2 = c2
  t1 = t1
  t2 = t2
  Callers = {c1, c2}
  Tokens = {t1, t2}
  Limits <- MCLimits
  None = None
  MaxGeneration = 3
SPECIFICATION FairSpec
INVARIANTS NoStaleCache FreshAnswers Coalesced RetriesPresentNewer
PROPERTIES EveryCallReturns ImplementsCache
