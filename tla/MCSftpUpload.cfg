\* Two uploads, of one session or of two, to the same path.
CONSTANTS
  s1 = s1
  s2 = s2
  h1 = h1
  h2 = h2
  Sessions = {s1, s2}
  Handles = {h1, h2}
  None = None
  Absent = Absent
  Partial = Partial
  Size = 1
  PerBlock = 2
\* Every upload is over after a while, and no more sessions come.
CHECK_DEADLOCK FALSE
SYMMETRY MCSymmetry
SPECIFICATION Spec
INVARIANTS OneWriter NothingLeft
PROPERTIES RemovedStaysOut ImplementsAtomicFile
