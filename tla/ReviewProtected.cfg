\* An approval before the first classification outlives it.
CONSTANTS
  Files = {a, b}
  Protected = {b}
  Kept = {b}
  Threads = {t1}
  Commands = {k1}
  MaxRuns = 2
  MaxAsks = 1
SPECIFICATION Spec
INVARIANT ProtectedStaysOut
CHECK_DEADLOCK FALSE
