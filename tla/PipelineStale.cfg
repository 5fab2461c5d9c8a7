\* A plain scan records the change that the next quickstart narrows away.
CONSTANTS
  Files = {f1}
  MaxVersion = 2
  PlainScans = TRUE
  MaxRuns = 3
  MaxOps = 3
  MaxFailures = 1
SPECIFICATION Spec
INVARIANT NothingOwed
CHECK_DEADLOCK FALSE
