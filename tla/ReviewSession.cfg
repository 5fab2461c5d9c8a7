\* Two copies and two scans: one thread of the dashboard and one command.
CONSTANTS
  Files = {a, b}
  Protected = {b}
  Kept = {b}
  Threads = {t1}
  Commands = {k1}
  MaxRuns = 2
  MaxAsks = 2
SPECIFICATION Spec
INVARIANTS TypeOK WizardLeavesAKeeper ManifestLeavesACopy DecidedStaysDecided
PROPERTIES NoBlindOverwrite WizardWritesWhatWasShown
CHECK_DEADLOCK FALSE
