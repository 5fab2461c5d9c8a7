\* Two files, every operation; files change between operations.
CONSTANTS
  Files = {f1, f2}
  MaxVersion = 2
  PlainScans = FALSE
  MaxRuns = 3
  MaxOps = 3
  MaxFailures = 1
SPECIFICATION Spec
INVARIANTS TypeOK NothingOwed ReusedStagesSaw EndedRunIsWhole OneAtATime
PROPERTIES FinishedStagesAreNotRedone RunnerFreesItself
CHECK_DEADLOCK FALSE
