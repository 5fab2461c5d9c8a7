CONSTANTS
    Paths = {p1}
    Keep = 1
    Analysed = TRUE
    MaxVersion = 2
    MaxRuns = 3
    MaxDecided = 1
    MaxTrouble = 1
SPECIFICATION Spec
INVARIANTS TypeOK CurrentIsNewestComplete ChangesAreTrue IdentityIsNotOlder DecidedEntriesStay
PROPERTIES CurrentIsFrozen OutdatedDecisionsAreStale
CHECK_DEADLOCK FALSE
