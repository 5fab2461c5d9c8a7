CONSTANTS
    Paths = {p1}
    Keep = 1
    Analysed = FALSE
    MaxVersion = 2
    MaxRuns = 3
    MaxDecided = 1
    MaxTrouble = 1
SPECIFICATION Spec
PROPERTY PruneDeletes
CHECK_DEADLOCK FALSE
