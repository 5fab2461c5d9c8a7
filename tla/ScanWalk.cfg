CONSTANTS
    Nodes <- MCNodes
    Dirs <- MCDirs
    Top = "/"
    Children <- MCChildren
    Above <- MCAbove
    BatchSize = 2
    FrontierMax = 2
    ErrorLimit = 2
    WorkerCounts = {1, 2}
    MaxTrouble = 3
SPECIFICATION FairSpec
INVARIANTS TypeOK FrontierCovers CompleteMeansRecorded
PROPERTY EventuallyComplete
CHECK_DEADLOCK FALSE
