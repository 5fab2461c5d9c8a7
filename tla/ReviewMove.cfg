CONSTANTS
    Files <- MCFiles
    Place <- MCPlace
    Holds <- MCHolds
    Snapshots = {1}
    Operators = {op}
    Transactions = {1, 2}
    MaxTrouble = 2
SPECIFICATION Spec
INVARIANTS TypeOK NothingLost LastCopyStays
CHECK_DEADLOCK FALSE
