CONSTANTS
    Files <- MCFiles
    Place <- MCPlace
    Holds <- MCHolds
    Snapshots = {1, 2}
    Operators = {op}
    Transactions = {1, 2}
    MaxTrouble = 0
SPECIFICATION Spec
INVARIANT LastCopyStays
CHECK_DEADLOCK FALSE
