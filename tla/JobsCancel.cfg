\* A pipeline without a walk (analyse-all); cancels from two places and Ctrl-C.
CONSTANTS
    NStages = 2
    Scans = {}
    Breaker = TRUE
    Procs = {p1}
    Clickers = {c1, c2}
    UserOps = {"CANCELLING", "CTRL_C"}
SPECIFICATION FairSpec
INVARIANT NoPhantomRun
PROPERTIES TerminalIsFinal ImplementsContract
CHECK_DEADLOCK FALSE
