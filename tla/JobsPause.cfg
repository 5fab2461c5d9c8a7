\* A pipeline of a scan stage and a tracked stage (quickstart); every request there is.
CONSTANTS
    NStages = 2
    Scans = {1}
    Breaker = TRUE
    Procs = {p1}
    Clickers = {c1, c2}
    UserOps = {"CANCELLING", "PAUSING", "RESUME", "CTRL_C"}
SPECIFICATION FairSpec
INVARIANTS TypeOK StageHasWorker NoLeftoverRequest
PROPERTY WorkerLetsGo
CHECK_DEADLOCK FALSE
