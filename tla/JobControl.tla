---------------------------- MODULE JobControl ----------------------------
(* The durable job control plane of src/src/housekeeper/jobs.py.

   One pipeline run: the root job 0 (QUICKSTART, ANALYSE_ALL, or a standalone
   job when NStages = 0) and its stage jobs 1..NStages, run in order by one
   worker.  User interfaces ask the run to stop through two channels, the row
   of the root job and the file job-<id>.stop beside the database; the worker
   polls both at checkpoints; a process may die at any step; the reaper
   settles the rows of dead processes.

   Every step is one visible effect: a commit, a file write or removal, or a
   read whose answer is used later.  COMPLETED also stands for
   COMPLETED_WITH_ERRORS, which no operation here tells apart from it.      *)
EXTENDS Naturals

CONSTANTS
    NStages,    \* number of stage jobs under the root; 0: a standalone job
    Scans,      \* the jobs driven by DriveScanner.scan, not by tracked_job
    Breaker,    \* scanner.pause_after_consecutive_errors is set, as it is by default
    Procs,      \* operating-system processes
    Clickers,   \* threads serving the user's control requests
    UserOps     \* what the users do: see USER_OPS

Root == 0
Jobs == 0..NStages
None == "NONE"      \* no row yet

TERMINAL == {"CANCELLED", "COMPLETED", "FAILED", "INTERRUPTED"}
ACTIVE   == {"RUNNING", "PAUSING", "CANCELLING"}
JOB_STATES == TERMINAL \cup ACTIVE \cup {"PENDING", "PAUSED"}
REQUESTS == {"CANCELLING", "PAUSING"}
USER_OPS == REQUESTS \cup {"RESUME", "CTRL_C"}

ASSUME NStagesAssumption == NStages \in Nat
ASSUME ScansAssumption == Scans \subseteq Jobs /\ (Root \in Scans => NStages = 0)
ASSUME BreakerAssumption == Breaker \in BOOLEAN
ASSUME UserOpsAssumption == UserOps \subseteq USER_OPS
ASSUME ProcsAssumption == Procs # {}

VARIABLES
    status,   \* the status column of each job row
    file,     \* the content of job-<id>.stop, "" when there is no file
    owner,    \* the process_id column of each job row
    alive,    \* the processes that are running
    wproc,    \* the process the worker runs in
    pc,       \* where the worker is; "idle": it runs nothing
    cur,      \* the job whose code the worker is in
    target,   \* the status the worker is about to write
    phase,    \* who writes it: check_cancelled, a tracked_job handler, or success
    txn,      \* the worker's connection is inside a write transaction
    cpc,      \* where each clicker is in its request
    creq,     \* the request each clicker carries
    reap      \* rows the reaper has judged orphaned and not yet written

workerVars == <<wproc, pc, cur, target, phase>>
vars == <<status, file, owner, alive, workerVars, txn, cpc, creq, reap>>

PCS == {"idle", "insert", "fresh", "start", "entry", "body", "exit", "write", "clear"}

TypeOK ==
    /\ status \in [Jobs -> JOB_STATES \cup {None}]
    /\ file \in [Jobs -> REQUESTS \cup {""}]
    /\ owner \in [Jobs -> Procs]
    /\ alive \subseteq Procs
    /\ wproc \in Procs
    /\ pc \in PCS
    /\ cur \in Jobs
    /\ target \in TERMINAL \cup {"PAUSED"}
    /\ phase \in {"check", "handler", "finish"}
    /\ txn \in BOOLEAN
    /\ cpc \in [Clickers -> {"idle", "check", "file", "row", "undo", "finalize"}]
    /\ creq \in [Clickers -> REQUESTS]
    /\ reap \subseteq Jobs

\* A purge deletes every job row and ids restart at 1, so a job may find a
\* request left to an earlier holder of its id.
Init ==
    /\ status = [j \in Jobs |-> None]
    /\ file \in [Jobs -> REQUESTS \cup {""}]
    /\ \E p \in Procs : wproc = p /\ owner = [j \in Jobs |-> p]
    /\ alive = Procs
    /\ pc = "idle" /\ cur = Root /\ target = "COMPLETED" /\ phase = "finish"
    /\ txn = FALSE
    /\ cpc = [c \in Clickers |-> "idle"]
    /\ creq = [c \in Clickers |-> "CANCELLING"]
    /\ reap = {}

---------------------------------------------------------------------------
(* What one poll of the lineage sees: the rows of the job and of its root,
   and the files of both.                                                   *)
\* Fault: a stage polls its own job only.
OwnJob(j) == {j}

Lineage(j) == {j, Root}

\* Fault: the poll reads the rows and forgets the files.
RowStatuses(j) == {status[k] : k \in Lineage(j)}

LineageStatuses(j) ==
    {status[k] : k \in Lineage(j)} \cup {file[k] : k \in Lineage(j)}

\* Fault: the requested state is passed on as the settled one.
StopAsRequested(j) ==
    IF "CANCELLING" \in LineageStatuses(j) THEN "CANCELLING"
    ELSE IF "PAUSING" \in LineageStatuses(j) THEN "PAUSING"
    ELSE ""

\* The state check_cancelled settles the job in, "" when nothing is asked.
StopSeen(j) ==
    IF LineageStatuses(j) \cap {"CANCELLING", "CANCELLED"} # {} THEN "CANCELLED"
    ELSE IF LineageStatuses(j) \cap {"PAUSING", "PAUSED"} # {} THEN "PAUSED"
    ELSE ""

\* A leaf job's body is analyser or scanner code; a root over stages has a body
\* that only starts the stages.
Leaf(j) == j # Root \/ NStages = 0
Unstarted == {j \in Jobs \ {Root} : status[j] = None}

\* Leave an except block: the enclosing tracked_job, if any, handles it next.
Propagate ==
    IF cur = Root
    THEN pc' = "idle" /\ UNCHANGED <<cur, phase>>
    ELSE pc' = "write" /\ cur' = Root /\ phase' = "handler"

---------------------------------------------------------------------------
(* The worker: tracked_job, DriveScanner.scan and the code they run.        *)

Begin(p) ==
    /\ pc = "idle" /\ status[Root] = None /\ p \in alive
    /\ wproc' = p /\ pc' = "insert" /\ cur' = Root
    /\ UNCHANGED <<status, file, owner, alive, target, phase, txn, cpc, creq, reap>>

\* create_job: the committed INSERT, then the removal of a leftover request.
CreateJob ==
    /\ pc = "insert"
    /\ status' = [status EXCEPT ![cur] = "PENDING"]
    /\ owner' = [owner EXCEPT ![cur] = wproc]
    /\ txn' = FALSE
    /\ pc' = "fresh"
    /\ UNCHANGED <<file, alive, wproc, cur, target, phase, cpc, creq, reap>>

DropLeftover ==
    /\ pc = "fresh"
    /\ file' = [file EXCEPT ![cur] = ""]
    /\ pc' = "start"
    /\ UNCHANGED <<status, owner, alive, wproc, cur, target, phase, txn, cpc, creq, reap>>

StartJob ==
    /\ pc = "start"
    /\ status' = [status EXCEPT ![cur] = "RUNNING"]
    /\ txn' = FALSE
    /\ pc' = "entry"
    /\ UNCHANGED <<file, owner, alive, wproc, cur, target, phase, cpc, creq, reap>>

\* Honour the stop the poll has seen: settle the job's own row, then raise.
Honour ==
    /\ StopSeen(cur) # ""
    /\ target' = StopSeen(cur) /\ phase' = "check" /\ pc' = "write"
    /\ UNCHANGED <<status, file, owner, alive, wproc, cur, txn, cpc, creq, reap>>

\* The first check of a job is never throttled: nothing polled its id before.
EntryCheck ==
    /\ pc = "entry"
    /\ \/ Honour
       \/ /\ StopSeen(cur) = ""
          /\ pc' = "body"
          /\ UNCHANGED <<status, file, owner, alive, wproc, cur, target, phase,
                         txn, cpc, creq, reap>>

\* A leaf writes rows and commits them, in batches.
Work ==
    /\ pc = "body" /\ Leaf(cur)
    /\ txn' = ~txn
    /\ UNCHANGED <<status, file, owner, alive, workerVars, cpc, creq, reap>>

\* checkpoint -> check_cancelled.  A throttled poll, or one that sees no
\* request, changes nothing.
Poll == pc = "body" /\ Leaf(cur) /\ Honour

\* The pipeline body: begin_stage writes progress on the root without
\* committing, then the stage creates its own job.
BeginStage ==
    /\ pc = "body" /\ cur = Root
    /\ \E j \in Unstarted :
         /\ \A k \in Unstarted : j <= k
         /\ cur' = j
    /\ txn' = TRUE
    /\ pc' = "insert"
    /\ UNCHANGED <<status, file, owner, alive, wproc, target, phase, cpc, creq, reap>>

\* The body returns.  tracked_job commits and checks once more; the scanner
\* writes COMPLETED straight away.
BodyEnd ==
    /\ pc = "body" /\ (Leaf(cur) \/ Unstarted = {})
    /\ txn' = FALSE
    /\ IF cur \in Scans
       THEN pc' = "write" /\ target' = "COMPLETED" /\ phase' = "finish"
       ELSE pc' = "exit" /\ UNCHANGED <<target, phase>>
    /\ UNCHANGED <<status, file, owner, alive, wproc, cur, cpc, creq, reap>>

\* The exit check may fall within the poll interval of an earlier one and then
\* looks at nothing.
ExitCheck ==
    /\ pc = "exit"
    /\ \/ Honour
       \/ /\ target' = "COMPLETED" /\ phase' = "finish" /\ pc' = "write"
          /\ UNCHANGED <<status, file, owner, alive, wproc, cur, txn, cpc, creq, reap>>

\* Fault: a failing body settles no row of its own, whoever drives it.
BodyFailsUnsettled ==
    /\ pc = "body"
    /\ txn' = FALSE
    /\ target' = "FAILED"
    /\ Propagate
    /\ UNCHANGED <<status, file, owner, alive, wproc, cpc, creq, reap>>

\* The body raises.  tracked_job rolls back and records FAILED; the scanner
\* records nothing on its own row.
BodyFails ==
    /\ pc = "body"
    /\ txn' = FALSE
    /\ target' = "FAILED"
    /\ IF cur \in Scans
       THEN Propagate
       ELSE pc' = "write" /\ phase' = "handler" /\ UNCHANGED cur
    /\ UNCHANGED <<status, file, owner, alive, wproc, cpc, creq, reap>>

\* The drive stops answering: after a run of read errors the scan commits what
\* it has, parks its own row and raises JobPaused.  Nobody asked it to.
ErrorStorm ==
    /\ Breaker
    /\ pc = "body" /\ cur \in Scans
    /\ target' = "PAUSED" /\ phase' = "check" /\ pc' = "write"
    /\ txn' = FALSE
    /\ UNCHANGED <<status, file, owner, alive, wproc, cur, cpc, creq, reap>>

\* Ctrl-C on a command-line run: tracked_job's signal handler asks the root to
\* cancel over the worker's own connection and raises JobCancelled.
Interrupt ==
    /\ "CTRL_C" \in UserOps
    /\ pc \in {"entry", "body", "exit"} /\ Root \notin Scans
    /\ IF status[Root] \in TERMINAL
       THEN UNCHANGED <<status, file>>
       ELSE /\ file' = [file EXCEPT ![Root] = "CANCELLING"]
            /\ status' = [status EXCEPT ![Root] = "CANCELLING"]
    /\ txn' = FALSE
    /\ target' = "CANCELLED"
    /\ IF cur \in Scans
       THEN Propagate
       ELSE pc' = "write" /\ phase' = "handler" /\ UNCHANGED cur
    /\ UNCHANGED <<owner, alive, wproc, cpc, creq, reap>>

\* update_job with a settled status: the committed row, then the file.
WriteRow ==
    /\ pc = "write"
    /\ status' = [status EXCEPT ![cur] = target]
    /\ txn' = FALSE
    /\ pc' = "clear"
    /\ UNCHANGED <<file, owner, alive, wproc, cur, target, phase, cpc, creq, reap>>

\* What runs next depends on who settled the row: success returns to the
\* pipeline, a check raises into its own tracked_job, whose handler writes the
\* row once more, and a handler (or the scanner) raises into the root's.
ClearFile ==
    /\ pc = "clear"
    /\ file' = [file EXCEPT ![cur] = ""]
    /\ \/ /\ phase = "finish"
          /\ cur' = Root
          /\ pc' = IF cur = Root THEN "idle" ELSE "body"
          /\ UNCHANGED phase
       \/ /\ phase = "check" /\ cur \notin Scans
          /\ phase' = "handler" /\ pc' = "write" /\ UNCHANGED cur
       \/ /\ phase = "handler" \/ (phase = "check" /\ cur \in Scans)
          /\ Propagate
    /\ UNCHANGED <<status, owner, alive, wproc, target, txn, cpc, creq, reap>>

---------------------------------------------------------------------------
(* The user's control requests: request_cancel, request_pause,
   _request_control and resume_job.                                         *)

SetClicker(c, at) == cpc' = [cpc EXCEPT ![c] = at]

\* The root's status is read; what it was decides the rest of the request.
Click(c, r) ==
    /\ cpc[c] = "idle" /\ r \in UserOps
    /\ creq' = [creq EXCEPT ![c] = r]
    /\ \/ r = "CANCELLING" /\ status[Root] = "PAUSED" /\ SetClicker(c, "finalize")
       \/ /\ r = "CANCELLING"
          /\ status[Root] \notin TERMINAL \cup {None, "PAUSED"}
          /\ SetClicker(c, "file")
       \/ r = "PAUSING" /\ status[Root] \in {"PENDING", "RUNNING"} /\ SetClicker(c, "check")
    /\ UNCHANGED <<status, file, owner, alive, workerVars, txn, reap>>

\* A pause gives way to a cancel that is already recorded.
CheckFile(c) ==
    /\ cpc[c] = "check"
    /\ SetClicker(c, IF file[Root] = "CANCELLING" THEN "idle" ELSE "file")
    /\ UNCHANGED <<status, file, owner, alive, workerVars, txn, creq, reap>>

WriteFile(c) ==
    /\ cpc[c] = "file"
    /\ file' = [file EXCEPT ![Root] = creq[c]]
    /\ SetClicker(c, "row")
    /\ UNCHANGED <<status, owner, alive, workerVars, txn, creq, reap>>

\* Fault: the UPDATE trusts the status read before it.
UpdateRowUnguarded(c) ==
    /\ cpc[c] = "row" /\ ~txn
    /\ SetClicker(c, "idle") /\ status' = [status EXCEPT ![Root] = creq[c]]
    /\ UNCHANGED <<file, owner, alive, workerVars, txn, creq, reap>>

\* The guarded UPDATE; no row changed means the job had finished.
UpdateRow(c) ==
    /\ cpc[c] = "row" /\ ~txn
    /\ IF status[Root] \in TERMINAL
       THEN SetClicker(c, "undo") /\ UNCHANGED status
       ELSE SetClicker(c, "idle") /\ status' = [status EXCEPT ![Root] = creq[c]]
    /\ UNCHANGED <<file, owner, alive, workerVars, txn, creq, reap>>

\* The worker held the write lock past the busy timeout: the file stands.
Busy(c) ==
    /\ cpc[c] \in {"row", "finalize"} /\ txn
    /\ SetClicker(c, "idle")
    /\ UNCHANGED <<status, file, owner, alive, workerVars, txn, creq, reap>>

\* Fault: a request to a finished job leaves its file behind.
UndoNothing(c) ==
    /\ cpc[c] = "undo"
    /\ SetClicker(c, "idle")
    /\ UNCHANGED <<status, file, owner, alive, workerVars, txn, creq, reap>>

Undo(c) ==
    /\ cpc[c] = "undo"
    /\ file' = [file EXCEPT ![Root] = ""]
    /\ SetClicker(c, "idle")
    /\ UNCHANGED <<status, owner, alive, workerVars, txn, creq, reap>>

\* A cancel that has read PAUSED settles the row itself.
Finalize(c) ==
    /\ cpc[c] = "finalize" /\ ~txn
    /\ status' = [status EXCEPT ![Root] = "CANCELLED"]
    /\ SetClicker(c, "undo")
    /\ UNCHANGED <<file, owner, alive, workerVars, txn, creq, reap>>

\* `jobs resume` in a process of its own: the row goes back to PENDING, and a
\* SCAN is run again under the same row.  process_id is not rewritten.  The
\* user is taken to wait for the worker that parked the job to let go of it.
ResumeJob(p) ==
    /\ "RESUME" \in UserOps
    /\ pc = "idle" /\ p \in alive
    /\ status[Root] \in {"PAUSED", "CANCELLED", "FAILED"}
    /\ status' = [status EXCEPT ![Root] = "PENDING"]
    /\ IF Root \in Scans
       THEN wproc' = p /\ pc' = "start" /\ cur' = Root
       ELSE UNCHANGED <<wproc, pc, cur>>
    /\ UNCHANGED <<file, owner, alive, target, phase, txn, cpc, creq, reap>>

---------------------------------------------------------------------------
(* Process death and the reaper, reconcile_stale_jobs.                      *)

Crash(p) ==
    /\ p \in alive
    /\ alive' = alive \ {p}
    /\ IF wproc = p THEN pc' = "idle" /\ txn' = FALSE ELSE UNCHANGED <<pc, txn>>
    /\ UNCHANGED <<status, file, owner, wproc, cur, target, phase, cpc, creq, reap>>

\* Fault: the reaper does not ask whether the process lives.
JudgeAnyActive(j) ==
    /\ status[j] \in ACTIVE
    /\ reap' = reap \cup {j}
    /\ UNCHANGED <<status, file, owner, alive, workerVars, txn, cpc, creq>>

Judge(j) ==
    /\ status[j] \in ACTIVE /\ owner[j] \notin alive
    /\ reap' = reap \cup {j}
    /\ UNCHANGED <<status, file, owner, alive, workerVars, txn, cpc, creq>>

Reap(j) ==
    /\ j \in reap /\ ~txn
    /\ status' = [status EXCEPT ![j] = "INTERRUPTED"]
    /\ file' = [file EXCEPT ![j] = ""]
    /\ reap' = reap \ {j}
    /\ UNCHANGED <<owner, alive, workerVars, txn, cpc, creq>>

---------------------------------------------------------------------------
\* Steps the worker takes without waiting for the work itself.  A leaf body
\* may run for days; only its polls are due.
Proceed ==
    \/ CreateJob \/ DropLeftover \/ StartJob \/ EntryCheck \/ Poll \/ BeginStage
    \/ (~Leaf(cur) /\ BodyEnd)
    \/ ExitCheck \/ WriteRow \/ ClearFile

Worker ==
    \/ Proceed \/ Work \/ BodyEnd \/ BodyFails \/ ErrorStorm \/ Interrupt
    \/ \E p \in Procs : Begin(p)

Clicker(c) ==
    \/ \E r \in REQUESTS : Click(c, r)
    \/ CheckFile(c) \/ WriteFile(c) \/ UpdateRow(c) \/ Busy(c) \/ Undo(c) \/ Finalize(c)

Reaper == \E j \in Jobs : Judge(j) \/ Reap(j)

Next ==
    \/ Worker
    \/ \E c \in Clickers : Clicker(c)
    \/ Reaper
    \/ \E p \in Procs : ResumeJob(p) \/ Crash(p)

\* The worker's thread is scheduled, and every dashboard page load runs the reaper.
Fairness == WF_vars(Proceed) /\ WF_vars(Reaper)

Spec == Init /\ [][Next]_vars
FairSpec == Spec /\ Fairness

---------------------------------------------------------------------------
(* Properties.                                                              *)

\* A job that is CANCELLED, COMPLETED, FAILED or INTERRUPTED stays so, whatever
\* request, worker or reaper was under way when it got there.
TerminalIsFinal ==
    [][\A j \in Jobs : status[j] \in TERMINAL => status'[j] = status[j]]_vars

\* A stage run by tracked_job is never left pending or active behind the
\* worker's back: the worker is in it, or its process is dead and the reaper
\* may settle it.
StageHasWorker ==
    \A j \in Jobs \ (Scans \cup {Root}) :
        status[j] \in ACTIVE \cup {"PENDING"} =>
            owner[j] \notin alive \/ (pc # "idle" /\ cur = j)

\* A run whose root row is settled starts no further stage.
NoStageAfterRootSettles ==
    [][\A j \in Jobs \ {Root} :
         status[Root] \in TERMINAL \cup {"PAUSED"} /\ status'[j] = "RUNNING"
             => status[j] = "RUNNING"]_vars

\* When a run is terminal and nobody is half-way through a request, no stop
\* file waits to stop the job that `jobs resume` would run under this row.
NoLeftoverRequest ==
    status[Root] \in TERMINAL /\ pc = "idle" /\ owner[Root] \in alive
        /\ (\A c \in Clickers : cpc[c] \notin {"file", "row", "undo"})
        => file[Root] = ""

\* A recorded stop makes the worker let go of the run, through whichever of the
\* two channels it reaches the worker, and whatever else is clicked meanwhile.
WorkerLetsGo ==
    (file[Root] # "" /\ pc \notin {"idle", "insert", "fresh"}) ~> (pc = "idle")

\* A row that says the run is active has a worker or a dead process behind it,
\* so that no operation is shown as running with nothing left to settle it.
NoPhantomRun ==
    status[Root] \in ACTIVE => owner[Root] \notin alive \/ pc # "idle"

---------------------------------------------------------------------------
(* The run seen by its user.  It starts when the worker has marked it RUNNING;
   before that a request is between the INSERT and the removal of a leftover
   file and may be taken for one.                                           *)
Starting == cur = Root /\ pc \in {"insert", "fresh", "start"}

runView ==
    CASE status[Root] \in {None, "PENDING"} \/ Starting -> "new"
      [] status[Root] \in TERMINAL \cup {"PAUSED"} -> "over"
      [] OTHER -> "going"

askedView == runView = "going" /\ "CANCELLING" \in {status[Root], file[Root]}

Contract == INSTANCE StopContract WITH run <- runView, asked <- askedView

\* Cancel requests: the job control plane implements StopContract.
ImplementsContract == Contract!Spec
===========================================================================
