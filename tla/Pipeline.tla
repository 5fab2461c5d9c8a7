------------------------------ MODULE Pipeline ------------------------------
(* The quickstart pipeline and the dashboard's runner of operations:
   src/src/housekeeper/quickstart.py, reuse.py and dashboard/runner.py, over the
   stages of Stages.tla.

   One source and one process.  An operation is a queue of stages; every stage
   is one step of the worker thread that runs it, and may be stopped, fail or
   die inside.  Clicks come from the threads of the web server at any time.

   Named assumptions.  Files are rewritten, and plain scans of the command line
   run, only while no operation is under way (what a scan meets while it walks is
   ScanWalk.tla's subject, what a file rewritten under its hash does is
   ContentIdentity.tla's).  A scan that ends early leaves the newest complete run
   as it was.                                                                *)
EXTENDS Stages, Sequences

CONSTANTS
    PlainScans,     \* TRUE: `housekeeper scan` is also used between quickstarts;
                    \* FALSE: only to begin an inventory
    MaxRuns,        \* bound on complete runs between two purges
    MaxOps,         \* bound on accepted operations and plain scans; the last one is let run
                    \* to its end, for after it nothing looks at what a stop leaves
    MaxFailures     \* bound on contents that fail to be hashed or parsed

ASSUME PipelineAssumption ==
    /\ IsFiniteSet(Files) /\ Files # {}
    /\ MaxVersion \in Nat \ {0} /\ MaxRuns \in Nat \ {0} /\ MaxOps \in Nat /\ MaxFailures \in Nat
    /\ PlainScans \in BOOLEAN

Operations == {"quickstart", "full", "analyse", "classify", "report", "purge"}
Quickstarts == {"quickstart", "full"}
NoOp == "none"

\* REUSABLE_STAGES.
Reusable == ContentKeyed

VARIABLES
    disk,      \* the version of each file
    changedIn, \* the newest run that recorded a change, 0 when none did
    done,      \* <<label, token>> of the COMPLETED jobs of reusable stages
    prev,      \* how the newest quickstart of the source ended: "stopped" is
               \* PAUSED, CANCELLED, FAILED or INTERRUPTED, which nothing tells apart
    marker,    \* the reports carry the marker of today's inventory and jobs
    rstate,    \* OperationRunner._status["state"], "stopped" for
               \* cancelled, paused and error, which submit does not tell apart
    accepted,  \* operations the web's threads have accepted and not yet queued
    queue,     \* the executor's queue
    op, phase, \* the operation of the worker thread, and how far it is
    todo,      \* the stages it still has to run
    mode,      \* [incremental, narrow, token] of the operation
    errors,    \* a stage of the operation counted an error
    ops,       \* accepted operations and plain scans
    served,    \* history: <<label, snapshot>> of the stages that COMPLETED for it
    failed     \* history: contents whose hash or parse once failed

runner == <<rstate, accepted, queue, ops>>
worker == <<op, phase, todo, mode, errors>>
jobs == <<done, prev, marker>>
history == <<served, failed>>
vars == <<scopeVars, tables, disk, changedIn, jobs, runner, worker, history>>

FirstVersions == [f \in Files |-> 1]
Whole == [incremental |-> FALSE, narrow |-> FALSE, token |-> 0]

TypeOK ==
    /\ run \in 0..MaxRuns /\ snap \in [Files -> 1..MaxVersion]
    /\ rows \subseteq Files /\ baseline \in BOOLEAN
    /\ TablesTypeOK
    /\ disk \in [Files -> 1..MaxVersion] /\ changedIn \in 0..run
    /\ done \subseteq Reusable \X (1..MaxRuns) /\ marker \in BOOLEAN
    /\ prev \in {"none", "COMPLETED", "COMPLETED_WITH_ERRORS", "stopped"}
    /\ rstate \in {"idle", "running", "stopped"}
    /\ accepted \in Seq(Operations) /\ queue \in Seq(Operations) /\ ops \in 0..MaxOps
    /\ op \in Operations \cup {NoOp}
    /\ phase \in {"none", "working", "closing"}
    /\ todo \in Seq(StageNames \cup {"scan", "purge"})
    /\ mode \in [incremental : BOOLEAN, narrow : BOOLEAN, token : 0..MaxRuns]
    /\ errors \in BOOLEAN /\ failed \subseteq Contents

Init ==
    /\ run = 0 /\ snap = FirstVersions /\ rows = {} /\ baseline = FALSE
    /\ linked = {} /\ parsed = {} /\ saw = [s \in Similarity |-> {}]
    /\ made = {}
    /\ disk = FirstVersions /\ changedIn = 0
    /\ done = {} /\ prev = "none" /\ marker = FALSE
    /\ rstate = "idle" /\ accepted = <<>> /\ queue = <<>> /\ ops = 0
    /\ op = NoOp /\ phase = "none" /\ todo = <<>> /\ mode = Whole /\ errors = FALSE
    /\ served = {} /\ failed = {}

---------------------------------------------------------------------------
(* The user, and the runner as the web server's threads see it.             *)

Quiet == op = NoOp /\ queue = <<>> /\ accepted = <<>>

\* A file is rewritten; before the first complete run nothing remembers that it was,
\* and after the last operation nothing looks.
Edit(f) ==
    /\ Quiet /\ run > 0 /\ ops < MaxOps /\ disk[f] < MaxVersion
    /\ disk' = [disk EXCEPT ![f] = @ + 1]
    /\ UNCHANGED <<scopeVars, tables, changedIn, jobs, runner, worker, history>>

\* A scan records a complete run: the snapshot, and the rows that differ from
\* the run before it.  No table is of the new run yet.
RecordRun ==
    /\ run' = run + 1 /\ snap' = disk /\ baseline' = (run > 0)
    /\ rows' = {f \in Files : run > 0 /\ snap[f] # disk[f]}
    /\ changedIn' = IF rows' = {} THEN changedIn ELSE run'
    /\ marker' = FALSE /\ made' = {}
    /\ UNCHANGED <<linked, parsed, saw>>

\* `housekeeper scan`.
PlainScan ==
    /\ (PlainScans \/ run = 0) /\ Quiet /\ run < MaxRuns
    /\ ops < MaxOps /\ ops' = ops + 1
    /\ RecordRun
    /\ UNCHANGED <<disk, done, prev, rstate, accepted, queue, worker, history>>

\* submit: busy or accepted, under the lock ...
\* Fault: the busy check is gone.
SubmitAnyway(o) ==
    /\ ops < MaxOps
    /\ o \in Quickstarts => run < MaxRuns
    /\ rstate' = "running"
    /\ accepted' = Append(accepted, o) /\ ops' = ops + 1
    /\ UNCHANGED <<scopeVars, tables, disk, changedIn, jobs, queue, worker, history>>
Submit(o) ==
    /\ ops < MaxOps
    /\ o \in Quickstarts => run < MaxRuns
    /\ rstate # "running"
    /\ rstate' = "running"
    /\ accepted' = Append(accepted, o) /\ ops' = ops + 1
    /\ UNCHANGED <<scopeVars, tables, disk, changedIn, jobs, queue, worker, history>>

\* ... and the hand-over to the executor after it, by each thread in its own time.
Enqueue ==
    \E i \in DOMAIN accepted :
        /\ queue' = Append(queue, accepted[i])
        /\ accepted' = SubSeq(accepted, 1, i - 1) \o SubSeq(accepted, i + 1, Len(accepted))
        /\ UNCHANGED <<scopeVars, tables, disk, changedIn, jobs, rstate, ops, worker, history>>

\* resume: a quickstart that ended early is submitted again, never as a full one.
Resume ==
    /\ prev = "stopped"
    /\ Submit("quickstart")

---------------------------------------------------------------------------
(* The worker thread.                                                       *)

Order == <<"exact-duplicates", "content-analysis", "directory-overlap", "document-versions",
           "document-minhash", "image-similarity", "projects", "backup-lineage",
           "normalized-content", "derivations", "canonical-roles", "archive-of-directory",
           "backup-value", "record-series", "preservation-risk", "photo-events",
           "contact-sheets", "classify", "review-priority", "lifecycle", "reports">>

\* _run_pipeline, _run_analyse, _run_classify, _run_report and the purge.
\* Fault: the roles are assigned before the groups they rest on are complete.
StagesOfMisordered(o) ==
    CASE o \in Quickstarts ->
           <<"scan">> \o SubSeq(Order, 1, 8) \o <<"derivations", "canonical-roles",
             "normalized-content">> \o SubSeq(Order, 12, 21)
      [] o = "analyse" ->
           <<"exact-duplicates", "directory-overlap", "content-analysis", "projects">>
      [] o = "classify" -> <<"classify">>
      [] o = "report" -> <<"reports">>
      [] o = "purge" -> <<"purge">>
StagesOf(o) ==
    CASE o \in Quickstarts -> <<"scan">> \o Order
      [] o = "analyse" ->
           <<"exact-duplicates", "directory-overlap", "content-analysis", "projects">>
      [] o = "classify" -> <<"classify">>
      [] o = "report" -> <<"reports">>
      [] o = "purge" -> <<"purge">>

Take ==
    /\ op = NoOp /\ queue # <<>>
    /\ op' = Head(queue) /\ queue' = Tail(queue)
    /\ phase' = "working" /\ todo' = StagesOf(op') /\ mode' = Whole /\ errors' = FALSE
    /\ UNCHANGED <<scopeVars, tables, disk, changedIn, jobs, rstate, accepted, ops, history>>

Stage == Head(todo)
AtStage == phase = "working" /\ todo # <<>>

\* The pipeline narrows to what changed when the quickstart before it ended well.
\* Fault: whatever became of the quickstart before it.
MayNarrowAlways == prev # "none"
MayNarrow == prev = "COMPLETED"

\* snapshot_token.
\* Fault: the id of the run itself.
RunToken(newest) == run'
\* Fault: a change that a scan recorded is not looked for.
FirstToken(newest) == 1
Token(newest) == IF newest > 0 THEN newest ELSE 1

\* The scan of a quickstart, and the two decisions taken from what it recorded.
Scan ==
    /\ AtStage /\ Stage = "scan"
    /\ RecordRun
    /\ mode' = [incremental |-> op # "full" /\ baseline',
                narrow |-> op # "full" /\ baseline' /\ MayNarrow,
                token |-> Token(changedIn')]
    /\ todo' = Tail(todo)
    /\ UNCHANGED <<disk, done, prev, runner, op, phase, errors, history>>

\* The newest change record a purge leaves behind.
\* Fault: those of the purged runs.
NewestRecordKept == changedIn
NewestRecordLeft == 0

\* purge_runs: everything goes, the reports and the job rows with it.
PurgeRuns ==
    /\ AtStage /\ Stage = "purge"
    /\ run' = 0 /\ snap' = FirstVersions /\ rows' = {} /\ baseline' = FALSE
    /\ linked' = {} /\ parsed' = {} /\ saw' = [s \in Similarity |-> {}]
    /\ made' = {} /\ changedIn' = NewestRecordLeft
    /\ done' = {} /\ prev' = "none" /\ marker' = FALSE
    /\ served' = {} /\ failed' = {}
    /\ todo' = Tail(todo)
    /\ UNCHANGED <<disk, runner, op, phase, mode, errors>>

HasFingerprint(s) == mode.token # 0 /\ s \in Reusable
Reuses(s) == mode.incremental /\ HasFingerprint(s) /\ <<s, mode.token>> \in done

\* _record_skipped_stage: what the earlier job left stands for this run.
Skip ==
    /\ AtStage /\ Stage \in StageNames /\ Reuses(Stage)
    /\ made' = made \cup ({Stage} \cap ContentKeyed)
    /\ todo' = Tail(todo) /\ marker' = FALSE
    /\ UNCHANGED <<scopeVars, linked, parsed, saw, disk, changedIn, done, prev, runner,
                   op, phase, mode, errors, history>>

\* The job of a stage settles: COMPLETED carries the fingerprint, COMPLETED_WITH_ERRORS
\* can never be found again.
Settle(s, errs) ==
    /\ done' = IF HasFingerprint(s) /\ ~errs THEN done \cup {<<s, mode.token>>} ELSE done
    /\ served' = IF s \in ContentKeyed /\ op \in Quickstarts /\ ~errs THEN served \cup {<<s, snap>>} ELSE served
    /\ errors' = (errors \/ errs)
    /\ marker' = (s = "reports")
    /\ todo' = Tail(todo)
    /\ UNCHANGED <<scopeVars, disk, changedIn, prev, runner, op, phase, mode>>

\* Reports whose marker is that of the inventory and of the jobs are left alone.
RunStage ==
    /\ AtStage /\ Stage \in StageNames \ {"content-analysis"} /\ ~Reuses(Stage)
    /\ IF Stage = "reports" /\ marker /\ op # "full" THEN UNCHANGED tables ELSE Body(Stage)
    /\ Settle(Stage, FALSE)
    /\ UNCHANGED failed

RunContentAnalysis ==
    /\ AtStage /\ Stage = "content-analysis" /\ ~Reuses(Stage)
    /\ \E unread \in SUBSET (InScope \ linked), unparsed \in SUBSET InScope :
         /\ ContentAnalysis(mode.narrow, unread, unparsed)
         /\ Settle(Stage, ContentAnalysisErrs(mode.narrow, unread, unparsed))
         /\ failed' = failed \cup unread \cup unparsed
         /\ Cardinality(failed') <= MaxFailures

\* The pipeline's row settles, then the runner is free, then the connection is
\* closed; the refresh between the first two may fail.
EndOp ==
    /\ phase = "working" /\ todo = <<>>
    /\ prev' = IF op \notin Quickstarts THEN prev
               ELSE IF errors THEN "COMPLETED_WITH_ERRORS" ELSE "COMPLETED"
    /\ marker' = (marker /\ op \notin Quickstarts)
    /\ rstate' \in {"idle", "stopped"} /\ phase' = "closing"
    /\ UNCHANGED <<scopeVars, tables, disk, changedIn, done, accepted, queue, ops, op, todo,
                   mode, errors, history>>

\* What is left of the stage the worker is in.
CutHere ==
    IF AtStage /\ Stage \in StageNames THEN CutShort(Stage) ELSE UNCHANGED tables

\* A pause or a cancel, seen by the stage's checkpoint, or an exception out of it.
\* Fault: a pause or a cancel leaves the runner busy.
StopStuck ==
    /\ ops < MaxOps /\ AtStage /\ ~Reuses(Stage) /\ CutHere
    /\ prev' = IF op \in Quickstarts THEN "stopped" ELSE prev
    /\ rstate' \in {rstate, "stopped"}
    /\ phase' = "closing"
    /\ UNCHANGED <<scopeVars, disk, changedIn, done, marker, accepted, queue, ops, op, todo,
                   mode, errors, history>>
Stop ==
    /\ ops < MaxOps /\ AtStage /\ ~Reuses(Stage) /\ CutHere
    /\ prev' = IF op \in Quickstarts THEN "stopped" ELSE prev
    /\ rstate' = "stopped"
    /\ phase' = "closing"
    /\ UNCHANGED <<scopeVars, disk, changedIn, done, marker, accepted, queue, ops, op, todo,
                   mode, errors, history>>

Close ==
    /\ phase = "closing"
    /\ op' = NoOp /\ phase' = "none" /\ todo' = <<>> /\ mode' = Whole /\ errors' = FALSE
    /\ UNCHANGED <<scopeVars, tables, disk, changedIn, jobs, runner, history>>

\* The process dies; the next one finds the root without a worker.
Die ==
    /\ ops < MaxOps /\ op # NoOp
    /\ CutHere
    /\ prev' = IF op \in Quickstarts /\ phase # "closing" THEN "stopped" ELSE prev
    /\ rstate' = "idle" /\ accepted' = <<>> /\ queue' = <<>>
    /\ op' = NoOp /\ phase' = "none" /\ todo' = <<>> /\ mode' = Whole /\ errors' = FALSE
    /\ UNCHANGED <<scopeVars, disk, changedIn, done, marker, ops, history>>

Work ==
    Take \/ Scan \/ PurgeRuns \/ Skip \/ RunStage \/ RunContentAnalysis \/ EndOp \/ Close

Next ==
    \/ \E f \in Files : Edit(f)
    \/ PlainScan
    \/ (\E o \in Operations : Submit(o)) \/ Enqueue \/ Resume
    \/ Work \/ Stop \/ Die

\* The worker thread runs, and so does a web thread that holds an accepted
\* operation; nobody has to click, to stop anything or to die.
Fairness == WF_vars(Work) /\ WF_vars(Enqueue)

Spec == Init /\ [][Next]_vars /\ Fairness

---------------------------------------------------------------------------
(* What the pipeline promises.                                              *)

\* A quickstart has just settled as COMPLETED.
Clean == phase = "closing" /\ op \in Quickstarts /\ prev = "COMPLETED"

\* Narrowing and reuse together owe the user nothing: when a quickstart ends as
\* COMPLETED, every content of the run has its artifact, except those whose hash or
\* parser once failed -- however the quickstarts before it ended.
NothingOwed == Clean => InScope \ failed \subseteq parsed

\* A reused similarity stage has seen every content of the run it stands for.
ReusedStagesSaw ==
    Clean => \A s \in Similarity : InScope \ failed \subseteq saw[s]

\* What hangs on the rows of a run is never carried over from an older one: when a
\* quickstart ends, every such table is of this run and rests on tables of this run.
\* backup-value is the exception: it reads the classifications of this run before
\* classify has made them.
EndedRunIsWhole ==
    phase = "closing" /\ op \in Quickstarts /\ prev \in {"COMPLETED", "COMPLETED_WITH_ERRORS"}
      => EntryKeyed \ {"backup-value"} \subseteq made

\* Resume continues: an incremental quickstart never begins a reusable stage that
\* has already completed for the very snapshot it has just recorded.
FinishedStagesAreNotRedone ==
    [][(RunStage \/ RunContentAnalysis) /\ mode.incremental
         => <<Stage, snap>> \notin served]_vars

\* The runner is busy exactly while one accepted operation is between its
\* acceptance and its end: two never run, and none is lost on the way to the worker.
Underway ==
    Len(accepted) + Len(queue) + (IF phase = "working" THEN 1 ELSE 0)
OneAtATime == Underway = (IF rstate = "running" THEN 1 ELSE 0)

\* An accepted operation frees the runner in the end, whatever becomes of it.
RunnerFreesItself == rstate = "running" ~> rstate # "running"
=============================================================================
