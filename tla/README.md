# A verification development for housekeeper

`housekeeper` keeps a SQLite inventory of backup drives: it scans them, hashes and
analyses what it found, recommends what could be reviewed, and on request moves
approved files to a review folder and puts them back. This directory holds TLA+
models of its core, the TLC runs that check them on small instances, and proofs,
checked by TLAPS, of their main invariants for every instance. Source paths below
are relative to `src/housekeeper/` of the repository.

## 1. The system

### Components, their state and their operations

| Component | State | Operations | Correct when |
|---|---|---|---|
| Job control (`jobs.py`) | `jobs` rows (status, process, parent), `job-<id>.stop` files | create, start, checkpoint, settle; cancel, pause, resume; reap | finished rows stay finished; a recorded stop ends the run; no row is active with nobody to settle it; no request outlives its run |
| Pipeline (`quickstart.py`, `reuse.py`) | a root job and a stage job at a time, the stage tables of the newest run | begin a stage, run it or reuse an earlier one, narrow content analysis to what changed | a stopped run starts no stage; reuse and narrowing skip only work already done; no table is of an older run |
| Scanner, walk (`scanner.py`) | the stack or the deque and readers, a batch, `filesystem_entries`, `frontier_json`, the run's status | take, stage, flush, park, interrupt, resume | nothing is missing from a COMPLETE run, wherever it was interrupted |
| Scanner, epilogue (`scanner.py`) | change records, copied signatures and links, the current-run pointers and views | link parents, classify, copy forward, find the missing, detect moves | the current inventory is the newest complete one; identity is copied only to unchanged files; decisions on changed files are stale |
| Database (`database.py`) | the single write lock, schema, views | retention plan, prune, purge, backup, migrations | pruning spares what decisions, sessions and the current inventory need |
| Identity (`core/identity.py`, `hashing.py`) | candidates, batches, signatures, content objects | hash in parallel, link, sign; rerun orphaned followers | each candidate gets the digest of a whole read or is counted as an error |
| Parser pool (`analysers/parser_pool.py`) | a process pool shared by submitter threads | run with a time-out, restart, retry, close | nobody destroys a replacement pool; the stage ends whatever hangs |
| Acceleration (`acceleration/`) | a helper process, requests and responses | request, time out, fall back | same answers as the Python backend |
| Review mover (`review_mover.py`, `restore.py`) | the drives, the review folder, transaction manifests, `move_transactions` | move, restore | no file is lost; a last copy is not moved; each move is recorded |
| Decisions and manifests (`review/`, `manifests.py`) | sessions, decisions and their history, snapshots | record, preview, apply, override, mark stale, lock, validate, export | one current decision per target, replaced by no one who has not seen it; an apply writes what was previewed; a manifest leaves a copy and approves no protected file |
| Policies, roles (`policies.py`, `canonical/`) | classifications, role assignments, overrides | classify, assign | protected files are never candidates; an override is kept |
| Dashboard (`dashboard/`) | one background operation and its status | submit, resume, poll, control clicks | one operation at a time; the status tells what happened |
| Analysers, reports, graph, learning | derived tables | recompute | functions of the inventory |

The parts meet in four places: the `jobs` row and the stop file (dashboard threads,
command lines, the worker and the reaper all write them); the SQLite write lock (a
worker in a transaction makes a click fall back to the file); `filesystem_entries`
and the current-run pointers (every analyser and every review step reads what a scan
wrote); and the drive itself (the mover, the scanner and the user).

### What is hard here

Requests race the worker through two channels that are written one after the other
and cleared one after the other; processes die between any two of those writes and a
reaper repairs the rows later. A scan lasts days and is stopped, killed and resumed,
under another traversal mode, from a frontier stored with each batch. Moves write two
drives, a manifest and a database without a common transaction. The
hazards of `PROJECT.json` list these one by one.

## 2. Modules

| Module | What it is |
|---|---|
| `JobControl` | the job control plane: worker, clickers, reaper, process death |
| `StopContract` | what it promises the user of one run; `JobControl` is checked to implement it |
| `ScanWalk`, `MCScanWalk` | the walk of one scan run; a small tree for TLC |
| `ReviewMove`, `MCReviewMove` | moves and restores; two small drives for TLC |
| `Inventory` | the scan runs of one source: the diff, the current run, identity, decisions, prune and purge |
| `Stages` | every stage after the scan, as what it reads and leaves for the run in scope |
| `Pipeline` | quickstarts and the other operations of the runner over `Stages`: fingerprints, reuse, narrowing, stops, deaths |
| `ContentIdentity`, `ParserPool` | parallel hashing of the files; the parser processes and their submitters |
| `ContentStage`, `MCContentStage` | the content-analysis stage, composed of these two; three files for TLC |
| `Policies` | the policy engine, as operators |
| `ReviewSession` | a review session over one group of identical files; extends `Policies` |
| `JobControlProofs`, `ScanWalkProofs`, `ReviewMoveProofs`, `InventoryProofs`, `PoliciesProofs`, `PipelineProofs`, `ContentStageProofs`, `ReviewSessionProofs` | the theorems and their proofs |

Operators under a comment that starts with `Fault:` are not part of a model: each is
a definition as a plausible bug would change it, and each property is known to fail
when its definition is replaced by one of them (`mutants` in `PROJECT.json`).

### JobControl

One run: the root job 0 and its stages `1..NStages`, run in order by one worker
(`NStages = 0` is a standalone job). `status`, `owner` and `file` are the columns
`status` and `process_id` and the stop file of each job; `txn` says that the worker's
connection holds the write lock. `pc`, `cur`, `target` and `phase` are the position of
the worker in `tracked_job`, `check_cancelled` and `update_job`: a status is committed
by `WriteRow`, its file removed by `ClearFile`, and what is raised next follows from
`phase`. A check settles a job's row, its own `tracked_job` settles it again, and the
root's `tracked_job` settles the root. `Clickers` are dashboard threads or other command
lines, each step of `_request_control` being an action: the status read (`Click`), the
file read (`CheckFile`), the file write, and the guarded UPDATE, which succeeds, finds
the run finished, or finds the lock held past `CONTROL_BUSY_TIMEOUT_MS` (`Busy`).
`pipeline_root` is why every click is at the root. `Judge` is the SELECT and the pid
test of `reconcile_stale_jobs`, `Reap` its write. The jobs in `Scans` are run by
`DriveScanner.scan`, which settles its row on success, leaves an error to the root and, after a
run of read errors, parks itself without being asked to (`ErrorStorm`, where `Breaker` is set, as
the configuration has it by default). `Interrupt` is Ctrl-C wherever `tracked_job` has its handler
installed and none of its own handlers at work; one that comes while it settles a row already
raises there and leaves the row to the reaper, like a death.
COMPLETED stands for COMPLETED_WITH_ERRORS too. All processes are on one host, so the
heartbeat rule never decides.

### StopContract

Three steps: a run starts, may be asked to stop, and is over. An ask is not dropped
and, by its fairness, ends the run. `ImplementsContract` maps a root row to a run
(terminal or PAUSED: over; RUNNING and the stopping states: going) and a cancel in
either channel to an ask. The run starts at RUNNING: until then a request may be
cleared together with the file of an earlier holder of the id (`jobs.py:131-136`).

### ScanWalk

`rows`, `saved` and `run` are durable: the rows of the run, `frontier_json` and
`status`. The rest is the memory of one attempt. `workers = 1` is the serial walk, in
which a directory's subdirectories are pushed as they are staged and the frontier is
the one captured when it was popped; otherwise the parallel walk, with its readers
(`inflight`), the directories staged since the last flush (`unflushed`) and children
queued at the end of their directory. `StageRow` flushes a full batch and, with it,
the frontier, as NULL when longer than `FrontierMax`. A resume reads the frontier, or
starts from the root without one. `DirectoryFails` and `EntryFails` are read errors;
`Park` is the breaker. `streak`, `skipped` and `stormed` are history variables: which
directories were passed over, and whether in the spell of errors that parked the scan.
Sets stand for stacks and queues, so every order of the walk is allowed. The tree
stays as it is while a run is open; exclusions, the cycle guard and
`stay_on_filesystem` decide which nodes are in `Dirs` and are not modelled further.

### ReviewMove

`disk` gives the content of each path, on the drives (`Files`) and under the review
root (`Place[f]`; two files of one relative path share a place). `log` is what each
transaction manifest says was MOVED. Two files of one place may hold the same content (`Twins`),
as the backups of one file on two drives do. An operator is a process that runs one command:
per record it asks whether the way is clear (`Take`), copies (`CopyBegin` truncates
the destination, `CopyEnd`, `CopyFails` or `CopyCorrupted` follow), verifies, unlinks
and records. The preflight of a move (`Survives`) looks at the recorded copies in all
snapshots. `Crash` keeps any part of the buffered manifest; `Edit` is the user. An
error ends a restore and only fails the file of a move, as in the code.

### Inventory

`status`, `prior`, `rows`, `change`, `missing`, `link` and `saved` are what the database
has of each scan run of one source; `latest` and `summary` are what names the current
one. A file is its path, and a version is its stat tuple and its bytes at once: every
rewrite gives a path a greater version, and `Unread` is the row of an entry whose stat failed
(`scan_status` ERROR), which `Classify` calls an ERROR and no identity is copied to. `pc`, `run` and `todo` are the one
scanner's place: the walk (whose paths come in any order, since `ScanWalk` is about
how they are reached), then the statements of the epilogue, each over the entries it has
left. Every window of `execute_windowed` commits, so a window is a path here, and
`Die` may end the scan between any two of them (`Interrupt` is the stop the walk
honours, which alone sets INTERRUPTED; a stop in the epilogue raises like a death and leaves the run as it is).
`Resume` takes up the newest run with the frontier it has, `Start` makes the next. `Publish`
is the one transaction that makes a run COMPLETE and current. `Identify`, `Decide`,
`PlanPrune`, `Prune` and `Purge` happen at any time, also under a scan at work. `Prune`
is undone when a row that stays still refers to a run of the plan, as the foreign keys of the schema
have it: the content objects and summaries, which are modelled (`Referenced`), and, where `Analysed`,
a project's root or a canonical role, which may name any of its entries (`MayBeNamed`); `Fail` is the scan whose run was deleted.

Four history variables name the cases a property leaves out: `blurred`, the entries whose path
had changed when a resumed walk recorded it again after the diff had judged it; `tainted`, those
whose copied identity was there when their row was rewritten, and what was copied from them;
`late`, decisions made between the marking of stale ones and the publication; `raced`,
decisions on a run that a prune had already chosen. `VerifiedMeansThisFile` and
`PruneDeletes` are stated without any. Signatures are not a variable: the statement that copies
them ends before that which copies the links begins, and every link has one, so a stop between the
two leaves signatures that nothing but `core/identity.py` reads.

### Stages and Pipeline

`Stages` reduces each analyser to its dataflow. Content-keyed tables outlive a run:
`linked` (contents with an identity), `parsed` (with a COMPLETED artifact) and `saw` (what
each similarity stage has taken into account). Entry-keyed tables are of one run: `made`
holds the stages whose output covers the newest run and rests on tables that do too, and
`Rebuild(s, reads)` names what a stage reads. `CutShort` is what a stop, an exception or a
death inside a stage leaves: nothing, identities that were committed on the way, a table
that was emptied and not filled again, some artifacts.

`Pipeline` runs them. `Submit` and `Enqueue` are the two halves of
`OperationRunner.submit`, whose lock covers only the first; `Take`, `Scan`, `Skip`,
`RunStage`, `RunContentAnalysis`, `PurgeRuns`, `EndOp` and `Close` are the worker thread.
`mode` holds the two decisions a quickstart takes after its scan: `incremental` (stages may
be reused) and `narrow` (content analysis keeps to what the change records name), and the
snapshot token, the newest run that recorded a change. `done` is the set of COMPLETED jobs
a fingerprint can find. The configuration is taken to be the same throughout, so it is not
in the fingerprint. Files are edited between operations. `served` and `failed` are history.
A stop, a pause, a failure and a death end a quickstart in states nothing tells apart
(`prev = "stopped"`); what they do to job rows is in `JobControl`.

### ContentIdentity, ParserPool and ContentStage

`hashing[t]` is what a hash thread is at: the unit (a representative and the other paths of
its inode), the backend, and the version its first stat saw. Between the two stats the file
may be rewritten (`Edit`); the digest of a read it was rewritten under is `Torn`. The native backend may die, hang or
answer out of turn, which is one step (`BackendFails`): Python reads from the beginning and
the thread never asks the backend again. The caller alone writes (`TakeResult`), commits
every `BatchSize` results (`links` against `committed`) and hashes the followers of failed
representatives alone (`HashOrphans`).

A submitter goes through `ParserPool.run` step by step (`sub[s].at`): `_ensure_pool`,
`apply_async`, the wait, and the two halves of `_restart`, of which only the first is under the
lock, so pools are numbered. A parser that falls silent makes its submitter time out; so does
a task on a pool that was terminated under it, and a submit to such a pool is retried once.
`isolated = FALSE` is the platform without a safe start method. `ContentStage` puts the two in
sequence, with the work plan between them, `check_cancelled`, the executors that are left
only when their units are done (`Drop`), `close`, which joins, and death.

### Policies

Rule files, conditions and the verdict as pure operators. The facts of a file are a set of
flags, one per test a condition makes, and the size of its group. A rule is its condition,
classification and confidence; `Winner` is the `min` of `resolve_rule_conflicts`, ties included.

### ReviewSession

One session over one group. Entries are pairs of a file and a scan run, as every scan writes
new rows. `rows` is `review_decisions`, whose uniqueness over (session, target, current) is
`KeepsUnique`, and `draft` the same table as the dashboard's connection sees it, with what it has
not committed (`held`). A decision is a read (`ReadDecision`: the checks and the current row) and a
transaction that opens with the first write, since another connection can commit between them. For a
command the transaction is one step (`WriteDecision`). The threads of the dashboard share one
connection and no lock, so theirs is two (`Retire`, `Insert`), each on the common `draft`, and
whoever commits, commits it all (`Commit`); an `IntegrityError` leaves the connection in the
transaction, which locks out every other process until a thread commits, a poll of the jobs page at
the latest (`Poll`), or the dashboard ends and undoes it (`DashboardEnds`). A command takes its
connection along. An entry may be decided about as long as it exists, of whichever run it is.
`shown` is the preview on a user's page; `Apply` derives the plan again, compares fingerprints and
queues the decisions, the keeper's first; `Cut` ends a request between two of them. `Rescan`,
`GroupingBegins`, `GroupingEnds`, `ClassifyBegins` and `ClassifyBatch` are the worker process, in any
order and number, so every interleaving of its operations with the users is there. A grouping reads
the overrides when it begins and writes the group later: an override in between is lost to that grouping
(`basis`). `VerdictOf` asks `Policies`. The snapshot of an export (`Seal`) and the status that follows
it (`Export`) are two transactions; the counts of artifacts in the snapshot's digest are a choice
of `Seal` to accept a second one. `manifest` holds the approved rows of a manifest from its making to the snapshot.

## 3. Runs

| Run | Question | Properties |
|---|---|---|
| `jobs_cancel` | cancels from two places and Ctrl-C against a pipeline without a scan (`analyse-all`) | `TerminalIsFinal`, `NoPhantomRun`, `ImplementsContract` |
| `jobs_pause` | pauses, cancels, Ctrl-C, resume and a scan that parks itself against a pipeline of a scan and a tracked stage | `WorkerLetsGo`, `StageHasWorker`, `NoLeftoverRequest`, `TypeOK` |
| `scan_walk` | interruptions, deaths, failed reads and resumes, in both modes | `FrontierCovers`, `CompleteMeansRecorded`, `EventuallyComplete`, `TypeOK` |
| `review_move` | moves and restores with edits, failures and deaths | `NothingLost`, `LastCopyStays`, `TypeOK` |
| `inventory` | scans, stops, resumes, identity, decisions, prunes and a purge over one source | `CurrentIsNewestComplete`, `CurrentIsFrozen`, `ChangesAreTrue`, `IdentityIsNotOlder`, `OutdatedDecisionsAreStale`, `DecidedEntriesStay`, `TypeOK` |
| `pipeline` | quickstarts, full ones, single operations, purges, stops and deaths over files that change | `NothingOwed`, `ReusedStagesSaw`, `EndedRunIsWhole`, `FinishedStagesAreNotRedone`, `OneAtATime`, `RunnerFreesItself`, `TypeOK` |
| `content` | two runs of the content stage with rewrites, failing reads and backends, silent parsers, stops and deaths | `LinksAreOfWholeReads`, `NothingDroppedSilently`, `OnlyPoisonedPoolsDie`, `ResultsStay`, `StageEnds`, `TypeOK` |
| `review` | a thread of the dashboard and a command that preview, apply, decide, override, lock and export over two scans, against rescans, groupings and classifications | `NoBlindOverwrite`, `DecidedStaysDecided`, `WizardWritesWhatWasShown`, `WizardLeavesAKeeper`, `ManifestLeavesACopy`, `TypeOK` |
| `review_survivor`, `inventory_prune`, `pipeline_stale`, `review_protected` | each shows one statement of the repository that the code does not keep (section 5) | `LastCopyStays`, `PruneDeletes`, `NothingOwed`, `ProtectedStaysOut` |

Deadlock checking is off: a run that is over, a completed scan and an idle operator
have nothing more to do; so have a pipeline, a stage and a session whose bound is used up.

**Bounds.** Two clickers, because a request interferes with one other request: with the
worker, the reaper and Ctrl-C beside them, every pair of writers of a row is there. Two
stages, because a stage interacts with the root and with the boundary to the
next stage only; `Scans = {}` in `jobs_cancel`, because a scan that parks itself breaks its properties (section 5). One process: its death with the worker in it and a reaper elsewhere is
the case the reaper is for. Rows settle once per run, so the state space is finite
without a counter. The scanned tree is a root without
files over a directory with a file and one with a file and a subdirectory; `BatchSize = 2` flushes both in
the middle and at the end of a directory; `FrontierMax = 2` makes the frontier both
storable and too long; `ErrorLimit = 2` trips after one directory has been passed over;
`MaxTrouble = 3` allows a failed read, an interruption and a death in one behaviour. The drives hold a
file, its duplicate, and on each of two other drives a file with the first one's relative path, both of
one other content; two transactions allow a move, a restore and a second move; `MaxTrouble` bounds edits,
failures and deaths together. The inventory has one path: each property is about one path, and
other paths only add boundaries between windows, which `Die` has anyway before and after
each statement, and runs held for their sake. Three runs are a run at work, the one it is
compared with and one to prune; `Keep = 1` and one decision let a prune find it; two versions,
deletions and failed stats make a path new, changed, unchanged, unreadable and missing; `Analysed` is FALSE in
`inventory_prune`, which is about the content objects alone; `MaxTrouble = 1` is one stop, death or purge.

`pipeline` has three operations: one to leave something behind, one to be stopped on it, one
to build on both; the last is let run to its end. Three complete runs let each of them scan.
Two files are one that changes and one that does not, whose stage may be reused; one failing
content tells a stage that completed from one that counted an error. A plain scan of the command
line counts as an operation and comes only first in `pipeline`; `pipeline_stale` allows it between
quickstarts too, where it violates `NothingOwed`. `content` has two
hard-linked paths, so a representative with a follower, and a third file of the same content,
so two units race for one content object and one object has several paths; two hash threads
and two submitters; batches of two, so that something is always uncommitted; two silent
parsers, so that the replacement pool can be poisoned too; two runs of the stage, so that the
second finds what the first left. `review` has two users of different kinds (a thread, which shares a
connection, and a command, which does not), two requests, enough for two applies or for a decision of each,
and an export after them; two scans, so that an entry can be outdated and a group made anew; one
protected and one kept file. It has one thread, because with two its properties fail (section 5).

**Fairness.** `JobControl` is fair to the worker's control steps (`Proceed`: a thread that
is scheduled) and to the reaper (every dashboard page load runs it). It is not fair to
users, to process death, nor to the end of a leaf's body, which may take days: a stop has
to be honoured at a checkpoint. `Poll` is in `Proceed` because analysers call `checkpoint`
per item. `ScanWalk` is fair to the walk as a whole, which includes starting an unfinished
run again: `EventuallyComplete` says what happens *if* somebody does, after the bounded
trouble is over. `Pipeline` is fair to the worker thread (`Work`) and to a web thread that
holds an accepted operation (`Enqueue`): both are threads the interpreter schedules.
`ContentStage` is fair to every thread of the stage and to the caller, and to time-outs, which
are the clock's; not to users, rewrites, failures, nor to an answer a silent parser owes.
A read of a file is taken to end. `ReviewMove`, `Inventory` and `ReviewSession` state safety only.

## 4. Theorems

Every invariant and every action property of a passing run is proved, for every value of the
constants that satisfies the ASSUMEs of the module and the hypotheses named here. Each hypothesis
is one the property needs: section 5 or the text below says what happens without it.

* `JobControlProofs`: `TypeCorrect`; `StagesAreSettled` (`StageHasWorker`) from the
  invariant `StageInv`: the stage the worker is in is owned by the worker's process, a
  stage about to be inserted has no live row, and a stage about to be left is settled;
  `SettledRunStartsNoStage` (`NoStageAfterRootSettles`, which `JobsPause.cfg` can be given too), from the invariant `EndInv` (a root that
  is a scan of its own has no stages): whatever settles the root row or is about to (the worker's own handler,
  a cancel that has read PAUSED, a reaper's verdict) finds the worker gone or on its way
  out of the root. `NoRequestIsLeft` (`NoLeftoverRequest`) adds `LockInv`, that the worker never lets
  go of the run inside a transaction, so a request turned away by the lock is left to a worker that
  clears the file. It sets aside a standalone scan that is resumed (`NoScanResumed`): one that a stale
  cancel settles and that then fails leaves the file of a request that was turned away.
  `TerminalStageRowsStay` keeps the rows of stages terminal whatever the users do, from `StageRowInv`:
  a stage's row has two writers, the worker in it and the reaper once its process is dead. What the
  reaper has judged is still active, and so is what the worker is to end, unless it already has that status.
  Under `StopsOnly` (cancels and Ctrl-C, no pause, no resume, and no scan where the breaker is set):
  a resume leaves a terminal state on purpose, and a click that waited for the lock undoes a pause,
  be it a user's or a scan's own (section 5). `NoPhantomRun` and `ImplementsContract` fail then; so does
  `TerminalIsFinal`, once a second cancel that had read PAUSED writes CANCELLED over the
  INTERRUPTED that the reaper made of the phantom.
  Proved under it: `TerminalRowsStay` (`TerminalIsFinal`), `ActiveRunsAreHeld` (`NoPhantomRun`, for a root that is
  no scan, since a scan that fails leaves its row to a root above it) and `StopContractIsKept`, that
  every step of the control plane is a step of `StopContract` or none. Their invariant `StopInv`
  adds to `EndInv` that nothing the worker can see pauses (`QuietInv`: a leftover PAUSING file
  is dropped before the first poll) and, in `FinalInv`, whose row the worker writes: a row
  the reaper has judged is active and its process dead, and a worker about to write a
  terminal row finds it active or as it is about to write it. The refinement rests on `Onward`: the root's
  row only moves on, and nothing but its end drops a recorded cancel.
* `ScanWalkProofs`: `InvariantHolds`, `TypeCorrect`, `ResumeLosesNothing`
  (`FrontierCovers`) and `CompleteRunIsComplete` (`CompleteMeansRecorded`), for any
  tree. `FrontierCovers` is not inductive: the next frontier is made from memory. The
  invariant adds that what is in memory covers everything not durable: the rows and the
  batch together with the queued, in-flight, unflushed and current directories
  (`WalkCovers`), the shape of the memory in each mode (`Shape`), and for the directory
  at hand, that its staged part is in the batch, in the rows or queued (`StageInv`). Two
  lemmas carry the argument: replacing a directory by its listed subdirectories keeps a
  cover, and a larger set of rows or directories does. They rest on `TreeAssumption`.
* `ReviewMoveProofs`: `TypeCorrect`; `MovesLoseNothing` (`NothingLost`) under
  `OneAtATime`, one command at a time: two that find the destination free both copy to it
  (`review_mover.py:106`). Files that share a place may hold the same content or not. The
  invariant says of a file and its twins that at most one of them is away from its drive and, if
  one is, that the copy under the review root is intact (`OneAway`, `Safe`); that while a copy is
  under way the place it is made from is intact, and that it is verified before the unlink.
  `NothingLost` speaks of files that no user changed, nor a twin of theirs. With a changed twin it
  is false (section 5). `LastCopyIsKept` (`LastCopyStays`) under `OneAtATime`, since of two moves each counts
  the other's file as its survivor, and `OneSnapshot`: for each planned entry of a running move some
  copy outside the plan is on disk. Without `OneSnapshot` it is false (run `review_survivor`).
* `InventoryProofs`: `TypeCorrect`; `NewestIsCurrent` (`CurrentIsNewestComplete`) and
  `CurrentStaysFrozen` (`CurrentIsFrozen`) from `CurrentInv`, which adds that a run at work is
  newer than every complete one: so publishing moves the pointer forwards, and what the
  walk writes is never current; a prune that deletes spares what `latest` refers to. `DecidedStay`
  (`DecidedEntriesStay`) adds that no run of a plan is one decided on before it.
  `IdentityNotOlder` (`IdentityIsNotOlder`) adds that rows hold versions the file has had.
  `OutdatedAreStale` (`OutdatedDecisionsAreStale`) adds, statement by statement, that a run at
  work is compared with the current one unless it was deleted (`ComparedInv`), that every
  vanished path has its record before the marking (`MissingInv`), and what the marking leaves
  (`MarkedInv`). `RecordsAreTrue` (`ChangesAreTrue`) needs what is true of a run before it is
  complete, over several attempts: a run newer than every complete one has records only against
  the current run, and right ones (`LiveInv`); what each statement has reached so far is
  judged (`SweepInv`); the run at work is the newest (`NewestInv`), a deleted one has left
  nothing (`GoneInv`), and a complete one was compared with an older one (`PriorInv`).
* `PipelineProofs`: `TypeCorrect`, which needs what each step of an operation has left to do
  (`TodoInv`) and the room its submission was granted; `OperationsRunOneAtATime` (`OneAtATime`, from
  `RunnerInv`: the runner is busy exactly while an accepted operation is before its end);
  `ReusableStagesAreNotRedone` (`FinishedStagesAreNotRedone`) adds whose token a
  quickstart carries (`ModeInv`) and that the change records number the snapshots, so that a stage served
  on the current one has its job under the current token (`TokenInv`); `EndedRunsAreWhole` (`EndedRunIsWhole`)
  adds that the tables of the stages a quickstart has passed are of its run (`MadeInv`).
  `NothingIsOwed` (`NothingOwed`, from `DebtInv`: after a completed quickstart, and wherever a
  job of the current token stands for one, every content has its artifact or failed, and what a narrowing one has yet
  to parse is among the files the change record names) and `ReusedStagesAreTrue` (`ReusedStagesSaw`, from
  `SeenInv`) are under `PlainScans = FALSE`: a plain scan between quickstarts breaks the
  first (run `pipeline_stale`).
* `ContentStageProofs`: `TypeCorrect`, `LinksAreWhole` (`LinksAreOfWholeReads`), `LivePoolsAreSpared`
  (`OnlyPoisonedPoolsDie`), `EverythingIsAccountedFor` (`NothingDroppedSilently`) and `CommittedResultsStay`
  (`ResultsStay`), all from one invariant, `StageInv` (`StageCorrect`). None of them is inductive: what is
  dropped silently depends on where every file is (waiting, in a thread's hand, among
  the results, linked, counted, or a follower of a representative that failed), every unit of
  the work plan likewise, and a pool is live for a submitter as long as its number is
  the current one.
* `ReviewSessionProofs`: `TypeCorrect` and `WhatWasShownIsRecorded` (`WizardWritesWhatWasShown`) for
  any number of threads and commands, from `ReviewInv` (`ReviewCorrect`): of each target there are no, one or
  two rows, as committed and as the dashboard sees them, and what a user has still to record is of the
  plan the page shows, one keeper and the other copies of one scan.
  The others are under `OneThread`, a dashboard that works on one request at a time, and any number of
  commands: without it each is false (section 5). `NothingIsOverwrittenUnseen` (`NoBlindOverwrite`) and
  `NothingIsHalved` (`DecidedStaysDecided`) rest on `SingleCorrect`: with one thread, what is not committed
  is the row the thread has retired, and it is the one about to insert. `AKeeperIsLeft`
  (`WizardLeavesAKeeper`) and `ManifestsLeaveACopy` (`ManifestLeavesACopy`) rest on `KeeperCorrect`: of the copies
  of each scan one is spared or decided by hand, also while an apply is half-way.

* `PoliciesProofs`: under the built-in rules, for every combination of facts,
  `FailedIsError` (a failed scan or analysis is ERROR) and `ProtectedIsNeverReviewed` (a
  protected signal gives PROTECTED or ERROR, whatever other rules match). They rest on
  `BuiltInRanks`, the rank of each rule, and `Outranks`: a matching rule more protective than
  all others is the winner. The rules of `config/cleanup_rules.yaml`, which take precedence
  where they are found, are the same eight; for other rule files neither holds (section 5).

The provers do not handle liveness, so `WorkerLetsGo`, `EventuallyComplete`,
`RunnerFreesItself`, `StageEnds` and the contract's fairness (`ImplementsContract` asks for both) are
model-checked only.

## 5. What the code does not keep

Shown by a run:

1. **An old snapshot's row of the same file counts as a survivor** (`review_survivor`,
   `review_mover.py:54-73`).
2. **A prune deletes nothing once a superseded run created a content object**
   (`inventory_prune`, `database.py:986`): `created_by_scan_run_id` still refers to it.
3. **Narrowing skips what a plain scan saw change** (`pipeline_stale`,
   `quickstart.py:327`). The change record of a `housekeeper scan` between two quickstarts is not that of the newest run, so the
   second one narrows to nothing, COMPLETES without the artifact, and is reused from then on.
4. **An approval outlives the verdict that forbids it** (`review_protected`,
   `review/decisions.py:60`). Before the first classification an approval passes; the later
   PROTECTED neither refuses nor stales it, and the manifest approves the file.

Stated in a module and violated by its model, outside the runs; change the cfg as named to see it:

5. **A run that was parked can be resurrected** (`NoPhantomRun` in `JobsPause.cfg`, `jobs.py:84-88`). The guard of
   the request's UPDATE excludes the terminal states and not PAUSED. A cancel that had read RUNNING
   turns a run whose scan has just parked itself after a run of read errors (`scanner.py:497-507`), or one that a
   user's pause has settled while the cancel or a second pause waited for the write lock, into CANCELLING or
   PAUSING, with no worker left and a live process, which the reaper spares.
6. **Two requests of the dashboard halve a decision** (`DecidedStaysDecided` in `ReviewSession.cfg` with two
   `Threads`, `review/decisions.py:69-77`). They share a connection and no lock, so one commits the other's
   UPDATE; when the INSERT then fails or never comes, the target has rows and no current decision.
   `NoBlindOverwrite` fails in the same way: the first INSERT replaces a row it had never read.
7. **A parked scan does not resume all of itself** (`ParkedScanResumesFully` in
   `ScanWalk.cfg`, `scanner.py:443-449`). The directories whose reads failed before the breaker tripped are in no frontier.
8. **A moved file may be recorded nowhere** (`MovesAreRecorded` of `ReviewMove` in `ReviewMove.cfg`, `review_mover.py:114-141`).
9. **A resumed scan keeps a copied identity** (`VerifiedMeansThisFile` in `Inventory.cfg`,
   `scanner.py:871`). A file rewritten between a stop after the copy-forward and the resume keeps the verified
   link to its earlier content, and counts as a duplicate of what it no longer is.
10. **Two applies at once approve a whole group** (`WizardLeavesAKeeper` in `ReviewSession.cfg` with two
   `Threads`, `review/wizard.py:259-283`). The decisions of an apply are recorded one by one, so two
   with different rules, each of which spares its keeper, approve each other's, and a manifest of them
   leaves no copy; the mover's check of a surviving copy is what is left.
11. **A second restore takes a twin's copy** (`NothingLost` with `f \notin touched` for `Unchanged(f)`,
   `restore.py:56-71`). A file is moved and restored; its twin of another drive, with the same relative path and content,
   is moved to the same place; the user deletes the first. Restoring the first transaction
   again finds its hash under the review root and carries the twin's copy to the first drive: the twin is in neither
   of its places, and its own restore has nothing to restore from.

Met while reading, and visible in the models' actions:

* `review_decisions` is unique over (session, target, current) with `current = 0` included,
  so the third decision on a target raises (`KeepsUnique`), against "Idempotent by
  construction" (`review/wizard.py:240`), and leaves the dashboard's connection in a write
  transaction. A second export of an unchanged session raises in the same way.
* `override_canonical` changes the group even of a LOCKED session, and only then is its
  decision refused; an override names an entry of one scan, so a rescan drops it, and a
  grouping that had read the overrides before it sets it aside until the next (`GroupingEnds`).
* `parser_pool.py:174-176` retries a submit that a terminated pool refuses; tasks already on
  such a pool time out with the guilty one, against the docstring on line 7.
* A lone hash failure, with nothing to parse after it, ends COMPLETED and is reused
  (`ContentAnalysisErrs`). `backup-value` reads classifications before `classify` makes them.
* `core/identity.py:140-142` bounds what an interruption loses by the batch size, but linked
  followers are not counted in a batch.
* A rule file that lists its own `rules` replaces all built-in ones, the protected-signal rule
  included, and a `priority` that omits a classification ranks it last (`Loaded`, `Rank`).

## 6. Not modelled

Of the scan epilogue, parent links and move candidates, which nothing reads back; of
retention, the baselines of review sessions and canonical overrides, which hold runs as
decisions do. Of the stages, what they compute: similarities, scores, texts, images. Of the
wizard, `keep-newest`, which picks a keeper as `keep-under` does, and the page of groups
around the one modelled. Of acceleration, the framing of messages and the server. Of
manifests, their formats and the comparison of an exported file with its snapshot. Two walkers
of one run, and two movers at a time, are outside their models. Rendering,
normalisation, chunking, the graph, learning and the benchmarks compute from the inventory and
hold no concurrent or durable state of their own. Configuration, schedules and argument parsing
are left out; so is the schema and its migrations. Paths are names, contents and hashes are one value.

## 7. Plan

1. Proofs under weaker hypotheses: of `ReviewMove`, what two operators at a time keep.
2. Lemmas about the operators of `Stages` and `ContentIdentity` that stand alone, for other proofs.
3. Models: edits of policies between classification and review, and the comparison of a
   manifest with its snapshot at the mover's door.

To check everything: `tlc -config X.cfg M` for each run of `PROJECT.json`, and
`tlapm M.tla` for each module of proofs.
