----------------------------- MODULE ScanWalk -----------------------------
(* The directory walk of src/src/housekeeper/scanner.py for one scan run: the
   serial walk, the parallel one, the batches that make rows durable, the
   resume frontier persisted with them, interruption, process death, resume,
   and the breaker that parks the scan of a drive that stopped answering.

   The tree does not change while the run is open.  A set stands for the stack,
   the deque and each frontier list: any order of the walk is allowed.  Only
   directories the walk may descend into are in Dirs, so exclusions, the cycle
   guard and stay_on_filesystem are already applied to Dirs and Children.    *)
EXTENDS Naturals, FiniteSets

CONSTANTS
    Nodes,         \* the root and every entry under it
    Dirs,          \* the nodes that are directories to descend into
    Top,           \* the source root
    Children,      \* the entries listed in each directory
    Above,         \* the directories strictly above each node
    BatchSize,     \* scanner.batch_size
    FrontierMax,   \* FRONTIER_MAX_DIRECTORIES
    ErrorLimit,    \* scanner.pause_after_consecutive_errors; 0: no breaker
    WorkerCounts,  \* traversal_workers the storage profiles give
    MaxTrouble     \* bound: interruptions, deaths and failed reads of a behaviour

NoDir == "no directory"

ASSUME TreeAssumption ==
    /\ Top \in Dirs /\ Dirs \subseteq Nodes /\ NoDir \notin Nodes
    /\ Children \in [Dirs -> SUBSET (Nodes \ {Top})]
    /\ Above \in [Nodes -> SUBSET Dirs]
    /\ \A n \in Nodes \ {Top} : Top \in Above[n]
    \* What lies below a directory is listed in it or below a directory listed in it.
    /\ \A n \in Nodes : \A d \in Above[n] :
         n \in Children[d] \/ \E c \in Children[d] \cap Dirs : c \in Above[n]
    \* What lies below a listed directory lies below the one that lists it.
    /\ \A n \in Nodes : \A d \in Dirs : \A c \in Children[d] :
         c \in Above[n] => d \in Above[n]

ASSUME BoundsAssumption ==
    /\ BatchSize \in Nat \ {0}
    /\ FrontierMax \in Nat /\ ErrorLimit \in Nat /\ MaxTrouble \in Nat
    /\ WorkerCounts \subseteq Nat \ {0}

Null == {}             \* frontier_json IS NULL, as an empty list is stored

VARIABLES
    rows,       \* durable: entries of the run in filesystem_entries
    saved,      \* durable: scan_runs.frontier_json
    run,        \* durable: scan_runs.status, "NONE" before the first attempt
    pc,         \* "down": no process walks; "walk"; "stage"; "epilogue"
    workers,    \* traversal_workers of this attempt
    pending,    \* directories queued
    inflight,   \* directories handed to the readers of a parallel walk
    unflushed,  \* directories staged since the last flush (parallel)
    current,    \* the directory being staged
    todo,       \* its entries not yet staged
    kids,       \* its subdirectories found so far (parallel)
    batch,      \* entries staged and not yet flushed
    captured,   \* the frontier taken when current was popped (serial)
    errors,     \* consecutive_errors
    streak,     \* history: directories passed over in the present run of errors
    skipped,    \* history: directories passed over for good, with the walk going on
    stormed,    \* history: directories passed over in a run of errors that parked the scan
    trouble     \* history: interruptions, deaths and failed reads so far

durable == <<rows, saved, run>>
walkVars == <<pending, inflight, unflushed, current, todo, kids, batch, captured, errors>>
lost == <<streak, skipped, stormed>>
vars == <<durable, pc, workers, walkVars, lost, trouble>>

TypeOK ==
    /\ rows \subseteq Nodes /\ batch \subseteq Nodes /\ todo \subseteq Nodes
    /\ saved \subseteq Dirs /\ pending \subseteq Dirs /\ inflight \subseteq Dirs
    /\ unflushed \subseteq Dirs /\ kids \subseteq Dirs /\ captured \subseteq Dirs
    /\ current \in Dirs \cup {NoDir}
    /\ run \in {"NONE", "RUNNING", "INTERRUPTED", "COMPLETE"}
    /\ pc \in {"down", "walk", "stage", "epilogue"}
    /\ workers \in Nat \ {0} /\ errors \in Nat /\ trouble \in Nat
    /\ streak \subseteq Dirs /\ skipped \subseteq Dirs /\ stormed \subseteq Dirs

Forget ==
    /\ pending' = {} /\ inflight' = {} /\ unflushed' = {} /\ current' = NoDir
    /\ todo' = {} /\ kids' = {} /\ batch' = {} /\ captured' = {} /\ errors' = 0

Init ==
    /\ rows = {} /\ saved = Null /\ run = "NONE"
    /\ pc = "down" /\ workers = 1
    /\ pending = {} /\ inflight = {} /\ unflushed = {} /\ current = NoDir
    /\ todo = {} /\ kids = {} /\ batch = {} /\ captured = {} /\ errors = 0
    /\ streak = {} /\ skipped = {} /\ stormed = {} /\ trouble = 0

---------------------------------------------------------------------------
Serial == workers = 1

\* Fault: the parallel frontier without the directory that is being staged.
FrontierWithoutCurrent(d) ==
    IF Serial THEN captured \ {d} ELSE pending \cup inflight \cup unflushed

\* What a flush made while d is the directory at hand records as still to walk.
Frontier(d) ==
    IF Serial THEN captured ELSE pending \cup inflight \cup unflushed \cup {d}

\* One transaction: the batch, with the entries in more, and the frontier.
Flush(more, frontier) ==
    /\ rows' = rows \cup batch \cup more
    /\ saved' = IF Cardinality(frontier) <= FrontierMax THEN frontier ELSE Null
    /\ batch' = {}

\* _pause_on_error_storm: flush, settle the job as PAUSED and raise.  The run
\* becomes INTERRUPTED.
Park(more, frontier, passed) ==
    /\ rows' = rows \cup batch \cup more
    /\ saved' = IF Cardinality(frontier) <= FrontierMax THEN frontier ELSE Null
    /\ run' = "INTERRUPTED" /\ pc' = "down"
    /\ stormed' = stormed \cup streak \cup passed /\ streak' = {}
    /\ Forget
    /\ UNCHANGED <<workers, skipped>>

Storm == ErrorLimit > 0 /\ errors + 1 >= ErrorLimit

\* Reads fail now and then, boundedly often.
Trouble == trouble < MaxTrouble /\ trouble' = trouble + 1

---------------------------------------------------------------------------
(* One attempt at the run.                                                  *)

\* Fault: a resume believes an absent frontier means nothing is left.
ResumeStackEmpty == saved

\* _resume_stack: the persisted frontier, or the root without one.
ResumeStack == IF saved = Null THEN {Top} ELSE saved

\* Fault: only a run marked INTERRUPTED is taken up again.
StartInterruptedScan ==
    /\ pc = "down" /\ run \in {"NONE", "INTERRUPTED"}
    /\ run' = IF run = "NONE" THEN "RUNNING" ELSE run
    /\ workers' \in WorkerCounts
    /\ pending' = ResumeStack
    /\ pc' = "walk"
    /\ UNCHANGED <<rows, saved, inflight, unflushed, current, todo, kids, batch, captured,
                   errors, lost, trouble>>

\* DriveScanner.scan: a new run, or the same run again when it is not COMPLETE.
StartScan ==
    /\ pc = "down" /\ run # "COMPLETE"
    /\ run' = IF run = "NONE" THEN "RUNNING" ELSE run
    /\ workers' \in WorkerCounts
    /\ pending' = ResumeStack
    /\ pc' = "walk"
    /\ UNCHANGED <<rows, saved, inflight, unflushed, current, todo, kids, batch, captured,
                   errors, lost, trouble>>

\* The parallel walk hands queued directories to its readers.
Submit(d) ==
    /\ pc = "walk" /\ ~Serial
    /\ d \in pending /\ Cardinality(inflight) < workers
    /\ pending' = pending \ {d} /\ inflight' = inflight \cup {d}
    /\ UNCHANGED <<durable, pc, workers, unflushed, current, todo, kids, batch, captured,
                   errors, lost, trouble>>

\* The next directory: popped from the stack, or a reader's finished one.
Ready(d) == d \in (IF Serial THEN pending ELSE inflight)

TakeDirectory(d) ==
    /\ pc = "walk" /\ Ready(d)
    /\ captured' = IF Serial THEN pending ELSE {}
    /\ pending' = pending \ {d} /\ inflight' = inflight \ {d}
    /\ current' = d /\ todo' = Children[d] /\ kids' = {}
    /\ pc' = "stage"
    /\ UNCHANGED <<durable, workers, unflushed, batch, errors, lost, trouble>>

\* os.scandir raises.  The directory is passed over unless the breaker trips.
DirectoryFails(d) ==
    /\ pc = "walk" /\ Ready(d) /\ Trouble
    /\ \/ /\ Storm
          /\ Park({}, IF Serial THEN pending ELSE pending \cup inflight \cup unflushed, {d})
       \/ /\ ~Storm
          /\ pending' = pending \ {d} /\ inflight' = inflight \ {d}
          /\ errors' = errors + 1
          /\ streak' = streak \cup {d}
          /\ UNCHANGED <<durable, pc, workers, unflushed, current, todo, kids, batch,
                         captured, skipped, stormed>>

\* A batch that is full is flushed with the entry that filled it.
StageRow(n) ==
    IF Cardinality(batch \cup {n}) >= BatchSize
    THEN /\ Flush({n}, Frontier(current))
         /\ unflushed' = {}
    ELSE /\ batch' = batch \cup {n}
         /\ UNCHANGED <<rows, saved, unflushed>>

\* An entry is inspected and staged; a directory is queued to be walked.
StageEntry(n) ==
    /\ pc = "stage" /\ n \in todo
    /\ todo' = todo \ {n}
    /\ StageRow(n)
    /\ errors' = 0
    /\ pending' = IF Serial THEN pending \cup ({n} \cap Dirs) ELSE pending
    /\ kids' = IF Serial THEN kids ELSE kids \cup ({n} \cap Dirs)
    /\ skipped' = skipped \cup streak /\ streak' = {}
    /\ UNCHANGED <<run, pc, workers, inflight, current, captured, stormed, trouble>>

\* inspect_entry cannot stat the entry: it is recorded as an error of unknown
\* type and, if it is a directory, not walked.
EntryFails(n) ==
    /\ pc = "stage" /\ n \in todo /\ Trouble
    /\ \/ Storm /\ Park({n}, Frontier(current), {n} \cap Dirs)
       \/ /\ ~Storm
          /\ todo' = todo \ {n}
          /\ StageRow(n)
          /\ errors' = errors + 1
          /\ streak' = streak \cup ({n} \cap Dirs)
          /\ UNCHANGED <<run, pc, workers, pending, inflight, current, kids, captured,
                         skipped, stormed>>

\* Fault: staging is cleared before the directory is noted as unflushed.
EndDirectoryCleared ==
    /\ pc = "stage" /\ todo = {}
    /\ pending' = pending \cup kids
    /\ current' = NoDir /\ kids' = {}
    /\ unflushed' = IF Serial THEN unflushed ELSE unflushed \cup {current'}
    /\ pc' = "walk"
    /\ UNCHANGED <<durable, workers, inflight, todo, batch, captured, errors, lost, trouble>>

\* The directory is fully staged: its subdirectories are queued, and in a
\* parallel walk it stays in the frontier until its rows are flushed.
EndDirectory ==
    /\ pc = "stage" /\ todo = {}
    /\ pending' = pending \cup kids
    /\ unflushed' = IF Serial THEN unflushed ELSE unflushed \cup {current}
    /\ current' = NoDir /\ kids' = {}
    /\ pc' = "walk"
    /\ UNCHANGED <<durable, workers, inflight, todo, batch, captured, errors, lost, trouble>>

\* The walk is over: the last batch, and an empty frontier, stored as NULL.
EndWalk ==
    /\ pc = "walk" /\ pending = {} /\ inflight = {}
    /\ Flush({}, Null)
    /\ pc' = "epilogue"
    /\ UNCHANGED <<run, workers, pending, inflight, unflushed, current, todo, kids, captured,
                   errors, lost, trouble>>

\* Past the set-based epilogue the run becomes the source's current inventory.
Complete ==
    /\ pc = "epilogue"
    /\ run' = "COMPLETE" /\ pc' = "down"
    /\ Forget
    /\ UNCHANGED <<rows, saved, workers, lost, trouble>>

\* A pause or cancel is honoured before a directory and after a flush.  Past
\* the walk's last flush it leaves the run's status as it was.
Interrupt ==
    /\ pc \in {"walk", "epilogue"} \/ (pc = "stage" /\ batch = {})
    /\ Trouble
    /\ run' = "INTERRUPTED" \/ (pc = "epilogue" /\ run' = run)
    /\ pc' = "down"
    /\ Forget
    /\ UNCHANGED <<rows, saved, workers, lost>>

\* The process dies.
Crash ==
    /\ pc # "down" /\ Trouble
    /\ pc' = "down"
    /\ Forget
    /\ UNCHANGED <<durable, workers, lost>>

Walk ==
    \/ StartScan \/ EndDirectory \/ EndWalk \/ Complete
    \/ \E d \in Dirs : Submit(d) \/ TakeDirectory(d)
    \/ \E n \in Nodes : StageEntry(n)

Next ==
    \/ Walk
    \/ \E d \in Dirs : DirectoryFails(d)
    \/ \E n \in Nodes : EntryFails(n)
    \/ Interrupt \/ Crash

Spec == Init /\ [][Next]_vars

\* The scan's thread is scheduled, and an unfinished run is started again.
FairSpec == Spec /\ WF_vars(Walk)

---------------------------------------------------------------------------
(* Properties.                                                              *)

PassedOver == streak \cup skipped \cup stormed

\* Every entry is among the recorded ones or below one of the directories.
Covered(recorded, directories) ==
    \A n \in Nodes \ {Top} : n \in recorded \/ Above[n] \cap directories # {}

\* Whatever the instant of a crash, every entry is in the database or lies
\* below a directory a resume walks again, or below one whose read failed.
FrontierCovers == Covered(rows, ResumeStack \cup PassedOver)

\* A COMPLETE run lacks only what lies below a directory whose read failed,
\* through any sequence of interruptions, deaths, resumes and profile changes.
CompleteMeansRecorded == run = "COMPLETE" => Covered(rows, PassedOver)

\* A scan that the breaker parked and a user resumed records what a scan of the
\* same drive without the bad spell would have recorded.
ParkedScanResumesFully == run = "COMPLETE" => Covered(rows, streak \cup skipped)

\* When trouble stops, a run that is started again gets to COMPLETE.
EventuallyComplete == <>(run = "COMPLETE")
===========================================================================
