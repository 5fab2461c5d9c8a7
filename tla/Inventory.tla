---------------------------- MODULE Inventory ----------------------------
(* The inventory of one source: the scan runs, the diff a run ends with, the
   pointer to the current run, identity and decisions recorded against entries,
   and the pruning and purging of snapshots.  Sources: scanner.py (scan, the
   epilogue), database.py (retention, purge, views), exact_duplicates.py,
   identity.py and decisions.py under src/src/housekeeper.

   A file is its path; a version is its stat tuple and its bytes at once: every
   rewrite gives a path a new, greater version.  A rename is a deletion and a
   creation, so move candidates, which are evidence only, count as NEW.  How a
   walk reaches every path is ScanWalk's subject: here it visits paths in any
   order and a resumed walk visits at least those it had not.                *)
EXTENDS Integers, FiniteSets

CONSTANTS
    Paths,        \* the relative paths of the source
    Keep,         \* keep_per_source of prune_snapshots
    Analysed,     \* projects and canonical roles are derived from the entries too
    MaxVersion,   \* bound: versions of a path
    MaxRuns,      \* bound: scan run ids
    MaxDecided,   \* bound: entries decided upon
    MaxTrouble    \* bound: interruptions, deaths and purges of a behaviour

ASSUME InventoryAssumption ==
    /\ Keep \in Nat /\ MaxDecided \in Nat /\ MaxTrouble \in Nat
    /\ MaxVersion \in Nat \ {0} /\ MaxRuns \in Nat \ {0}
    /\ Analysed \in BOOLEAN

Runs == 1 .. MaxRuns
Versions == 1 .. MaxVersion
None == 0              \* no such run, row, version or link
Unread == -1           \* the row of an entry whose stat failed: scan_status ERROR, no stat tuple
Gone == "GONE"         \* the scan run has no row

VARIABLES
    disk,      \* the version of each path on the drive, None: no file
    newest,    \* the greatest version a path has had
    status,    \* scan_runs.status
    prior,     \* the run each run is compared with, None: not incremental
    rows,      \* filesystem_entries: the version recorded for a path in a run
    change,    \* scan_entry_changes of a run's own entries
    missing,   \* paths whose prior entry has a MISSING record in a run
    link,      \* verified identity of an entry: full_hash and VERIFIED link
    saved,     \* scan_runs.frontier_json, as the paths below it; Paths: NULL
    latest,    \* source_roots.latest_complete_scan_run_id
    summary,   \* materialized_summaries.source_scan_run_id
    origin,    \* content_objects.created_by_scan_run_id, by path and version
    decided,   \* entries with a current review decision
    stale,     \* those whose decision is stale
    pc,        \* the scanner: "idle", "walk", a step of the epilogue
    run,       \* its scan run
    todo,      \* what is left of the walk or of the windowed statement
    plan,      \* the runs a prune is about to delete
    trouble,   \* interruptions, deaths and purges so far
    blurred,   \* history: entries whose path changed after the diff had judged it
    tainted,   \* history: entries whose identity was copied from before such a change
    late,      \* history: entries decided on after the diff marked the stale ones
    raced      \* history: entries decided on after a prune chose their run

driveVars == <<disk, newest>>
runVars == <<status, prior, rows, change, missing, saved, blurred>>
identityVars == <<link, origin, tainted>>
pointerVars == <<latest, summary>>
reviewVars == <<decided, stale, late, raced>>
scanVars == <<pc, run, todo>>
vars == <<driveVars, runVars, identityVars, pointerVars, reviewVars, scanVars, plan, trouble>>

Entries == Runs \X Paths
Complete == {r \in Runs : status[r] = "COMPLETE"}
Known == {r \in Runs : status[r] # Gone}
IsNewest(r, S) == IF S = {} THEN r = None ELSE r \in S /\ \A s \in S : s <= r
RowsOf(r) == {p \in Paths : rows[r][p] # None}
NoRows == [p \in Paths |-> None]

DriveType ==
    disk \in [Paths -> 0 .. MaxVersion] /\ newest \in [Paths -> 0 .. MaxVersion]
RunType ==
    /\ status \in [Runs -> {Gone, "RUNNING", "INTERRUPTED", "COMPLETE"}]
    /\ prior \in [Runs -> 0 .. MaxRuns]
    /\ rows \in [Runs -> [Paths -> Unread .. MaxVersion]]
    /\ change \in [Runs -> [Paths -> {"none", "ERROR", "NEW", "UNCHANGED", "CHANGED"}]]
    /\ missing \in [Runs -> SUBSET Paths] /\ saved \in [Runs -> SUBSET Paths]
    /\ blurred \subseteq Entries
IdentityType ==
    /\ link \in [Runs -> [Paths -> 0 .. MaxVersion]]
    /\ origin \in [Paths -> [Versions -> 0 .. MaxRuns]]
    /\ tainted \subseteq Entries
PointerType == latest \in 0 .. MaxRuns /\ summary \in 0 .. MaxRuns
ReviewType ==
    /\ decided \subseteq Entries /\ stale \subseteq decided
    /\ late \subseteq Entries /\ raced \subseteq Entries
ScanType ==
    /\ pc \in {"idle", "walk", "classify", "copy", "missing", "stale", "publish", "refresh"}
    /\ run \in 0 .. MaxRuns /\ (pc # "idle" => run \in Runs)
    /\ todo \subseteq Paths
\* The diff runs only against a prior run.
DiffType == pc \in {"classify", "copy", "missing", "stale"} => prior[run] # None
BoundType == plan \subseteq Runs /\ trouble \in 0 .. MaxTrouble

TypeOK ==
    /\ DriveType /\ RunType /\ IdentityType /\ PointerType /\ ReviewType
    /\ ScanType /\ DiffType /\ BoundType

Init ==
    /\ disk \in [Paths -> {None, 1}] /\ newest = disk
    /\ status = [r \in Runs |-> Gone] /\ prior = [r \in Runs |-> None]
    /\ rows = [r \in Runs |-> NoRows] /\ link = [r \in Runs |-> NoRows]
    /\ change = [r \in Runs |-> [p \in Paths |-> "none"]]
    /\ missing = [r \in Runs |-> {}] /\ saved = [r \in Runs |-> Paths]
    /\ latest = None /\ summary = None
    /\ origin = [p \in Paths |-> [v \in Versions |-> None]]
    /\ decided = {} /\ stale = {}
    /\ pc = "idle" /\ run = None /\ todo = {}
    /\ plan = {} /\ trouble = 0
    /\ blurred = {} /\ tainted = {} /\ late = {} /\ raced = {}

---------------------------------------------------------------------------
(* The drive, used while everything else runs.                              *)

Write(p) ==
    /\ newest[p] < MaxVersion
    /\ newest' = [newest EXCEPT ![p] = @ + 1]
    /\ disk' = [disk EXCEPT ![p] = newest[p] + 1]
    /\ UNCHANGED <<runVars, identityVars, pointerVars, reviewVars, scanVars, plan, trouble>>

Delete(p) ==
    /\ disk[p] # None
    /\ disk' = [disk EXCEPT ![p] = None]
    /\ UNCHANGED <<newest, runVars, identityVars, pointerVars, reviewVars, scanVars, plan, trouble>>

---------------------------------------------------------------------------
(* A scan: DriveScanner.scan.                                               *)

\* The attempt is over and its local variables are gone.
Leave == pc' = "idle" /\ run' = None /\ todo' = {}

\* Fault: the newest run goes on even when it is complete.
ResumeAny(r) ==
    /\ pc = "idle" /\ IsNewest(r, Known)
    /\ run' = r /\ pc' = "walk"
    /\ todo' \in {T \in SUBSET Paths : saved[r] \subseteq T}
    /\ \E q \in 0 .. MaxRuns :
         IsNewest(q, Complete \ {r}) /\ prior' = [prior EXCEPT ![r] = q]
    /\ UNCHANGED <<driveVars, status, rows, change, missing, saved, blurred, identityVars,
                   pointerVars, reviewVars, plan, trouble>>

\* scan with resume: the newest run goes on unless it is complete.  Its walk
\* starts from the frontier, or from the root when that is NULL.
Resume(r) ==
    /\ pc = "idle" /\ IsNewest(r, Known) /\ status[r] # "COMPLETE"
    /\ run' = r /\ pc' = "walk"
    /\ todo' \in {T \in SUBSET Paths : saved[r] \subseteq T}
    /\ \E q \in 0 .. MaxRuns :
         IsNewest(q, Complete \ {r}) /\ prior' = [prior EXCEPT ![r] = q]
    /\ UNCHANGED <<driveVars, status, rows, change, missing, saved, blurred, identityVars,
                   pointerVars, reviewVars, plan, trouble>>

\* A new run.  The command line turns incremental off only without resume.
Start(r, resume, incremental) ==
    /\ pc = "idle" /\ IsNewest(r - 1, Known) /\ (resume => incremental)
    /\ resume /\ r # 1 => status[r - 1] = "COMPLETE"
    /\ run' = r /\ pc' = "walk" /\ todo' = Paths
    /\ status' = [status EXCEPT ![r] = "RUNNING"]
    /\ \E q \in 0 .. MaxRuns :
         /\ IsNewest(q, Complete)
         /\ prior' = [prior EXCEPT ![r] = IF incremental THEN q ELSE None]
    /\ UNCHANGED <<driveVars, rows, change, missing, saved, blurred, identityVars,
                   pointerVars, reviewVars, plan, trouble>>

\* What the diff of this run has said about a path.
Judged(r, p) == change[r][p] # "none" \/ p \in missing[r]

\* One path is read, or its stat fails, and it is upserted (_flush).  A path
\* without a file leaves any row an earlier attempt wrote.  A run deleted
\* meanwhile breaks a foreign key.
Record(p) ==
    /\ pc = "walk" /\ p \in todo /\ (disk[p] = None \/ status[run] # Gone)
    /\ todo' = todo \ {p}
    /\ \E found \in {disk[p], Unread} :
         rows' = IF disk[p] = None THEN rows ELSE [rows EXCEPT ![run][p] = found]
    /\ blurred' = IF rows' # rows /\ Judged(run, p) THEN blurred \cup {<<run, p>>} ELSE blurred
    /\ tainted' = IF rows' # rows /\ link[run][p] # None THEN tainted \cup {<<run, p>>} ELSE tainted
    /\ UNCHANGED <<driveVars, status, prior, change, missing, saved, link, origin, pointerVars, reviewVars, pc, run, plan, trouble>>

\* The epilogue's statements: each goes through its entries in committed windows.
To(step, entries) ==
    /\ pc' = step /\ todo' = entries
    /\ UNCHANGED <<driveVars, status, prior, rows, change, missing, blurred, identityVars,
                   pointerVars, reviewVars, run, plan, trouble>>

\* The walk is over and the last flush has cleared the frontier.
EndWalk ==
    /\ pc = "walk" /\ todo = {}
    /\ saved' = [saved EXCEPT ![run] = Paths]
    /\ IF prior[run] = None THEN To("publish", {}) ELSE To("classify", RowsOf(run))

\* A scan with force_rehash passes over the copy; nothing else reads it.
EndStatement ==
    /\ todo = {}
    /\ \/ pc = "classify" /\ To("copy", RowsOf(run))
       \/ pc \in {"classify", "copy"} /\ To("missing", RowsOf(prior[run]))
       \/ pc = "missing" /\ To("stale", {})
    /\ UNCHANGED saved

\* The stat tuples of both entries are the same; two failed stats have the same.
Unchanged(p) == rows[run][p] = rows[prior[run]][p]

IsFile(r, p) == rows[r][p] \notin {None, Unread}

\* What became of a path that could be read.
StatusIfRead(p) ==
    IF rows[prior[run]][p] = None THEN "NEW"
    ELSE IF Unchanged(p) THEN "UNCHANGED" ELSE "CHANGED"

\* The change status of a path that has a row in the run.
ChangeStatus(p) == IF rows[run][p] = Unread THEN "ERROR" ELSE StatusIfRead(p)

\* INSERT OR IGNORE: what an earlier attempt has recorded stands.
Classify(p) ==
    /\ pc = "classify" /\ p \in todo
    /\ todo' = todo \ {p}
    /\ change' = IF change[run][p] # "none" \/ rows[run][p] = None THEN change
                 ELSE [change EXCEPT ![run][p] = ChangeStatus(p)]
    /\ UNCHANGED <<driveVars, status, prior, rows, missing, saved, blurred, identityVars,
                   pointerVars, reviewVars, pc, run, plan, trouble>>

\* Fault: identity is copied to every file of the same path.
CopyToSamePath(p) ==
    /\ pc = "copy" /\ p \in todo
    /\ todo' = todo \ {p}
    /\ IF link[prior[run]][p] # None /\ IsFile(run, p)
       THEN /\ link' = [link EXCEPT ![run][p] = link[prior[run]][p]]
            /\ tainted' = IF <<prior[run], p>> \in tainted THEN tainted \cup {<<run, p>>}
                          ELSE tainted \ {<<run, p>>}
       ELSE UNCHANGED <<link, tainted>>
    /\ UNCHANGED <<driveVars, runVars, origin, pointerVars, reviewVars, pc, run, plan, trouble>>

\* The content link of an unchanged file is taken from its prior entry.  The
\* statement before this one has copied the signature, which every link has.
CopyForward(p) ==
    /\ pc = "copy" /\ p \in todo
    /\ todo' = todo \ {p}
    /\ IF Unchanged(p) /\ link[prior[run]][p] # None /\ IsFile(run, p)
       THEN /\ link' = [link EXCEPT ![run][p] = link[prior[run]][p]]
            /\ tainted' = IF <<prior[run], p>> \in tainted THEN tainted \cup {<<run, p>>}
                          ELSE tainted \ {<<run, p>>}
       ELSE UNCHANGED <<link, tainted>>
    /\ UNCHANGED <<driveVars, runVars, origin, pointerVars, reviewVars, pc, run, plan, trouble>>

\* Fault: the drive is asked instead of the rows of the run.
FindAbsent(p) ==
    /\ pc = "missing" /\ p \in todo
    /\ disk[p] = None => status[run] # Gone
    /\ todo' = todo \ {p}
    /\ missing' = IF disk[p] = None /\ rows[prior[run]][p] # None
                  THEN [missing EXCEPT ![run] = @ \cup {p}] ELSE missing
    /\ UNCHANGED <<driveVars, status, prior, rows, change, saved, blurred, identityVars,
                   pointerVars, reviewVars, pc, run, plan, trouble>>

\* A path of the prior run that the new one lacks has a MISSING record.
FindMissing(p) ==
    /\ pc = "missing" /\ p \in todo
    /\ rows[run][p] = None => status[run] # Gone
    /\ todo' = todo \ {p}
    /\ missing' = IF rows[run][p] = None /\ rows[prior[run]][p] # None
                  THEN [missing EXCEPT ![run] = @ \cup {p}] ELSE missing
    /\ UNCHANGED <<driveVars, status, prior, rows, change, saved, blurred, identityVars,
                   pointerVars, reviewVars, pc, run, plan, trouble>>

\* Fault: only entries with a new row count.
OutdatedByChange == {<<prior[run], p>> : p \in {q \in RowsOf(run) : ~Unchanged(q)}}

\* Prior entries that changed or vanished.
Outdated == {<<prior[run], p>> : p \in {q \in Paths :
                 (q \in RowsOf(run) /\ ~Unchanged(q)) \/ q \in missing[run]}}

\* Fault: entries nobody decided on are marked too.
MarkAll ==
    /\ pc = "stale"
    /\ stale' = stale \cup Outdated
    /\ late' = {} /\ pc' = "publish"
    /\ UNCHANGED <<driveVars, runVars, identityVars, pointerVars, decided, raced, run,
                   todo, plan, trouble>>

\* Decisions on them become stale; the search for moved files follows.
MarkStale ==
    /\ pc = "stale"
    /\ stale' = stale \cup (decided \cap Outdated)
    /\ late' = {} /\ pc' = "publish"
    /\ UNCHANGED <<driveVars, runVars, identityVars, pointerVars, decided, raced, run,
                   todo, plan, trouble>>

\* Fault: an interrupted run that goes on moves the pointer only when there was none.
PublishFirst ==
    /\ pc = "publish" /\ status[run] # Gone
    /\ status' = [status EXCEPT ![run] = "COMPLETE"]
    /\ latest' = (IF latest = None \/ status[run] = "RUNNING" THEN run ELSE latest)
    /\ pc' = "refresh" /\ late' = {}
    /\ UNCHANGED <<driveVars, prior, rows, change, missing, saved, blurred, identityVars,
                   summary, decided, stale, raced, run, todo, plan, trouble>>

\* One transaction: the run is COMPLETE and the source's current inventory.
Publish ==
    /\ pc = "publish" /\ status[run] # Gone
    /\ status' = [status EXCEPT ![run] = "COMPLETE"]
    /\ latest' = run /\ pc' = "refresh" /\ late' = {}
    /\ UNCHANGED <<driveVars, prior, rows, change, missing, saved, blurred, identityVars,
                   summary, decided, stale, raced, run, todo, plan, trouble>>

\* refresh_materialized_summaries, after the run is published.
Refresh ==
    /\ pc = "refresh" /\ status[run] # Gone
    /\ summary' = run /\ Leave
    /\ UNCHANGED <<driveVars, runVars, identityVars, latest, reviewVars, plan, trouble>>

\* The run's row was deleted under the scan: the next row that names it fails.
Fail ==
    /\ pc # "idle" /\ status[run] = Gone
    /\ \/ pc = "walk" /\ \E p \in todo : disk[p] # None
       \/ pc = "missing" /\ todo # {}
       \/ pc \in {"publish", "refresh"}
    /\ Leave
    /\ UNCHANGED <<driveVars, runVars, identityVars, pointerVars, reviewVars, plan, trouble>>

\* A cancel or a pause stops the walk with its frontier written.
Interrupt ==
    /\ pc = "walk" /\ trouble < MaxTrouble
    /\ IF status[run] = Gone THEN UNCHANGED <<status, saved>>
       ELSE /\ status' = [status EXCEPT ![run] = "INTERRUPTED"]
            /\ saved' = [saved EXCEPT ![run] = todo]
    /\ Leave /\ trouble' = trouble + 1
    /\ UNCHANGED <<driveVars, prior, rows, change, missing, blurred, identityVars, pointerVars,
                   reviewVars, plan>>

\* The process dies, or a window's guard stops the epilogue: no status is written.
Die ==
    /\ pc # "idle" /\ trouble < MaxTrouble
    /\ saved' = IF pc = "walk" /\ status[run] # Gone THEN [saved EXCEPT ![run] = todo] ELSE saved
    /\ Leave /\ trouble' = trouble + 1
    /\ UNCHANGED <<driveVars, status, prior, rows, change, missing, blurred, identityVars,
                   pointerVars, reviewVars, plan>>

---------------------------------------------------------------------------
(* Identity and decisions, recorded while scans come and go.                *)

\* A current file without a verified link is read as it is now, linked and
\* signed.  The content object keeps the run that first needed it.
Identify(p) ==
    /\ latest # None /\ IsFile(latest, p) /\ link[latest][p] = None /\ disk[p] # None
    /\ link' = [link EXCEPT ![latest][p] = disk[p]]
    /\ origin' = IF origin[p][disk[p]] # None THEN origin
                 ELSE [origin EXCEPT ![p][disk[p]] = latest]
    /\ UNCHANGED <<driveVars, runVars, tainted, pointerVars, reviewVars, scanVars, plan, trouble>>

\* record_decision, on any entry there is: a new decision replaces a stale one.
Decide(r, p) ==
    /\ rows[r][p] # None
    /\ Cardinality(decided \cup {<<r, p>>}) <= MaxDecided
    /\ decided' = decided \cup {<<r, p>>} /\ stale' = stale \ {<<r, p>>}
    /\ late' = IF pc = "publish" THEN late \cup {<<r, p>>} ELSE late
    /\ raced' = IF r \in plan THEN raced \cup {<<r, p>>} ELSE raced
    /\ UNCHANGED <<driveVars, runVars, identityVars, pointerVars, scanVars, plan, trouble>>

---------------------------------------------------------------------------
(* Retention.  The plan is read first and deleted from afterwards: the reads
   are not in the transaction of the deletions.  Baselines of review sessions
   and canonical overrides hold runs as decisions do and are left out.       *)

Recent == {r \in Complete : Cardinality({s \in Complete : s > r}) < Keep}

\* Fault: decisions hold nothing.
HeldByPointers == {latest, summary} \cup Recent

\* Why a run may not be pruned (_PRUNE_HOLDS).
Held == {latest, summary} \cup {d[1] : d \in decided} \cup Recent

PlanPrune ==
    /\ plan = {} /\ plan' = Known \ Held /\ plan' # {}
    /\ UNCHANGED <<driveVars, runVars, identityVars, pointerVars, reviewVars, scanVars, trouble>>

\* Rows that outlive the entries still refer to these runs.
Referenced == {latest, summary} \cup {origin[p][v] : p \in Paths, v \in Versions}

\* A project names its root entry and a canonical role its entry, whichever the
\* analysers chose among those the plan would delete.
MayBeNamed == Analysed /\ \E r \in plan : RowsOf(r) # {}

\* Entries and change records go with their runs; a MISSING record also goes
\* with the prior entry it names.  A reference that is left undoes it all.
Prune ==
    /\ plan # {} /\ plan' = {}
    /\ \/ /\ plan \cap Known \cap Referenced # {} \/ MayBeNamed
          /\ UNCHANGED <<runVars, link, tainted>>
       \/ /\ plan \cap Known \cap Referenced = {}
          /\ status' = [r \in Runs |-> IF r \in plan THEN Gone ELSE status[r]]
          /\ rows' = [r \in Runs |-> IF r \in plan THEN NoRows ELSE rows[r]]
          /\ link' = [r \in Runs |-> IF r \in plan THEN NoRows ELSE link[r]]
          /\ change' = [r \in Runs |-> IF r \in plan THEN [p \in Paths |-> "none"]
                                       ELSE change[r]]
          /\ missing' = [r \in Runs |-> IF {r, prior[r]} \cap plan # {} THEN {}
                                        ELSE missing[r]]
          /\ saved' = [r \in Runs |-> IF r \in plan THEN Paths ELSE saved[r]]
          /\ blurred' = {e \in blurred : e[1] \notin plan}
          /\ tainted' = {e \in tainted : e[1] \notin plan}
          /\ UNCHANGED prior
    /\ UNCHANGED <<driveVars, origin, pointerVars, reviewVars, scanVars, trouble>>

\* purge_runs: every recorded run and everything derived, whoever is at work.
Purge ==
    /\ trouble < MaxTrouble /\ trouble' = trouble + 1 /\ Known # {}
    /\ status' = [r \in Runs |-> Gone]
    /\ rows' = [r \in Runs |-> NoRows] /\ link' = [r \in Runs |-> NoRows]
    /\ change' = [r \in Runs |-> [p \in Paths |-> "none"]]
    /\ missing' = [r \in Runs |-> {}] /\ saved' = [r \in Runs |-> Paths]
    /\ origin' = [p \in Paths |-> [v \in Versions |-> None]]
    /\ latest' = None /\ summary' = None
    /\ decided' = {} /\ stale' = {} /\ late' = {} /\ raced' = {} /\ blurred' = {} /\ tainted' = {}
    /\ UNCHANGED <<driveVars, prior, scanVars, plan>>

Scanner ==
    \/ \E r \in Runs : Resume(r) \/ \E resume, incremental \in BOOLEAN : Start(r, resume, incremental)
    \/ \E p \in Paths : Record(p) \/ Classify(p) \/ CopyForward(p) \/ FindMissing(p)
    \/ EndWalk \/ EndStatement \/ MarkStale \/ Publish \/ Refresh \/ Fail
    \/ Interrupt \/ Die

Others ==
    \/ \E p \in Paths : Write(p) \/ Delete(p) \/ Identify(p)
    \/ \E r \in Runs, p \in Paths : Decide(r, p)
    \/ PlanPrune \/ Prune \/ Purge

Next == Scanner \/ Others

Spec == Init /\ [][Next]_vars

---------------------------------------------------------------------------
(* Properties.                                                              *)

\* The current inventory is the newest complete run, whatever was interrupted,
\* resumed, pruned or purged on the way.
CurrentIsNewestComplete == IsNewest(latest, Complete)

\* What readers of the current inventory see does not change under them: its
\* rows change only when another run is published.
CurrentIsFrozen ==
    [][latest # None /\ latest' = latest => rows'[latest] = rows[latest]]_vars

\* A complete run's records say of every path what became of it since the run
\* it was compared with, once each, a path that could not be read being an ERROR
\* and neither new nor missing, unless a resumed scan found the path changed
\* after the diff had judged it.
ChangesAreTrue ==
    \A r \in Complete : \A p \in Paths :
        prior[r] \in Complete /\ rows[prior[r]] # NoRows /\ <<r, p>> \notin blurred =>
            LET old == rows[prior[r]][p]
                new == rows[r][p]
            IN  /\ change[r][p] = IF new = None THEN "none"
                                  ELSE IF new = Unread THEN "ERROR"
                                  ELSE IF old = None THEN "NEW"
                                  ELSE IF new = old THEN "UNCHANGED" ELSE "CHANGED"
                /\ p \in missing[r] <=> (old # None /\ new = None)

\* A verified identity on an entry is never that of bytes the file had lost
\* before the entry was recorded, unless it was copied to the entry before a
\* resumed walk rewrote that, or comes down from such an entry.
IdentityIsNotOlder ==
    \A r \in Runs : \A p \in Paths :
        link[r][p] # None /\ <<r, p>> \notin tainted => link[r][p] >= rows[r][p]

\* When a run becomes current, no decision on the entries it was compared with
\* stands for a file that changed or vanished, unless it was made after the
\* diff had marked the stale ones.
OutdatedDecisionsAreStale ==
    [][latest' # latest /\ latest' # None /\ prior[run] # None =>
         \A p \in Paths : <<prior[run], p>> \in decided \ (stale \cup late) =>
             rows[run][p] = rows[prior[run]][p]]_vars

\* An entry that somebody decided on is not pruned, unless the decision came
\* between the plan and the deletion.
DecidedEntriesStay == \A d \in decided \ raced : rows[d[1]][d[2]] # None

\* The same without the exception, of the current inventory: a file's verified
\* identity is never that of bytes it had lost before it was recorded.
VerifiedMeansThisFile ==
    latest # None => \A p \in Paths : link[latest][p] # None => link[latest][p] >= rows[latest][p]

\* A prune removes the runs of its plan when nothing it looks for holds them.
PruneDeletes ==
    [][plan # {} /\ plan' = {} /\ plan \cap Held = {} => \A r \in plan : status'[r] = Gone]_vars
===========================================================================
