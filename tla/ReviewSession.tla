--------------------------- MODULE ReviewSession ----------------------------
(* One review session over one group of identical files:
   src/src/housekeeper/review/decisions.py, wizard.py and canonical.py,
   manifests.py, the review commands of cli.py and the review endpoints of
   dashboard/app.py, against the rescans, the grouping and the classification
   that a worker process runs meanwhile.

   A command of the command line is a process with a connection of its own: the
   statements of one of its transactions are one step.  The threads of the web
   server share one writer connection and no lock: each reads what another has
   written and not committed, and whoever commits, commits it all.
   record_decision selects first and opens its transaction with its first write,
   so what it read may be old by then.  Every file of a group has a verified hash. *)
EXTENDS Policies, FiniteSets

CONSTANTS
    Files,        \* the files that hold the same content at first
    Protected,    \* those of them the policies protect
    Kept,         \* those of them in a folder the keep-under rule is given
    Threads,      \* threads of the dashboard
    Commands,     \* processes of the command line
    MaxRuns,      \* bound on scans
    MaxAsks       \* bound on what the users begin, before a last export

ASSUME ReviewAssumption ==
    /\ IsFiniteSet(Files) /\ Protected \subseteq Files /\ Kept \subseteq Files
    /\ Threads \cap Commands = {} /\ MaxRuns \in Nat \ {0} /\ MaxAsks \in Nat

Users == Threads \cup Commands
Entries == Files \X (1..MaxRuns)        \* a scan writes every file a new row
Group == <<"group", 0>>                 \* the duplicate group, as a target
Targets == Entries \cup {Group}
\* About an entry; and about the group, where nothing tells CHANGE_CANONICAL, DEFER
\* and the others apart.
Choices == {"MARK_KEEP", "APPROVE_FOR_REVIEW", "OF_GROUP"}
NoEntry == <<"none", 0>>
NoPlan == [keeper |-> NoEntry, approve |-> {}, skipped |-> TRUE]
NoManifest == [approved |-> {}, run |-> 0, forbidden |-> {}, byHand |-> FALSE]
NoGrouping == <<"no grouping", 0>>
NothingShown == [rule |-> "keep-canonical", plan |-> NoPlan]

\* A row of review_decisions; ids grow with the target's rows.
Rows == [target : Targets, id : 1..2, choice : Choices, current : BOOLEAN,
         stale : BOOLEAN, wizard : BOOLEAN]

VARIABLES
    run,       \* the current run
    recorded,  \* for each run, the files it saw holding the content
    members,   \* exact_duplicate_members of the group
    canonical, \* exact_duplicate_groups.canonical_entry_id
    override,  \* canonical_overrides.canonical_entry_id
    verdict,   \* classifications, as whether the verdict forbids an approval; "none"
               \* where there is no row
    basis,     \* the override that a grouping at work has read
    status,    \* of the session
    rows,      \* review_decisions of the session, as committed
    draft,     \* the same as the dashboard's connection sees them
    held,      \* the dashboard's connection is in a write transaction
    pc,        \* what each user is at
    todo,      \* the decisions it still has to record
    seen,      \* the id of the row that record_decision found current, 0 if none
    shown,     \* the plan of the preview its page shows, and the rule
    manifest,  \* of the manifest just built: its approved rows, the run it was built at,
               \* those of its rows whose file was protected then, and whether anybody but
               \* the wizard had decided about entries of that run
    snapshot,  \* what the last review_snapshot holds: the current rows, and the run
    asks       \* what the users have begun

inventory == <<run, recorded>>
derived == <<members, canonical, override, verdict, basis>>
tables == <<rows, draft, held>>
session == <<status, tables>>
user == <<pc, todo, seen, shown>>
vars == <<inventory, derived, session, user, manifest, snapshot, asks>>

Plans == [keeper : Entries \cup {NoEntry}, approve : SUBSET Entries, skipped : BOOLEAN]
Rules == {"keep-canonical"} \cup Kept     \* keep-under a folder that holds one file
Steps == {"idle", "shown", "next", "writing", "inserting", "validated", "built", "sealed"}
Manifests == [approved : SUBSET Entries, run : 0..MaxRuns, forbidden : SUBSET Entries,
              byHand : BOOLEAN]

TypeOK ==
    /\ run \in 1..MaxRuns
    /\ recorded \in [1..MaxRuns -> SUBSET Files]
    /\ members \subseteq Entries /\ canonical \in Entries \cup {NoEntry}
    /\ override \in Entries \cup {NoEntry} /\ basis \in Entries \cup {NoEntry, NoGrouping}
    /\ verdict \in [Entries -> {"none", "allows", "forbids"}]
    /\ status \in {"OPEN", "LOCKED", "EXPORTED"}
    /\ rows \subseteq Rows /\ draft \subseteq Rows /\ held \in BOOLEAN
    /\ pc \in [Users -> Steps]
    /\ \A u \in Users : \A i \in DOMAIN todo[u] :
          todo[u][i] \in [target : Targets, choice : Choices, wizard : BOOLEAN]
    /\ seen \in [Users -> 0..2]
    /\ shown \in [Users -> [rule : Rules, plan : Plans]]
    /\ manifest \in Manifests
    /\ snapshot.rows \subseteq Rows /\ snapshot.run \in 0..MaxRuns
    /\ asks \in 0..(MaxAsks + 1)

Current(entries) == {e \in entries : e[2] = run}
RowsIn(table, t) == {r \in table : r.target = t}
CurrentIn(table, t) == {r \in RowsIn(table, t) : r.current}
RowsOf(t) == RowsIn(rows, t)
CurrentRows(t) == CurrentIn(rows, t)

\* The table that a user's connection sees.
Table(u) == IF u \in Threads THEN draft ELSE rows

\* The dashboard's connection is free, or it is the user's own.
MayWrite(u) == held => u \in Threads

\* A transaction that leaves the table so is committed.
Commit(table) == rows' = table /\ draft' = table /\ held' = FALSE

\* A statement of the user failed: its connection stays in the transaction it opened,
\* which for a thread is open until somebody commits on it.
LeaveOpen(u) == held' = (held \/ u \in Threads) /\ UNCHANGED <<rows, draft>>

Init ==
    /\ run = 1 /\ recorded = [n \in 1..MaxRuns |-> Files]
    /\ members = {} /\ canonical = NoEntry /\ override = NoEntry
    /\ verdict = [e \in Entries |-> "none"]
    /\ basis = NoGrouping
    /\ status = "OPEN" /\ rows = {} /\ draft = {} /\ held = FALSE
    /\ pc = [u \in Users |-> "idle"] /\ todo = [u \in Users |-> <<>>]
    /\ seen = [u \in Users |-> 0]
    /\ shown = [u \in Users |-> NothingShown]
    /\ manifest = NoManifest
    /\ snapshot = [rows |-> {}, run |-> 0] /\ asks = 0

---------------------------------------------------------------------------
(* The drive and the worker process.  Its writes fail while the dashboard's
   connection holds the write lock.                                          *)

\* After the last request nothing looks at what the worker makes.
Watched == asks <= MaxAsks \/ \E u \in Users : pc[u] # "idle"

\* The worker takes its next operation, or writes what it has to.
MayWork == Watched /\ ~held
MayBegin == MayWork /\ basis = NoGrouping

\* The rows a scan's epilogue turns stale: current decisions on the entries of the
\* run before it whose file changed.
Outdated(r) ==
    r.current /\ r.target \in Current(Entries) /\ r.target[1] \in recorded[run] \ recorded'[run + 1]

Rescan ==
    /\ MayBegin /\ run < MaxRuns
    /\ run' = run + 1
    /\ \E same \in SUBSET recorded[run] : recorded' = [recorded EXCEPT ![run + 1] = same]
    /\ Commit({IF Outdated(r) THEN [r EXCEPT !.stale = TRUE] ELSE r : r \in rows})
    /\ UNCHANGED <<derived, status, user, manifest, snapshot, asks>>

\* run_exact_duplicate_analysis: the rows on the group turn stale and the overrides
\* are read.
GroupingBegins ==
    /\ MayBegin /\ basis' = override
    /\ Commit({IF r.target = Group /\ r.current THEN [r EXCEPT !.stale = TRUE] ELSE r : r \in rows})
    /\ UNCHANGED <<inventory, members, canonical, override, verdict, status, user, manifest, snapshot, asks>>

\* The group may be made in a later window: two copies in the run, or none, and then it
\* stays if there is an override by now.  A stop leaves it as it was.
GroupingEnds ==
    /\ MayWork /\ basis # NoGrouping /\ basis' = NoGrouping
    /\ LET copies == {<<f, run>> : f \in recorded[run]}
       IN  \/ UNCHANGED <<members, canonical>>
           \/ /\ Cardinality(copies) >= 2 /\ members' = copies
              /\ canonical' = IF basis \in copies THEN basis ELSE CHOOSE e \in copies : TRUE
           \/ /\ Cardinality(copies) < 2 /\ override = NoEntry
              /\ members' = {} /\ canonical' = NoEntry
    /\ UNCHANGED <<inventory, override, verdict, session, user, manifest, snapshot, asks>>

\* _build_facts: what the rules ask of an entry, and what they say of it.
Forbidding == {"PROTECTED", "ERROR", "UNKNOWN"}
Signals(e) ==
    [protected |-> e[1] \in Protected,
     copies |-> IF e \in members THEN Cardinality(members) ELSE 0,
     canonical |-> canonical \in {e, NoEntry}]
VerdictOf ==
    [s \in [protected : BOOLEAN, copies : 0..Cardinality(Files), canonical : BOOLEAN] |->
       Verdict(Loaded(NoFile),
         [flags |-> (IF s.protected THEN {"protected_name"} ELSE {})
                      \cup (IF s.canonical THEN {} ELSE {"noncanonical"}),
          group_size |-> s.copies])]

\* classify_all_entries: all verdicts of the run go in one transaction and come back
\* in batches of which one holds the group; a stop may come between the two.
ClassifyBegins ==
    /\ MayBegin
    /\ verdict' = [e \in Entries |-> IF e[2] = run THEN "none" ELSE verdict[e]]
    /\ UNCHANGED <<inventory, members, canonical, override, basis, session, user, manifest, snapshot, asks>>
ClassifyBatch ==
    /\ MayBegin
    /\ verdict' = [e \in Entries |-> IF e[2] # run \/ verdict[e] # "none" THEN verdict[e]
                     ELSE IF VerdictOf[Signals(e)] \in Forbidding THEN "forbids" ELSE "allows"]
    /\ UNCHANGED <<inventory, members, canonical, override, basis, session, user, manifest, snapshot, asks>>

---------------------------------------------------------------------------
(* record_decision, in the steps another writer may come between.            *)

Sealed == status \in {"LOCKED", "EXPORTED"}

\* What an approval is refused for; the absence of a verdict is not.
Forbids(e) == verdict[e] = "forbids"

Decision(t, c) == [target |-> t, choice |-> c, wizard |-> FALSE]
Free(u) == pc[u] = "idle" /\ asks < MaxAsks
Begin(u, decisions) ==
    /\ Free(u) /\ asks' = asks + 1
    /\ pc' = [pc EXCEPT ![u] = "next"] /\ todo' = [todo EXCEPT ![u] = decisions]

\* The endpoints and `review decision`, on any entry that was ever recorded.
Decide(u, e, c) ==
    /\ e[2] <= run /\ c # "OF_GROUP"
    /\ Begin(u, <<Decision(e, c)>>)
    /\ UNCHANGED <<inventory, derived, session, seen, shown, manifest, snapshot>>

\* bulk_duplicate_decision, about the group itself.
DecideGroup(t) ==
    /\ t \in Threads /\ members # {}
    /\ Begin(t, <<Decision(Group, "OF_GROUP")>>)
    /\ UNCHANGED <<inventory, derived, session, seen, shown, manifest, snapshot>>

Finish(u) ==
    /\ pc' = [pc EXCEPT ![u] = "idle"] /\ todo' = [todo EXCEPT ![u] = <<>>]
    /\ seen' = [seen EXCEPT ![u] = 0] /\ shown' = [shown EXCEPT ![u] = NothingShown]

\* Its checks and the current row it found; a ValueError ends the request.
ReadDecision(u) ==
    /\ pc[u] = "next"
    /\ LET d == Head(todo[u])
       IN  IF Sealed \/ (d.choice = "APPROVE_FOR_REVIEW" /\ Forbids(d.target))
           THEN Finish(u)
           ELSE /\ pc' = [pc EXCEPT ![u] = "writing"]
                /\ seen' = [seen EXCEPT ![u] =
                     IF CurrentIn(Table(u), d.target) = {} THEN 0
                     ELSE (CHOOSE r \in CurrentIn(Table(u), d.target) : TRUE).id]
                /\ UNCHANGED <<todo, shown>>
    /\ UNCHANGED <<inventory, derived, session, manifest, snapshot, asks>>

\* UNIQUE(review_session_id, target_type, target_id, current).
\* Fault: only the current row of a target is unique.
KeepsUniqueLoose(table) == \A r, q \in table : r.target = q.target /\ r.id = q.id => r = q
KeepsUnique(table) ==
    \A r, q \in table : r.target = q.target /\ r.current = q.current => r = q

\* The table after the row that was found current is retired, and after the new one.
Retired(table, t, id) ==
    {IF r.target = t /\ r.id = id THEN [r EXCEPT !.current = FALSE] ELSE r : r \in table}
Inserted(table, d) ==
    table \cup {[target |-> d.target, id |-> Cardinality(RowsIn(table, d.target)) + 1,
                 choice |-> d.choice, current |-> TRUE, stale |-> FALSE, wizard |-> d.wizard]}

\* The next decision of the request, or its end.
Proceed(u) ==
    IF Tail(todo[u]) = <<>> THEN Finish(u)
    ELSE /\ pc' = [pc EXCEPT ![u] = "next"]
         /\ todo' = [todo EXCEPT ![u] = Tail(@)]
         /\ seen' = [seen EXCEPT ![u] = 0] /\ UNCHANGED shown

\* The row found is retired: the first write of the transaction.
\* An IntegrityError ends the request.
\* Fault: the write is committed by itself.
RetireAndCommit(t) ==
    /\ t \in Threads /\ pc[t] = "writing" /\ seen[t] # 0
    /\ LET table == Retired(draft, Head(todo[t]).target, seen[t])
       IN  IF KeepsUnique(table)
           THEN Commit(table)
                /\ pc' = [pc EXCEPT ![t] = "inserting"] /\ UNCHANGED <<todo, seen, shown>>
           ELSE LeaveOpen(t) /\ Finish(t)
    /\ UNCHANGED <<inventory, derived, status, manifest, snapshot, asks>>
Retire(t) ==
    /\ t \in Threads /\ pc[t] = "writing" /\ seen[t] # 0
    /\ LET table == Retired(draft, Head(todo[t]).target, seen[t])
       IN  IF KeepsUnique(table)
           THEN /\ draft' = table /\ held' = TRUE /\ UNCHANGED rows
                /\ pc' = [pc EXCEPT ![t] = "inserting"] /\ UNCHANGED <<todo, seen, shown>>
           ELSE LeaveOpen(t) /\ Finish(t)
    /\ UNCHANGED <<inventory, derived, status, manifest, snapshot, asks>>

\* The new row, its history and the commit.
Insert(t) ==
    /\ t \in Threads /\ (pc[t] = "inserting" \/ (pc[t] = "writing" /\ seen[t] = 0))
    /\ LET table == Inserted(draft, Head(todo[t]))
       IN  IF KeepsUnique(table) THEN Commit(table) /\ Proceed(t)
           ELSE LeaveOpen(t) /\ Finish(t)
    /\ UNCHANGED <<inventory, derived, status, manifest, snapshot, asks>>

\* Both in one transaction of a command, which takes a failed one along.
WriteDecision(k) ==
    /\ k \in Commands /\ pc[k] = "writing" /\ ~held
    /\ LET d == Head(todo[k])
           retired == Retired(rows, d.target, seen[k])
           table == Inserted(retired, d)
       IN  IF KeepsUnique(retired) /\ KeepsUnique(table) THEN Commit(table) /\ Proceed(k)
           ELSE Finish(k) /\ UNCHANGED tables
    /\ UNCHANGED <<inventory, derived, status, manifest, snapshot, asks>>

\* override_canonical: the group changes whatever the state of the session, and then
\* the decision about it is recorded, if it can be.
Override(u, e) ==
    /\ MayWrite(u)
    /\ e \in members /\ Cardinality(members) >= 2
    /\ Begin(u, <<Decision(Group, "OF_GROUP")>>)
    /\ canonical' = e /\ override' = e /\ Commit(draft)
    /\ UNCHANGED <<inventory, members, verdict, basis, status, seen, shown, manifest, snapshot>>

---------------------------------------------------------------------------
(* The wizard.                                                              *)

\* The canonical entry the current view of the group shows.
ShownCanonical ==
    IF canonical \in Current(members) \/ Current(members) = {} THEN canonical
    ELSE CHOOSE e \in Current(members) : TRUE

\* preview: the keeper the rule picks and the approvals of all the others, all or
\* nothing.
Plan(rule) ==
    LET candidates == {e \in Current(members) :
                         IF rule = "keep-canonical" THEN e = ShownCanonical ELSE e[1] = rule}
        keeper == IF candidates = {} THEN NoEntry ELSE CHOOSE e \in candidates : TRUE
        approve == IF keeper = NoEntry THEN {} ELSE Current(members) \ {keeper}
    IN  IF Cardinality(Current(members)) < 2 THEN NoPlan
        ELSE [keeper |-> keeper, approve |-> approve,
              skipped |-> keeper = NoEntry \/ \E e \in approve : Forbids(e)]

Preview(t, rule) ==
    /\ t \in Threads /\ Free(t) /\ asks' = asks + 1
    /\ shown' = [shown EXCEPT ![t] = [rule |-> rule, plan |-> Plan(rule)]]
    /\ pc' = [pc EXCEPT ![t] = "shown"]
    /\ UNCHANGED <<inventory, derived, session, todo, seen, manifest, snapshot>>

\* The decisions of an apply, the keeper's first.
\* Fault: the approvals first.
ApprovalsFirst(plan) ==
    LET order == CHOOSE s \in [1..Cardinality(plan.approve) -> plan.approve] :
                    \A e \in plan.approve : \E i \in DOMAIN s : s[i] = e
    IN  [i \in 1..(Cardinality(plan.approve) + 1) |->
           IF i <= Cardinality(plan.approve)
           THEN [target |-> order[i], choice |-> "APPROVE_FOR_REVIEW", wizard |-> TRUE]
           ELSE [target |-> plan.keeper, choice |-> "MARK_KEEP", wizard |-> TRUE]]
InOrder(plan) ==
    LET order == CHOOSE s \in [1..Cardinality(plan.approve) -> plan.approve] :
                    \A e \in plan.approve : \E i \in DOMAIN s : s[i] = e
    IN  [i \in 1..(Cardinality(plan.approve) + 1) |->
           IF i = 1 THEN [target |-> plan.keeper, choice |-> "MARK_KEEP", wizard |-> TRUE]
           ELSE [target |-> order[i - 1], choice |-> "APPROVE_FOR_REVIEW", wizard |-> TRUE]]

\* The fingerprint of what was shown against that of the plan derived again.
\* Fault: it covers the keeper only.
MatchesKeeper(plan, now) == plan.keeper = now.keeper
Matches(plan, now) == plan = now

\* Only a group whose keeper is known and whose other copies may all be approved.
\* Fault: a group the preview has skipped, too.
AnyPlan(plan) == TRUE
Whole(plan) == ~plan.skipped

\* apply_rule, up to its first decision.
Apply(t) ==
    /\ pc[t] = "shown"
    /\ LET now == Plan(shown[t].rule)
       IN  IF Matches(shown[t].plan, now) /\ Whole(now)
           THEN /\ todo' = [todo EXCEPT ![t] = InOrder(now)]
                /\ pc' = [pc EXCEPT ![t] = "next"]
                /\ UNCHANGED <<seen, shown>>
           ELSE Finish(t)
    /\ UNCHANGED <<inventory, derived, session, manifest, snapshot, asks>>

\* The request or the process ends between two transactions, by itself or because it
\* waits for the write lock in vain; so does a thread in the middle of its own when
\* another has committed that.
Cut(u) ==
    /\ pc[u] \in {"next", "writing", "sealed"} \/ (pc[u] = "inserting" /\ ~held)
    /\ Finish(u)
    /\ UNCHANGED <<inventory, derived, session, manifest, snapshot, asks>>

---------------------------------------------------------------------------
(* Lock and export.                                                         *)

Lock(u) ==
    /\ u \in Commands /\ Free(u) /\ ~held
    /\ status' = "LOCKED" /\ asks' = asks + 1
    /\ UNCHANGED <<inventory, derived, tables, user, manifest, snapshot>>

\* validate_session.
Validate(u) ==
    /\ pc[u] = "idle" /\ asks <= MaxAsks /\ asks' = asks + 1
    /\ \A r \in Table(u) : r.current => ~r.stale
    /\ pc' = [pc EXCEPT ![u] = "validated"]
    /\ UNCHANGED <<inventory, derived, session, todo, seen, shown, manifest, snapshot>>

\* The rows of a manifest: current_entries joined with the current rows.
Listed == {e \in Current(Entries) : CurrentRows(e) # {}}

\* Those that are approved.
\* Fault: every snapshot's entries, and the mark is not looked at.
ApprovedAnywhere == {r.target : r \in {q \in rows : q.current /\ q.choice = "APPROVE_FOR_REVIEW"}}
Approved ==
    {e \in Listed : \E r \in CurrentRows(e) :
        r.choice = "APPROVE_FOR_REVIEW" /\ ~r.stale}

\* Somebody decided about the entries of this run without the wizard.
DecidedByHand == \E r \in rows : r.target \in Current(Entries) /\ ~r.wizard

\* The file of the command, or the body of the endpoint's response, of what is committed.
Build(u) ==
    /\ pc[u] = "validated"
    /\ manifest' = [approved |-> Approved, run |-> run,
                    forbidden |-> {e \in Approved : Forbids(e)}, byHand |-> DecidedByHand]
    /\ pc' = [pc EXCEPT ![u] = "built"]
    /\ UNCHANGED <<inventory, derived, session, todo, seen, shown, snapshot, asks>>

\* export_snapshot, which refuses a second snapshot of the same state, unless another
\* analysis has left its artifacts in between.
Seal(u) ==
    /\ pc[u] = "built" /\ MayWrite(u)
    /\ LET now == [rows |-> {r \in Table(u) : r.current}, run |-> run]
       IN  \/ /\ snapshot' = now /\ Commit(draft)
              /\ pc' = [pc EXCEPT ![u] = "sealed"] /\ UNCHANGED <<todo, seen, shown>>
           \/ /\ snapshot = now /\ LeaveOpen(u)
              /\ Finish(u) /\ UNCHANGED snapshot
    /\ manifest' = NoManifest
    /\ UNCHANGED <<inventory, derived, status, asks>>

\* The status follows in a transaction of its own, whatever it is by then.
Export(u) ==
    /\ pc[u] = "sealed" /\ MayWrite(u)
    /\ status' = "EXPORTED" /\ Commit(draft) /\ Finish(u)
    /\ UNCHANGED <<inventory, derived, manifest, snapshot, asks>>

\* A poll of the jobs page that finds a dead job settles it, on the same connection,
\* and commits.
Poll(t) ==
    /\ Watched /\ held /\ pc[t] \in {"idle", "shown"} /\ Commit(draft)
    /\ UNCHANGED <<inventory, derived, status, user, manifest, snapshot, asks>>

\* The dashboard ends with all its requests; what it has not committed is undone.
DashboardEnds ==
    /\ held \/ \E t \in Threads : pc[t] # "idle"
    /\ Commit(rows)
    /\ pc' = [u \in Users |-> IF u \in Threads THEN "idle" ELSE pc[u]]
    /\ todo' = [u \in Users |-> IF u \in Threads THEN <<>> ELSE todo[u]]
    /\ seen' = [u \in Users |-> IF u \in Threads THEN 0 ELSE seen[u]]
    /\ shown' = [u \in Users |-> IF u \in Threads THEN NothingShown ELSE shown[u]]
    /\ UNCHANGED <<inventory, derived, status, manifest, snapshot, asks>>

Worker ==
    \/ Rescan \/ GroupingBegins \/ GroupingEnds \/ ClassifyBegins \/ ClassifyBatch

User(u) ==
    \/ Free(u) /\ \E e \in Entries : (\E c \in Choices : Decide(u, e, c)) \/ Override(u, e)
    \/ DecideGroup(u)
    \/ ReadDecision(u) \/ Retire(u) \/ Insert(u) \/ WriteDecision(u) \/ Cut(u)
    \/ Free(u) /\ \E rule \in Rules : Preview(u, rule)
    \/ Apply(u) \/ Lock(u) \/ Validate(u) \/ Build(u) \/ Seal(u) \/ Export(u)

Next ==
    \/ Worker \/ DashboardEnds
    \/ \E t \in Threads : Poll(t)
    \/ \E u \in Users : User(u)

Spec == Init /\ [][Next]_vars

---------------------------------------------------------------------------
(* What a review may rely on.                                               *)

\* The new row of a decision is committed.
Writes(u) ==
    pc[u] \in {"writing", "inserting"} /\ pc'[u] \notin {"writing", "inserting"} /\ rows' # rows

\* A decision replaces nothing its writer has not seen: of two requests about one
\* target that read before either wrote, the second is refused, be they processes or
\* a process and the dashboard, as long as the dashboard works on one request at a
\* time.
NoBlindOverwrite ==
    [][\A u \in Users : Writes(u) =>
         {r.id : r \in CurrentRows(Head(todo[u]).target)} =
           IF seen[u] = 0 THEN {} ELSE {seen[u]}]_vars

\* Every decision an apply records is one its user's preview showed, however often
\* the drive was scanned and the groups made again in between.
WizardWritesWhatWasShown ==
    [][\A u \in Users : Writes(u) /\ Head(todo[u]).wizard =>
         LET d == Head(todo[u])
             plan == shown[u].plan
         IN  ~plan.skipped /\
             d.target \in (IF d.choice = "MARK_KEEP" THEN {plan.keeper} ELSE plan.approve)]_vars

\* As long as only the wizard has decided about the members of the group, one after
\* the other applied with any rules and each cut off anywhere, a member is not approved.
WizardLeavesAKeeper ==
    (members # {} /\ \A r \in rows : r.target \in members => r.wizard)
      => \E e \in members : \A r \in CurrentRows(e) : r.choice # "APPROVE_FOR_REVIEW"

\* A manifest of the wizard's decisions leaves a copy where it is: of the files its scan
\* saw holding the content one is not approved, however many previews, rescans and
\* groupings lie between the approvals and whatever was approved at earlier runs.
ManifestLeavesACopy ==
    manifest.approved # {} /\ ~manifest.byHand =>
        \E f \in recorded[manifest.run] : \A e \in manifest.approved : e[1] # f

\* A request replaces the decision about its target or leaves it, wherever it is cut
\* off: when all are done, what was decided about once has a current decision, as long
\* as the dashboard works on one request at a time.
DecidedStaysDecided ==
    (\A u \in Users : pc[u] = "idle") => \A t \in Targets : RowsOf(t) # {} => CurrentRows(t) # {}

\* No manifest approves a file that was protected when it was built.
ProtectedStaysOut == manifest.forbidden = {}
=============================================================================
