--------------------------- MODULE PipelineProofs ---------------------------
(* What Pipeline keeps for any files, versions, runs, operations and failures. *)
EXTENDS Pipeline, SequenceTheorems, TLAPS

\* The stages of a quickstart; Full[k] is the next one when Left stages are left.
Full == <<"scan">> \o Order
Left == Len(todo)

\* A quickstart is at work; its scan is over.
InQuick == op \in Quickstarts /\ phase = "working"
Scanned == InQuick /\ Left < 22

---------------------------------------------------------------------------
(* The parts of the inductive invariant.                                    *)

\* What is left of an operation.
TodoInv ==
    /\ InQuick => Left <= 22 /\ \A i \in 1..Left : todo[i] = Full[22 - Left + i]
    /\ op \notin Quickstarts => \A i \in 1..Left : todo[i] # "scan"

\* One operation between submit and its end, and room for the run it may record.
Awaits(o) ==
    \/ \E i \in 1..Len(accepted) : accepted[i] = o
    \/ \E i \in 1..Len(queue) : queue[i] = o
RunnerInv ==
    /\ OneAtATime
    /\ phase = "none" <=> op = NoOp
    /\ (\E o \in Quickstarts : Awaits(o)) \/ (InQuick /\ Left = 22) => run < MaxRuns

\* The mode of an operation is that of its scan; without a scan it is the whole mode.
ModeInv ==
    /\ op \notin Quickstarts \/ (InQuick /\ Left = 22) => mode = Whole
    /\ Scanned => run > 0 /\ mode.token = Token(changedIn)

\* The change records number the snapshots: the jobs of older runs have older
\* tokens, and a snapshot that a stage was served on is the current one only
\* under the current token.
TokenInv ==
    /\ \A f \in Files : snap[f] <= disk[f]
    /\ \A j \in done : j[2] <= run
    /\ \A v \in served :
         /\ v[1] \in ContentKeyed
         /\ v[2] \in [Files -> 1..MaxVersion] /\ \A f \in Files : v[2][f] <= snap[f]
         /\ v[2] = snap => <<v[1], Token(changedIn)>> \in done

\* The tables of the stages a quickstart has passed are of its run.
MadeInv ==
    /\ InQuick => \A i \in 2..(22 - Left) : Full[i] # "backup-value" => Full[i] \in made
    /\ InQuick /\ Left \in 1..21 => ~marker
    /\ EndedRunIsWhole

\* Every content of the run has its artifact, or was seen by a similarity stage,
\* but for those that failed.
Paid == InScope \ failed \subseteq parsed
SawAll(s) == InScope \ failed \subseteq saw[s]

\* What a quickstart that ended well leaves, what its successor may rely on and
\* what a job that can be found again stands for.
DebtInv ==
    /\ parsed \subseteq linked
    /\ run = 0 => prev # "COMPLETED"
    /\ prev = "COMPLETED" /\ ~Scanned => Paid
    /\ Scanned /\ mode.narrow => \A c \in InScope : c[1] \in rows \/ c \in parsed \cup failed
    /\ InQuick /\ Left <= 19 => Paid
    /\ \A j \in done : j[2] = Token(changedIn) =>
         IF j[1] = "content-analysis" THEN Paid ELSE SawAll(j[1])
SeenInv ==
    /\ InQuick => \A k \in 5..7 : Left <= 22 - k => SawAll(Full[k])
    /\ ReusedStagesSaw

---------------------------------------------------------------------------
(* The stages of a quickstart, one by one.                                  *)

LEMMA FullStages ==
    /\ Full \in Seq(StageNames \cup {"scan"}) /\ Len(Full) = 22
    /\ Full[1] = "scan"
    /\ Full[2] = "exact-duplicates" /\ Full[3] = "content-analysis" /\ Full[4] = "directory-overlap"
    /\ Full[5] = "document-versions" /\ Full[6] = "document-minhash" /\ Full[7] = "image-similarity"
    /\ Full[8] = "projects" /\ Full[9] = "backup-lineage" /\ Full[10] = "normalized-content"
    /\ Full[11] = "derivations" /\ Full[12] = "canonical-roles" /\ Full[13] = "archive-of-directory"
    /\ Full[14] = "backup-value" /\ Full[15] = "record-series" /\ Full[16] = "preservation-risk"
    /\ Full[17] = "photo-events" /\ Full[18] = "contact-sheets" /\ Full[19] = "classify"
    /\ Full[20] = "review-priority" /\ Full[21] = "lifecycle" /\ Full[22] = "reports"
<1>1. Order \in Seq(StageNames) /\ Len(Order) = 21
  BY DEF Order, StageNames, ContentKeyed, EntryKeyed
<1>2. <<"scan">> \in Seq({"scan"}) /\ Len(<<"scan">>) = 1 /\ <<"scan">>[1] = "scan"
  OBVIOUS
<1>3. QED BY <1>1, <1>2 DEF Full, Order

---------------------------------------------------------------------------
(* What a stage does to the tables.                                         *)

LEMMA RebuildEffect ==
    ASSUME NEW s \in StageNames, NEW reads, made \subseteq StageNames, Rebuild(s, reads)
    PROVE  /\ made' \subseteq StageNames
           /\ made \ {s} \subseteq made'
           /\ run > 0 /\ reads \subseteq made => s \in made'
BY DEF Rebuild

LEMMA LookEffect ==
    ASSUME NEW s \in Similarity, NEW seen, saw \in [Similarity -> SUBSET Contents], Look(s, seen)
    PROVE  /\ saw' \in [Similarity -> SUBSET Contents]
           /\ \A x \in Similarity : saw[x] \subseteq saw'[x]
           /\ seen \cap InScope \subseteq saw'[s]
BY DEF Look, InScope

\* The tables only grow, but for the one the stage makes.
Grows ==
    /\ linked \subseteq linked' /\ parsed \subseteq parsed'
    /\ \A x \in Similarity : saw[x] \subseteq saw'[x]

LEMMA BodyEffect ==
    ASSUME TablesTypeOK, NEW s \in StageNames, Body(s)
    PROVE  /\ TablesTypeOK' /\ Grows /\ parsed' = parsed
           /\ made \ {s} \subseteq made'
           /\ s = "document-versions" => linked \cap InScope \subseteq saw'[s]
           /\ s \in {"document-minhash", "image-similarity"} => parsed \cap InScope \subseteq saw'[s]
<1>0. InScope \subseteq Contents
  BY DEF InScope
<1>1. made' \subseteq StageNames /\ made \ {s} \subseteq made'
  <2>1. \E reads : Rebuild(s, reads)
    BY DEF Body, Rebuilds, HashesAndRebuilds, ExactDuplicates, DirectoryOverlap, DocumentVersions,
       DocumentMinhash, ImageSimilarity, Projects, BackupLineage, NormalizedContent, Derivations,
       CanonicalRoles, ArchiveOfDirectory, BackupValue, RecordSeries, PreservationRisk, PhotoEvents,
       ContactSheets, Classify, ReviewPriority, Lifecycle, Reports
  <2>2. QED BY <2>1, RebuildEffect DEF TablesTypeOK
<1>2. parsed' = parsed /\ linked' \in {linked, linked \cup InScope}
  BY DEF Body, HashSome, Rebuilds, HashesAndRebuilds, ExactDuplicates, DirectoryOverlap, DocumentVersions,
     DocumentMinhash, ImageSimilarity, Projects, BackupLineage, NormalizedContent, Derivations,
     CanonicalRoles, ArchiveOfDirectory, BackupValue, RecordSeries, PreservationRisk, PhotoEvents,
     ContactSheets, Classify, ReviewPriority, Lifecycle, Reports
<1>3. \/ saw' = saw /\ s \notin Similarity
      \/ s = "document-versions" /\ Look(s, linked)
      \/ s \in {"document-minhash", "image-similarity"} /\ Look(s, parsed)
  BY DEF Body, Rebuilds, HashesAndRebuilds, ExactDuplicates, DirectoryOverlap, DocumentVersions,
     DocumentMinhash, ImageSimilarity, Projects, BackupLineage, NormalizedContent, Derivations,
     CanonicalRoles, ArchiveOfDirectory, BackupValue, RecordSeries, PreservationRisk, PhotoEvents,
     ContactSheets, Classify, ReviewPriority, Lifecycle, Reports, Similarity, ContentKeyed
<1>4. {"document-versions", "document-minhash", "image-similarity"} \subseteq Similarity
  BY DEF Similarity, ContentKeyed
<1>5. CASE saw' = saw /\ s \notin Similarity
  BY <1>0, <1>1, <1>2, <1>4, <1>5 DEF TablesTypeOK, Grows
<1>6. CASE s = "document-versions" /\ Look(s, linked)
  BY <1>0, <1>1, <1>2, <1>4, <1>6, LookEffect DEF TablesTypeOK, Grows
<1>7. CASE s \in {"document-minhash", "image-similarity"} /\ Look(s, parsed)
  BY <1>0, <1>1, <1>2, <1>4, <1>7, LookEffect DEF TablesTypeOK, Grows
<1>8. QED BY <1>3, <1>5, <1>6, <1>7

\* The tables each stage reads.
ReadsOf(s) ==
    CASE s \in {"document-minhash", "image-similarity", "preservation-risk", "photo-events"}
           -> {"content-analysis"}
      [] s = "backup-lineage" -> {"directory-overlap"}
      [] s = "canonical-roles" -> {"exact-duplicates", "normalized-content"}
      [] s = "contact-sheets" -> {"image-similarity"}
      [] s = "classify" -> {"exact-duplicates", "content-analysis"}
      [] s = "review-priority" -> {"classify", "preservation-risk"}
      [] s \in {"backup-value", "lifecycle"} -> {"classify"}
      [] s = "reports" -> {"exact-duplicates", "classify", "review-priority"}
      [] OTHER -> {}

LEMMA BodyReads == ASSUME NEW s, Body(s) PROVE Rebuild(s, ReadsOf(s))
<1>1. CASE s \in {"exact-duplicates", "directory-overlap", "document-versions", "projects",
                  "normalized-content", "derivations", "archive-of-directory", "record-series"}
  <2>1. ReadsOf(s) = {}
    BY <1>1 DEF ReadsOf
  <2>2. Rebuild(s, {})
    BY <1>1 DEF Body, Rebuilds, HashesAndRebuilds, ExactDuplicates, DirectoryOverlap,
       DocumentVersions, Projects, NormalizedContent, Derivations, ArchiveOfDirectory, RecordSeries
  <2>3. QED BY <2>1, <2>2
<1>2. CASE s \in {"document-minhash", "image-similarity", "preservation-risk", "photo-events"}
  BY <1>2 DEF ReadsOf, Body, Rebuilds, DocumentMinhash, ImageSimilarity, PreservationRisk, PhotoEvents
<1>3. CASE s \in {"backup-lineage", "canonical-roles", "contact-sheets"}
  BY <1>3 DEF ReadsOf, Body, Rebuilds, BackupLineage, CanonicalRoles, ContactSheets
<1>4. CASE s \in {"classify", "review-priority", "backup-value", "lifecycle", "reports"}
  BY <1>4 DEF ReadsOf, Body, Rebuilds, HashesAndRebuilds, Classify, ReviewPriority, BackupValue,
     Lifecycle, Reports
<1>5. QED BY <1>1, <1>2, <1>3, <1>4 DEF Body

\* In the order of a quickstart, every stage but backup-value comes after those it reads.
LEMMA ReadsAreEarlier ==
    ASSUME NEW k \in 2..22, Full[k] # "backup-value"
    PROVE  ReadsOf(Full[k]) \subseteq {Full[i] : i \in 2..(k - 1)} \ {"backup-value"}
<1> DEFINE Earlier == {Full[i] : i \in 2..(k - 1)} \ {"backup-value"}
<1>0. \A i \in 2..(k - 1) : Full[i] # "backup-value" => Full[i] \in Earlier
  OBVIOUS
<1> HIDE DEF Earlier
<1>1. k > 2 => "exact-duplicates" \in Earlier
  BY <1>0, FullStages
<1>2. k > 3 => "content-analysis" \in Earlier
  BY <1>0, FullStages
<1>3. k > 4 => "directory-overlap" \in Earlier
  BY <1>0, FullStages
<1>4. k > 7 => "image-similarity" \in Earlier
  BY <1>0, FullStages
<1>5. k > 10 => "normalized-content" \in Earlier
  BY <1>0, FullStages
<1>6. k > 16 => "preservation-risk" \in Earlier
  BY <1>0, FullStages
<1>7. k > 19 => "classify" \in Earlier
  BY <1>0, FullStages
<1>8. k > 20 => "review-priority" \in Earlier
  BY <1>0, FullStages
<1>9. ReadsOf(Full[k]) \subseteq Earlier
  <2>1. CASE k \in {2, 3, 4, 5, 8, 10, 11, 13, 15}
    <3>1. ReadsOf(Full[k]) = {}
      BY <2>1, FullStages DEF ReadsOf
    <3>2. QED BY <3>1
  <2>2. CASE k \in {6, 7, 16, 17}
    <3>1. ReadsOf(Full[k]) = {"content-analysis"}
      BY <2>2, FullStages DEF ReadsOf
    <3>2. QED BY <2>2, <3>1, <1>2
  <2>3. CASE k \in {9, 18}
    BY <2>3, <1>3, <1>4, FullStages DEF ReadsOf
  <2>4. CASE k \in {12, 19}
    BY <2>4, <1>1, <1>2, <1>5, FullStages DEF ReadsOf
  <2>5. CASE k \in {20, 21, 22}
    BY <2>5, <1>1, <1>6, <1>7, <1>8, FullStages DEF ReadsOf
  <2>6. k # 14
    BY FullStages
  <2>7. QED BY <2>1, <2>2, <2>3, <2>4, <2>5, <2>6
<1>10. QED BY <1>9 DEF Earlier

LEMMA BodyMakes ==
    ASSUME run > 0, made \subseteq StageNames, NEW k \in 2..22, Body(Full[k]),
           \A i \in 2..(k - 1) : Full[i] # "backup-value" => Full[i] \in made
    PROVE  Full[k] # "backup-value" => Full[k] \in made'
<1>1. Full[k] \in StageNames
  BY FullStages DEF StageNames, ContentKeyed, EntryKeyed
<1>2. Full[k] # "backup-value" => ReadsOf(Full[k]) \subseteq made
  BY ReadsAreEarlier
<1>3. QED BY <1>1, <1>2, BodyReads, RebuildEffect

LEMMA ContentAnalysisEffect ==
    ASSUME TablesTypeOK, NEW narrow, NEW unread, NEW unparsed,
           ContentAnalysis(narrow, unread, unparsed)
    PROVE  /\ TablesTypeOK' /\ Grows /\ saw' = saw
           /\ made \ {"content-analysis"} \subseteq made'
           /\ run > 0 => "content-analysis" \in made'
           /\ parsed \subseteq linked => parsed' \subseteq linked'
           /\ \A c \in InScope : \/ c \in parsed' \cup unread \cup unparsed
                                 \/ narrow /\ c[1] \notin rows
           /\ unparsed \subseteq InScope
<1>1. InScope \subseteq Contents
  BY DEF InScope
<1>2. "content-analysis" \in StageNames
  BY DEF StageNames, ContentKeyed
<1>3. Rebuild("content-analysis", {})
  BY DEF ContentAnalysis
<1>4. made' \subseteq StageNames /\ made \ {"content-analysis"} \subseteq made'
      /\ (run > 0 => "content-analysis" \in made')
  BY <1>2, <1>3, RebuildEffect DEF TablesTypeOK
<1>5. /\ linked' = linked \cup (InScope \ unread)
      /\ parsed' = parsed \cup (Plan(narrow, linked') \ unparsed)
      /\ unparsed \subseteq Plan(narrow, linked')
      /\ saw' = saw
  BY DEF ContentAnalysis
<1>6. QED BY <1>1, <1>4, <1>5 DEF Plan, TablesTypeOK, Grows

LEMMA CutEffect ==
    ASSUME TablesTypeOK, CutHere
    PROVE  /\ TablesTypeOK' /\ Grows
           /\ parsed \subseteq linked => parsed' \subseteq linked'
<1>1. InScope \subseteq Contents
  BY DEF InScope
<1>2. CASE UNCHANGED tables
  BY <1>2 DEF tables, TablesTypeOK, Grows
<1>3. CASE CutShort(Stage)
  <2>1. /\ linked' \in {linked, linked \cup InScope} /\ saw' = saw /\ made' \subseteq made
        /\ \/ parsed' = parsed
           \/ \E ok \in SUBSET ((InScope \cap linked') \ parsed) : parsed' = parsed \cup ok
    BY <1>3 DEF CutShort, tables, HashSome
  <2>2. QED BY <1>1, <2>1 DEF TablesTypeOK, Grows
<1>4. QED BY <1>2, <1>3 DEF CutHere

---------------------------------------------------------------------------
(* Types, what is left of an operation, and the runner.  A run is numbered
   within its bound because no other operation came between the submission of
   a quickstart and its scan.                                               *)

CoreInv == TypeOK /\ TodoInv /\ RunnerInv

LEMMA StagesOfEffect ==
    ASSUME NEW o \in Operations
    PROVE  /\ StagesOf(o) \in Seq(StageNames \cup {"scan", "purge"})
           /\ o \in Quickstarts => StagesOf(o) = Full
           /\ o \notin Quickstarts => \A i \in 1..Len(StagesOf(o)) : StagesOf(o)[i] # "scan"
<1>1. CASE o \in Quickstarts
  <2>1. StagesOf(o) = Full
    <3>1. o \notin {"analyse", "classify", "report", "purge"}
      BY <1>1 DEF Quickstarts
    <3>2. QED BY <1>1, <3>1, Zenon DEF StagesOf, Full
  <2>2. Full \in Seq(StageNames \cup {"scan", "purge"})
    <3>1. StageNames \cup {"scan"} \subseteq StageNames \cup {"scan", "purge"}
      OBVIOUS
    <3>2. QED BY <3>1, FullStages, SeqMonotonic
  <2>3. QED BY <1>1, <2>1, <2>2
<1>2. CASE o \in {"analyse", "classify", "report", "purge"}
  <2>1. o \notin Quickstarts
    BY <1>2 DEF Quickstarts
  <2>2. {"exact-duplicates", "directory-overlap", "content-analysis", "projects", "classify",
         "reports"} \subseteq StageNames
    BY DEF StageNames, ContentKeyed, EntryKeyed
  <2>3. CASE o = "analyse"
    <3>1. StagesOf(o) = <<"exact-duplicates", "directory-overlap", "content-analysis", "projects">>
      BY <2>1, <2>3 DEF StagesOf
    <3>2. QED BY <2>1, <2>2, <3>1
  <2>4. CASE o # "analyse"
    <3>1. \E s \in StageNames \cup {"purge"} : StagesOf(o) = <<s>> /\ s # "scan"
      BY <1>2, <2>1, <2>2, <2>4 DEF StagesOf
    <3>2. QED BY <2>1, <3>1
  <2>5. QED BY <2>3, <2>4
<1>3. QED BY <1>1, <1>2 DEF Operations, Quickstarts

LEMMA CoreInit == Init => CoreInv
<1> SUFFICES ASSUME Init PROVE CoreInv
  OBVIOUS
<1>1. TypeOK
  <2>1. FirstVersions \in [Files -> 1..MaxVersion]
    BY PipelineAssumption DEF FirstVersions
  <2>2. TablesTypeOK
    BY DEF Init, TablesTypeOK
  <2>3. mode \in [incremental : BOOLEAN, narrow : BOOLEAN, token : 0..MaxRuns]
    BY PipelineAssumption DEF Init, Whole
  <2>4. prev \in {"none", "COMPLETED", "COMPLETED_WITH_ERRORS", "stopped"} /\ failed \subseteq Contents
        /\ rstate \in {"idle", "running", "stopped"} /\ phase \in {"none", "working", "closing"}
        /\ op \in Operations \cup {NoOp} /\ errors \in BOOLEAN /\ marker \in BOOLEAN
        /\ baseline \in BOOLEAN
    BY DEF Init
  <2>5. accepted \in Seq(Operations) /\ queue \in Seq(Operations)
        /\ todo \in Seq(StageNames \cup {"scan", "purge"})
    BY DEF Init
  <2>6. /\ run \in 0..MaxRuns /\ changedIn \in 0..run /\ ops \in 0..MaxOps
        /\ rows \subseteq Files
    <3>1. run = 0 /\ changedIn = 0 /\ ops = 0 /\ rows = {}
      BY DEF Init
    <3>2. QED BY <3>1, PipelineAssumption
  <2>7. snap = FirstVersions /\ disk = FirstVersions /\ done \subseteq Reusable \X (1..MaxRuns)
    BY DEF Init
  <2>8. QED BY <2>1, <2>2, <2>3, <2>4, <2>5, <2>6, <2>7 DEF TypeOK
<1>2. Len(todo) = 0 /\ TodoInv
  BY DEF Init, TodoInv, InQuick, NoOp, Quickstarts, Left
<1>3. RunnerInv
  BY DEF Init, RunnerInv, OneAtATime, Underway, NoOp, Quickstarts, Awaits, InQuick
<1>4. QED BY <1>1, <1>2, <1>3 DEF CoreInv

LEMMA RecordRunType ==
    ASSUME TypeOK, RecordRun, run < MaxRuns
    PROVE  /\ run' \in 1..MaxRuns /\ snap' \in [Files -> 1..MaxVersion] /\ rows' \subseteq Files
           /\ baseline' \in BOOLEAN /\ TablesTypeOK' /\ changedIn' \in 0..run' /\ marker' = FALSE
           /\ run' = run + 1
<1> USE DEF TypeOK, RecordRun
<1>1. run' \in 1..MaxRuns /\ run' = run + 1 /\ rows' \subseteq Files /\ TablesTypeOK'
  BY PipelineAssumption DEF TablesTypeOK
<1>2. changedIn' \in 0..run'
  BY <1>1
<1>3. QED BY <1>1, <1>2

\* What is left of a stage list after its first.
LEMMA TodoStep ==
    ASSUME TypeOK, TodoInv, todo # <<>>, todo' = Tail(todo), UNCHANGED <<op, phase>>
    PROVE  /\ todo' \in Seq(StageNames \cup {"scan", "purge"}) /\ TodoInv'
           /\ Left \in Nat /\ Left > 0 /\ Left' = Left - 1
           /\ Stage = todo[1]
           /\ InQuick => Left <= 22 /\ Stage = Full[23 - Left]
<1> DEFINE S == StageNames \cup {"scan", "purge"}
<1>1. todo \in Seq(S)
  BY DEF TypeOK
<1>2. Len(todo) \in Nat \ {0}
  BY <1>1, EmptySeq
<1>3. /\ todo' \in Seq(S) /\ Len(todo') = Len(todo) - 1
      /\ \A i \in 1..Len(todo') : todo'[i] = todo[i + 1]
  BY <1>1, HeadTailProperties
<1>4. Stage = todo[1]
  BY DEF Stage
<1> HIDE DEF S
<1>5. Left \in Nat \ {0} /\ Left' = Left - 1
  BY <1>2, <1>3 DEF Left
<1>6. InQuick' => Left' <= 22 /\ \A i \in 1..Left' : todo'[i] = Full[22 - Left' + i]
  <2>1. SUFFICES ASSUME InQuick'
                 PROVE  Left' <= 22 /\ \A i \in 1..Left' : todo'[i] = Full[22 - Left' + i]
    OBVIOUS
  <2>2. InQuick
    BY <2>1 DEF InQuick
  <2>3. Left <= 22 /\ \A i \in 1..Left : todo[i] = Full[22 - Left + i]
    BY <2>2 DEF TodoInv
  <2>4. ASSUME NEW i \in 1..Left' PROVE todo'[i] = Full[22 - Left' + i]
    <3>1. todo'[i] = todo[i + 1] /\ i + 1 \in 1..Left
      BY <2>4, <1>3, <1>5 DEF Left
    <3>2. todo[i + 1] = Full[22 - Left + (i + 1)]
      BY <2>3, <3>1
    <3>3. 22 - Left + (i + 1) = 22 - Left' + i
      BY <1>5, <2>4
    <3>4. QED BY <3>1, <3>2, <3>3
  <2>5. Left' <= 22
    BY <1>5, <2>3
  <2>6. QED BY <2>4, <2>5
<1>7. op' \notin Quickstarts => \A i \in 1..Left' : todo'[i] # "scan"
  BY <1>3, <1>5 DEF TodoInv, Left
<1>8. InQuick => Left <= 22 /\ Stage = Full[23 - Left]
  <2>1. SUFFICES ASSUME InQuick PROVE Left <= 22 /\ Stage = Full[23 - Left]
    OBVIOUS
  <2>2. Left <= 22 /\ todo[1] = Full[22 - Left + 1]
    BY <2>1, <1>5 DEF TodoInv
  <2>3. 22 - Left + 1 = 23 - Left
    BY <1>5
  <2>4. QED BY <1>4, <2>2, <2>3
<1>9. TodoInv'
  BY <1>6, <1>7 DEF TodoInv
<1>10. QED BY <1>3, <1>4, <1>5, <1>8, <1>9 DEF S

\* The runner from the point of view of its lock: what makes it free or busy, and
\* the run that a quickstart may still record.
LEMMA Submitted ==
    ASSUME CoreInv, NEW o \in Operations, Submit(o)
    PROVE  CoreInv'
<1> USE DEF CoreInv
<1>1. accepted = <<>> /\ queue = <<>> /\ phase # "working"
  BY EmptySeq DEF TypeOK, RunnerInv, OneAtATime, Underway, Submit
<1>2. accepted' = <<o>> /\ rstate' = "running" /\ ops' = ops + 1 /\ ops < MaxOps
  BY <1>1 DEF Submit
<1>3. UNCHANGED <<scopeVars, tables, disk, changedIn, jobs, queue, worker, history>>
  BY DEF Submit
<1>4. TypeOK'
  <2>1. accepted' \in Seq(Operations)
    BY <1>2
  <2>2. ops' \in 0..MaxOps
    BY <1>2, PipelineAssumption DEF TypeOK
  <2>3. TablesTypeOK'
    BY <1>3 DEF TypeOK, TablesTypeOK, tables
  <2>4. QED BY <1>2, <1>3, <2>1, <2>2, <2>3 DEF TypeOK, scopeVars, jobs, worker, history
<1>5. TodoInv'
  BY <1>3 DEF TodoInv, InQuick, Left, worker
<1>6. RunnerInv'
  <2>1. OneAtATime' /\ (phase' = "none" <=> op' = NoOp) /\ ~InQuick'
    BY <1>1, <1>2, <1>3 DEF RunnerInv, OneAtATime, Underway, InQuick, worker
  <2>2. (\E q \in Quickstarts : Awaits(q)') => run' < MaxRuns
    BY <1>1, <1>2, <1>3 DEF Submit, Awaits, scopeVars
  <2>3. QED BY <2>1, <2>2 DEF RunnerInv
<1>7. QED BY <1>4, <1>5, <1>6

LEMMA EmptyLen ==
    ASSUME NEW S, NEW q \in Seq(S)
    PROVE  Len(q) \in Nat /\ (q = <<>> <=> Len(q) = 0)
BY EmptySeq

LEMMA OneLong ==
    ASSUME NEW S, NEW q \in Seq(S), Len(q) = 1
    PROVE  q[1] \in S /\ Head(q) = q[1] /\ Tail(q) = <<>>
<1>1. q # <<>> /\ q[1] \in S
  BY EmptySeq
<1>2. Head(q) = q[1]
  BY DEF Head
<1>3. Tail(q) \in Seq(S) /\ Len(Tail(q)) = 0
  BY <1>1, HeadTailProperties
<1>4. QED BY <1>1, <1>2, <1>3, EmptyLen

\* While the worker is in an operation none waits, and none runs while one waits.
LEMMA Alone ==
    ASSUME TypeOK, RunnerInv
    PROVE  /\ phase = "working" => accepted = <<>> /\ queue = <<>> /\ rstate = "running"
           /\ accepted # <<>> => Len(accepted) = 1 /\ queue = <<>> /\ phase # "working" /\ rstate = "running"
           /\ queue # <<>> => Len(queue) = 1 /\ accepted = <<>> /\ phase # "working" /\ rstate = "running"
<1> DEFINE a == Len(accepted)
           q == Len(queue)
<1>1. /\ a \in Nat /\ (accepted = <<>> <=> a = 0)
      /\ q \in Nat /\ (queue = <<>> <=> q = 0)
  BY EmptyLen DEF TypeOK
<1>2. a + q + (IF phase = "working" THEN 1 ELSE 0) = IF rstate = "running" THEN 1 ELSE 0
  BY DEF RunnerInv, OneAtATime, Underway
<1> HIDE DEF a, q
<1>3. a \in Nat /\ q \in Nat
  BY <1>1
<1>4. /\ phase = "working" => a = 0 /\ q = 0 /\ rstate = "running"
      /\ a # 0 => a = 1 /\ q = 0 /\ phase # "working" /\ rstate = "running"
      /\ q # 0 => q = 1 /\ a = 0 /\ phase # "working" /\ rstate = "running"
  BY <1>2, <1>3
<1>5. QED BY <1>1, <1>4, Zenon DEF a, q

\* A step within an operation leaves the runner as it is.
LEMMA Working ==
    ASSUME CoreInv, phase = "working", todo # <<>>, todo' = Tail(todo),
           UNCHANGED <<runner, op, phase>>
    PROVE  TodoInv' /\ RunnerInv'
<1>1. accepted = <<>> /\ queue = <<>> /\ rstate = "running"
  BY Alone DEF CoreInv
<1>2. TodoInv' /\ (InQuick' => Left' # 22)
  BY TodoStep DEF CoreInv, InQuick
<1>3. OneAtATime' /\ (phase' = "none" <=> op' = NoOp)
  BY DEF CoreInv, RunnerInv, OneAtATime, Underway, runner
<1>4. ~(\E o \in Quickstarts : Awaits(o)')
  BY <1>1 DEF Awaits, runner
<1>5. QED BY <1>2, <1>3, <1>4 DEF RunnerInv

LEMMA Enqueued == ASSUME CoreInv, Enqueue PROVE CoreInv'
<1> USE DEF CoreInv
<1>1. PICK i \in DOMAIN accepted :
        /\ queue' = Append(queue, accepted[i])
        /\ accepted' = SubSeq(accepted, 1, i - 1) \o SubSeq(accepted, i + 1, Len(accepted))
  BY DEF Enqueue
<1>2. UNCHANGED <<scopeVars, tables, disk, changedIn, jobs, rstate, ops, worker, history>>
  BY DEF Enqueue
<1>3. Len(accepted) = 1 /\ i = 1 /\ queue = <<>> /\ phase # "working" /\ rstate = "running"
  <2>1. accepted # <<>> /\ i \in 1..Len(accepted)
    BY <1>1, EmptySeq DEF TypeOK
  <2>2. QED BY <2>1, Alone
<1>4. accepted' = <<>>
  BY <1>1, <1>3
<1>5. queue' \in Seq(Operations) /\ Len(queue') = 1 /\ queue'[1] = accepted[1]
  <2>1. accepted[1] \in Operations
    BY <1>3, OneLong DEF TypeOK
  <2>2. queue' = Append(queue, accepted[1]) /\ queue \in Seq(Operations) /\ Len(queue) = 0
    <3>1. queue \in Seq(Operations) /\ Len(queue) = 0
      <4>1. queue \in Seq(Operations)
        BY DEF TypeOK
      <4>2. queue = <<>>
        BY <1>3
      <4>3. QED BY <4>1, <4>2, EmptySeq
    <3>2. QED BY <1>1, <1>3, <3>1, Zenon
  <2>3. QED BY <2>1, <2>2, AppendProperties
<1>6. TypeOK'
  <2>1. TablesTypeOK'
    BY <1>2 DEF TypeOK, TablesTypeOK, tables
  <2>2. queue' \in Seq(Operations) /\ accepted' \in Seq(Operations)
    BY <1>4, <1>5
  <2>3. QED BY <1>2, <2>1, <2>2 DEF TypeOK, scopeVars, jobs, worker, history
<1>7. TodoInv'
  BY <1>2 DEF TodoInv, InQuick, Left, worker
<1>8. RunnerInv'
  <2>1. OneAtATime'
    BY <1>2, <1>3, <1>4, <1>5 DEF OneAtATime, Underway, worker
  <2>2. \A o \in Quickstarts : Awaits(o)' => Awaits(o)
    BY <1>3, <1>4, <1>5 DEF Awaits
  <2>3. ~InQuick' /\ (phase' = "none" <=> op' = NoOp) /\ run' = run
    BY <1>2, <1>3 DEF RunnerInv, InQuick, worker, scopeVars
  <2>4. QED BY <2>1, <2>2, <2>3 DEF RunnerInv
<1>9. QED BY <1>6, <1>7, <1>8

LEMMA Taken == ASSUME CoreInv, Take PROVE CoreInv'
<1> USE DEF CoreInv
<1>1. Len(queue) = 1 /\ accepted = <<>> /\ rstate = "running"
  BY Alone DEF Take
<1>2. op' = queue[1] /\ op' \in Operations /\ queue' = <<>> /\ phase' = "working"
      /\ todo' = StagesOf(op') /\ mode' = Whole /\ errors' = FALSE
  <2>1. op' = Head(queue) /\ queue' = Tail(queue) /\ phase' = "working"
        /\ todo' = StagesOf(op') /\ mode' = Whole /\ errors' = FALSE
    BY Zenon DEF Take
  <2>2. queue \in Seq(Operations)
    BY DEF TypeOK
  <2>3. Head(queue) = queue[1] /\ queue[1] \in Operations /\ Tail(queue) = <<>>
    BY <1>1, <2>2, OneLong
  <2>4. QED BY <2>1, <2>3, Zenon
<1>3. UNCHANGED <<scopeVars, tables, disk, changedIn, jobs, rstate, accepted, ops, history>>
  BY DEF Take
<1>4. TypeOK'
  <2>1. TablesTypeOK'
    BY <1>3 DEF TypeOK, TablesTypeOK, tables
  <2>2. todo' \in Seq(StageNames \cup {"scan", "purge"})
    BY <1>2, StagesOfEffect
  <2>3. mode' \in [incremental : BOOLEAN, narrow : BOOLEAN, token : 0..MaxRuns]
    BY <1>2, PipelineAssumption DEF Whole
  <2>4. queue' \in Seq(Operations)
    BY <1>2
  <2>5. QED BY <1>2, <1>3, <2>1, <2>2, <2>3, <2>4 DEF TypeOK, scopeVars, jobs, history
<1>5. TodoInv'
  <2>1. op' \in Quickstarts => todo' = Full
    BY <1>2, StagesOfEffect
  <2>2. op' \in Quickstarts => Left' = 22 /\ \A i \in 1..22 : todo'[i] = Full[22 - 22 + i]
    BY <2>1, FullStages DEF Left
  <2>3. op' \notin Quickstarts => \A i \in 1..Left' : todo'[i] # "scan"
    BY <1>2, StagesOfEffect DEF Left
  <2>4. QED BY <2>2, <2>3 DEF TodoInv, InQuick
<1>6. RunnerInv'
  <2>1. OneAtATime' /\ op' # NoOp
    BY <1>1, <1>2, <1>3 DEF OneAtATime, Underway, Operations, NoOp
  <2>2. \A o \in Quickstarts : ~Awaits(o)'
    BY <1>1, <1>2, <1>3 DEF Awaits
  <2>3. op' \in Quickstarts => run < MaxRuns
    BY <1>1, <1>2 DEF RunnerInv, Awaits
  <2>4. QED BY <1>2, <1>3, <2>1, <2>2, <2>3 DEF RunnerInv, InQuick, scopeVars
<1>7. QED BY <1>4, <1>5, <1>6

\* What touches neither the runner nor the worker.
LEMMA Untouched ==
    ASSUME TodoInv, RunnerInv, UNCHANGED <<run, rstate, accepted, queue, op, phase, todo>>
    PROVE  TodoInv' /\ RunnerInv'
BY DEF TodoInv, RunnerInv, OneAtATime, Underway, Awaits, InQuick, Left

LEMMA Edited == ASSUME CoreInv, NEW f \in Files, Edit(f) PROVE CoreInv'
<1> USE DEF CoreInv
<1>1. disk' \in [Files -> 1..MaxVersion]
  BY PipelineAssumption DEF Edit, TypeOK
<1>2. UNCHANGED <<scopeVars, tables, changedIn, jobs, runner, worker, history>>
  BY DEF Edit
<1>3. TypeOK'
  <2>1. TablesTypeOK'
    BY <1>2 DEF TypeOK, TablesTypeOK, tables
  <2>2. QED BY <1>1, <1>2, <2>1 DEF TypeOK, scopeVars, jobs, runner, worker, history
<1>4. TodoInv' /\ RunnerInv'
  BY <1>2, Untouched DEF scopeVars, runner, worker
<1>5. QED BY <1>3, <1>4

LEMMA PlainlyScanned == ASSUME CoreInv, PlainScan PROVE CoreInv'
<1> USE DEF CoreInv
<1>1. run < MaxRuns /\ RecordRun /\ ops < MaxOps /\ ops' = ops + 1
      /\ op = NoOp /\ queue = <<>> /\ accepted = <<>>
  BY DEF PlainScan, Quiet
<1>2. UNCHANGED <<disk, done, prev, rstate, accepted, queue, worker, history>>
  BY DEF PlainScan
<1>3. TypeOK'
  <2>1. run' \in 0..MaxRuns
    BY <1>1, RecordRunType
  <2>2. ops' \in 0..MaxOps
    BY <1>1, PipelineAssumption DEF TypeOK
  <2>3. QED BY <1>1, <1>2, <2>1, <2>2, RecordRunType DEF TypeOK, worker, history
<1>4. TodoInv'
  BY <1>2 DEF TodoInv, InQuick, Left, worker
<1>5. RunnerInv'
  <2>1. ~(\E o \in Quickstarts : Awaits(o)')
    BY <1>1, <1>2 DEF Awaits
  <2>2. ~InQuick'
    BY <1>1, <1>2 DEF InQuick, worker, Quickstarts, NoOp
  <2>3. OneAtATime' /\ (phase' = "none" <=> op' = NoOp)
    BY <1>2 DEF RunnerInv, OneAtATime, Underway, worker
  <2>4. QED BY <2>1, <2>2, <2>3 DEF RunnerInv
<1>6. QED BY <1>3, <1>4, <1>5

\* Only a quickstart scans, and it scans first.
LEMMA LaterStages == \A k \in 2..22 : Full[k] \in StageNames /\ Full[k] # "scan"
<1>1. ASSUME NEW k \in 2..8 PROVE Full[k] \in StageNames /\ Full[k] # "scan"
  BY <1>1, FullStages DEF StageNames, ContentKeyed, EntryKeyed
<1>2. ASSUME NEW k \in 9..15 PROVE Full[k] \in StageNames /\ Full[k] # "scan"
  BY <1>2, FullStages DEF StageNames, ContentKeyed, EntryKeyed
<1>3. ASSUME NEW k \in 16..22 PROVE Full[k] \in StageNames /\ Full[k] # "scan"
  BY <1>3, FullStages DEF StageNames, ContentKeyed, EntryKeyed
<1>4. QED BY <1>1, <1>2, <1>3

LEMMA ScanIsFirst ==
    ASSUME CoreInv, AtStage, Stage = "scan"
    PROVE  InQuick /\ Left = 22 /\ run < MaxRuns
<1> USE DEF CoreInv
<1>1. todo # <<>> /\ phase = "working" /\ todo[1] = "scan" /\ Len(todo) \in Nat \ {0}
  BY EmptySeq DEF AtStage, Stage, TypeOK
<1>2. InQuick
  BY <1>1 DEF TodoInv, Left, InQuick
<1>3. Left \in 1..22 /\ Full[23 - Left] = "scan"
  <2>1. Left \in 1..22 /\ todo[1] = Full[22 - Left + 1]
    <3>1. Left <= 22 /\ \A i \in 1..Left : todo[i] = Full[22 - Left + i]
      BY <1>2 DEF TodoInv
    <3>2. Left \in Nat \ {0}
      BY <1>1 DEF Left
    <3>3. QED BY <3>1, <3>2
  <2>2. 22 - Left + 1 = 23 - Left
    BY <2>1
  <2>3. QED BY <1>1, <2>1, <2>2
<1>4. Left = 22
  <2>1. 23 - Left \in 1..22 /\ 23 - Left \notin 2..22
    BY <1>3, LaterStages
  <2>2. QED BY <1>3, <2>1
<1>5. QED BY <1>2, <1>4 DEF RunnerInv

LEMMA TokenType == ASSUME NEW n \in 0..MaxRuns PROVE Token(n) \in 1..MaxRuns
BY PipelineAssumption DEF Token

LEMMA Scans == ASSUME CoreInv, Scan PROVE CoreInv'
<1> USE DEF CoreInv
<1>1. InQuick /\ Left = 22 /\ run < MaxRuns /\ RecordRun /\ phase = "working"
      /\ todo # <<>> /\ todo' = Tail(todo)
  BY ScanIsFirst DEF Scan, AtStage
<1>2. UNCHANGED <<disk, done, prev, runner, op, phase, errors, history>>
  BY DEF Scan
<1>3. mode' \in [incremental : BOOLEAN, narrow : BOOLEAN, token : 0..MaxRuns]
  <2>1. changedIn' \in 0..MaxRuns
    <3>1. changedIn' \in 0..run' /\ run' \in 1..MaxRuns
      BY <1>1, RecordRunType
    <3>2. QED BY <3>1, PipelineAssumption
  <2>2. Token(changedIn') \in 0..MaxRuns
    BY <2>1, TokenType
  <2>3. (op # "full" /\ baseline') \in BOOLEAN /\ (op # "full" /\ baseline' /\ MayNarrow) \in BOOLEAN
    OBVIOUS
  <2>4. QED BY <2>2, <2>3 DEF Scan
<1>4. todo' \in Seq(StageNames \cup {"scan", "purge"})
  BY <1>1, <1>2, TodoStep
<1>5. TypeOK'
  <2>1. /\ run' \in 0..MaxRuns /\ snap' \in [Files -> 1..MaxVersion] /\ rows' \subseteq Files
        /\ baseline' \in BOOLEAN /\ TablesTypeOK' /\ changedIn' \in 0..run' /\ marker' \in BOOLEAN
    BY <1>1, RecordRunType
  <2>2. QED BY <1>2, <1>3, <1>4, <2>1 DEF TypeOK, runner, history
<1>6. TodoInv' /\ RunnerInv'
  BY <1>1, <1>2, Working
<1>7. QED BY <1>5, <1>6

LEMMA Purges == ASSUME CoreInv, PurgeRuns PROVE CoreInv'
<1> USE DEF CoreInv
<1>1. phase = "working" /\ todo # <<>> /\ todo' = Tail(todo)
  BY DEF PurgeRuns, AtStage
<1>2. UNCHANGED <<disk, runner, op, phase, mode, errors>>
  BY DEF PurgeRuns
<1>3. todo' \in Seq(StageNames \cup {"scan", "purge"})
  BY <1>1, <1>2, TodoStep
<1>4. TypeOK'
  <2>1. FirstVersions \in [Files -> 1..MaxVersion]
    BY PipelineAssumption DEF FirstVersions
  <2>2. TablesTypeOK'
    BY DEF PurgeRuns, TablesTypeOK
  <2>3. /\ run' = 0 /\ changedIn' = 0 /\ snap' = FirstVersions /\ rows' = {} /\ baseline' = FALSE
        /\ done' = {} /\ prev' = "none" /\ marker' = FALSE /\ failed' = {}
    BY DEF PurgeRuns, NewestRecordLeft
  <2>4. run' \in 0..MaxRuns /\ changedIn' \in 0..run'
    BY <2>3, PipelineAssumption
  <2>5. QED BY <1>2, <1>3, <2>1, <2>2, <2>3, <2>4 DEF TypeOK, runner
<1>5. TodoInv' /\ RunnerInv'
  BY <1>1, <1>2, Working
<1>6. QED BY <1>4, <1>5

LEMMA Skips == ASSUME CoreInv, Skip PROVE CoreInv'
<1> USE DEF CoreInv
<1>1. phase = "working" /\ todo # <<>> /\ todo' = Tail(todo)
  BY DEF Skip, AtStage
<1>2. UNCHANGED <<scopeVars, linked, parsed, saw, disk, changedIn, done, prev, runner, op, phase,
                  mode, errors, history>>
  BY DEF Skip
<1>3. todo' \in Seq(StageNames \cup {"scan", "purge"})
  BY <1>1, <1>2, TodoStep
<1>4. TypeOK'
  <2>1. made' \subseteq StageNames /\ marker' = FALSE
    BY DEF Skip, TypeOK, TablesTypeOK, StageNames
  <2>2. TablesTypeOK'
    BY <1>2, <2>1 DEF TypeOK, TablesTypeOK
  <2>3. QED BY <1>2, <1>3, <2>1, <2>2 DEF TypeOK, scopeVars, runner, history
<1>5. TodoInv' /\ RunnerInv'
  BY <1>1, <1>2, Working
<1>6. QED BY <1>4, <1>5

\* A stage that has settled.
LEMMA Settled ==
    ASSUME CoreInv, NEW s \in StageNames, NEW errs \in BOOLEAN, AtStage, Settle(s, errs),
           TablesTypeOK', failed' \subseteq Contents
    PROVE  CoreInv'
<1> USE DEF CoreInv
<1>1. phase = "working" /\ todo # <<>> /\ todo' = Tail(todo)
  BY DEF Settle, AtStage
<1>2. UNCHANGED <<scopeVars, disk, changedIn, prev, runner, op, phase, mode>>
  BY DEF Settle
<1>3. todo' \in Seq(StageNames \cup {"scan", "purge"})
  BY <1>1, <1>2, TodoStep
<1>4. TypeOK'
  <2>1. done' \subseteq Reusable \X (1..MaxRuns)
    <3>1. mode.token \in 0..MaxRuns
      BY DEF TypeOK
    <3>2. HasFingerprint(s) => <<s, mode.token>> \in Reusable \X (1..MaxRuns)
      BY <3>1 DEF HasFingerprint
    <3>3. QED BY <3>2 DEF Settle, TypeOK
  <2>2. errors' \in BOOLEAN /\ marker' \in BOOLEAN
    BY DEF Settle, TypeOK
  <2>3. QED BY <1>2, <1>3, <2>1, <2>2 DEF TypeOK, scopeVars, runner
<1>5. TodoInv' /\ RunnerInv'
  BY <1>1, <1>2, Working
<1>6. QED BY <1>4, <1>5

LEMMA RunsStage == ASSUME CoreInv, RunStage PROVE CoreInv'
<1>1. AtStage /\ Stage \in StageNames /\ Settle(Stage, FALSE) /\ failed' = failed
  BY DEF RunStage
<1>2. TablesTypeOK'
  <2>1. CASE UNCHANGED tables
    BY <2>1 DEF CoreInv, TypeOK, TablesTypeOK, tables
  <2>2. CASE Body(Stage)
    BY <1>1, <2>2, BodyEffect DEF CoreInv, TypeOK
  <2>3. QED BY <2>1, <2>2 DEF RunStage
<1>3. failed' \subseteq Contents
  BY <1>1 DEF CoreInv, TypeOK
<1>4. QED BY <1>1, <1>2, <1>3, Settled

LEMMA AnalysesContent == ASSUME CoreInv, RunContentAnalysis PROVE CoreInv'
<1>1. PICK unread \in SUBSET (InScope \ linked), unparsed \in SUBSET InScope :
        /\ ContentAnalysis(mode.narrow, unread, unparsed)
        /\ Settle(Stage, ContentAnalysisErrs(mode.narrow, unread, unparsed))
        /\ failed' = failed \cup unread \cup unparsed
  BY DEF RunContentAnalysis
<1>2. AtStage /\ Stage \in StageNames
  BY DEF RunContentAnalysis, StageNames, ContentKeyed
<1>3. TablesTypeOK'
  BY <1>1, ContentAnalysisEffect DEF CoreInv, TypeOK
<1>4. failed' \subseteq Contents
  BY <1>1 DEF CoreInv, TypeOK, InScope
<1>5. ContentAnalysisErrs(mode.narrow, unread, unparsed) \in BOOLEAN
  BY DEF ContentAnalysisErrs
<1>6. QED BY <1>1, <1>2, <1>3, <1>4, <1>5, Settled

\* The end of an operation, the stop and the death of it.
LEMMA Leaves ==
    ASSUME CoreInv, phase = "working", phase' = "closing", rstate' \in {"idle", "stopped"},
           UNCHANGED <<run, accepted, queue, op, todo>>
    PROVE  TodoInv' /\ RunnerInv'
<1>1. accepted' = <<>> /\ queue' = <<>> /\ op # NoOp
  BY Alone DEF CoreInv, RunnerInv
<1>2. OneAtATime'
  BY <1>1 DEF OneAtATime, Underway
<1>3. TodoInv'
  BY DEF CoreInv, TodoInv, InQuick, Left
<1>4. QED BY <1>1, <1>2, <1>3 DEF RunnerInv, Awaits, InQuick

LEMMA EndsOp == ASSUME CoreInv, EndOp PROVE CoreInv'
<1> USE DEF CoreInv
<1>1. TypeOK'
  <2>1. /\ prev' \in {"none", "COMPLETED", "COMPLETED_WITH_ERRORS", "stopped"}
        /\ marker' \in BOOLEAN /\ rstate' \in {"idle", "stopped"} /\ phase' = "closing"
    BY DEF EndOp, TypeOK
  <2>2. UNCHANGED <<scopeVars, tables, disk, changedIn, done, accepted, queue, ops, op, todo,
                    mode, errors, history>>
    BY DEF EndOp
  <2>3. TablesTypeOK'
    BY <2>2 DEF TypeOK, TablesTypeOK, tables
  <2>4. QED BY <2>1, <2>2, <2>3 DEF TypeOK, scopeVars, history
<1>2. TodoInv' /\ RunnerInv'
  BY Leaves DEF EndOp, scopeVars
<1>3. QED BY <1>1, <1>2

LEMMA Stops == ASSUME CoreInv, Stop PROVE CoreInv'
<1> USE DEF CoreInv
<1>1. TypeOK'
  <2>1. /\ prev' \in {"none", "COMPLETED", "COMPLETED_WITH_ERRORS", "stopped"}
        /\ rstate' = "stopped" /\ phase' = "closing"
    BY DEF Stop, TypeOK
  <2>2. UNCHANGED <<scopeVars, disk, changedIn, done, marker, accepted, queue, ops, op, todo,
                    mode, errors, history>>
    BY DEF Stop
  <2>3. TablesTypeOK'
    BY CutEffect DEF Stop, TypeOK
  <2>4. QED BY <2>1, <2>2, <2>3 DEF TypeOK, scopeVars, history
<1>2. TodoInv' /\ RunnerInv'
  BY Leaves DEF Stop, AtStage, scopeVars
<1>3. QED BY <1>1, <1>2

\* The worker is free again.
LEMMA Freed ==
    ASSUME CoreInv, op' = NoOp, phase' = "none", todo' = <<>>, mode' = Whole, errors' = FALSE
    PROVE  /\ TodoInv' /\ ~InQuick' /\ (phase' = "none" <=> op' = NoOp)
           /\ op' \in Operations \cup {NoOp} /\ todo' \in Seq(StageNames \cup {"scan", "purge"})
           /\ mode' \in [incremental : BOOLEAN, narrow : BOOLEAN, token : 0..MaxRuns]
           /\ errors' \in BOOLEAN
<1>1. ~InQuick' /\ Left' = 0
  BY DEF InQuick, NoOp, Quickstarts, Left
<1>2. mode' \in [incremental : BOOLEAN, narrow : BOOLEAN, token : 0..MaxRuns]
  BY PipelineAssumption DEF Whole
<1>3. TodoInv'
  BY <1>1 DEF TodoInv
<1>4. todo' \in Seq(StageNames \cup {"scan", "purge"})
  OBVIOUS
<1>5. QED BY <1>1, <1>2, <1>3, <1>4

LEMMA Closes == ASSUME CoreInv, Close PROVE CoreInv'
<1> USE DEF CoreInv
<1>1. UNCHANGED <<scopeVars, tables, disk, changedIn, jobs, runner, history>> /\ phase = "closing"
  BY DEF Close
<1>2. TypeOK'
  <2>1. TablesTypeOK'
    BY <1>1 DEF TypeOK, TablesTypeOK, tables
  <2>2. phase' = "none"
    BY DEF Close
  <2>3. QED BY <1>1, <2>1, <2>2, Freed DEF TypeOK, Close, scopeVars, jobs, runner, history
<1>3. OneAtATime'
  BY <1>1 DEF Close, RunnerInv, OneAtATime, Underway, runner
<1>4. (\E o \in Quickstarts : Awaits(o)') => run' < MaxRuns
  BY <1>1 DEF RunnerInv, Awaits, runner, scopeVars
<1>5. QED BY <1>2, <1>3, <1>4, Freed DEF RunnerInv, Close

LEMMA Dies == ASSUME CoreInv, Die PROVE CoreInv'
<1> USE DEF CoreInv
<1>1. rstate' = "idle" /\ accepted' = <<>> /\ queue' = <<>> /\ phase' = "none"
  BY DEF Die
<1>2. UNCHANGED <<scopeVars, disk, changedIn, done, marker, ops, history>>
  BY DEF Die
<1>3. TypeOK'
  <2>1. TablesTypeOK'
    BY CutEffect DEF Die, TypeOK
  <2>2. prev' \in {"none", "COMPLETED", "COMPLETED_WITH_ERRORS", "stopped"}
    BY DEF Die, TypeOK
  <2>3. accepted' \in Seq(Operations) /\ queue' \in Seq(Operations)
    BY <1>1
  <2>4. QED BY <1>1, <1>2, <2>1, <2>2, <2>3, Freed DEF TypeOK, Die, scopeVars, history
<1>4. OneAtATime'
  BY <1>1 DEF OneAtATime, Underway
<1>5. ~(\E o \in Quickstarts : Awaits(o)')
  BY <1>1 DEF Awaits
<1>6. QED BY <1>3, <1>4, <1>5, Freed DEF RunnerInv, Die

LEMMA CoreStep == CoreInv /\ [Next]_vars => CoreInv'
<1> SUFFICES ASSUME CoreInv, [Next]_vars PROVE CoreInv'
  OBVIOUS
<1>1. CASE \E f \in Files : Edit(f)
  BY <1>1, Edited
<1>2. CASE PlainScan
  BY <1>2, PlainlyScanned
<1>3. CASE \E o \in Operations : Submit(o)
  BY <1>3, Submitted
<1>4. CASE Enqueue
  BY <1>4, Enqueued
<1>5. CASE Resume
  <2>1. "quickstart" \in Operations
    BY DEF Operations
  <2>2. QED BY <1>5, <2>1, Submitted DEF Resume
<1>6. CASE Work
  BY <1>6, Taken, Scans, Purges, Skips, RunsStage, AnalysesContent, EndsOp, Closes DEF Work
<1>7. CASE Stop
  BY <1>7, Stops
<1>8. CASE Die
  BY <1>8, Dies
<1>9. CASE UNCHANGED vars
  <2>1. TypeOK'
    BY <1>9 DEF CoreInv, TypeOK, TablesTypeOK, vars, scopeVars, tables, jobs, runner, worker, history
  <2>2. TodoInv' /\ RunnerInv'
    BY <1>9, Untouched DEF CoreInv, vars, scopeVars, runner, worker
  <2>3. QED BY <2>1, <2>2 DEF CoreInv
<1>10. QED BY <1>1, <1>2, <1>3, <1>4, <1>5, <1>6, <1>7, <1>8, <1>9 DEF Next

\* Types, what is left of an operation and the runner, together.
LEMMA CoreCorrect == Spec => []CoreInv
<1>1. QED BY CoreInit, CoreStep, PTL DEF Spec

\* Every variable keeps its type: the number of a run stays within the room the
\* submission of its quickstart was granted, and a fingerprint names a snapshot.
THEOREM TypeCorrect == Spec => []TypeOK
BY CoreCorrect, PTL DEF CoreInv

\* Whatever the interleaving of the web's threads with the worker, and whatever
\* becomes of an operation, the runner is busy exactly while one accepted operation
\* is between its acceptance and its end: two never run and none is lost.
THEOREM OperationsRunOneAtATime == Spec => []OneAtATime
BY CoreCorrect, PTL DEF CoreInv, RunnerInv

---------------------------------------------------------------------------
(* The mode of an operation and the fingerprints.  The step of each action keeps
   both, given what it keeps of the core.                                   *)

Named == CoreInv /\ ModeInv /\ TokenInv

LEMMA MidStage ==
    ASSUME CoreInv, AtStage, Stage \in StageNames, todo' = Tail(todo), UNCHANGED <<op, phase>>
    PROVE  /\ phase = "working" /\ (InQuick <=> op \in Quickstarts) /\ (InQuick' <=> InQuick)
           /\ Left' = Left - 1
           /\ InQuick => /\ Scanned /\ Left \in 1..21 /\ Stage = Full[23 - Left]
                         /\ 23 - Left \in 2..22
<1>1. todo # <<>> /\ phase = "working" /\ "scan" \notin StageNames
  BY DEF AtStage, StageNames, ContentKeyed, EntryKeyed
<1>2. /\ Left \in Nat /\ Left > 0 /\ Left' = Left - 1
      /\ InQuick => Left <= 22 /\ Stage = Full[23 - Left]
  BY <1>1, TodoStep DEF CoreInv
<1>3. InQuick => Left # 22
  <2>1. SUFFICES ASSUME InQuick, Left = 22 PROVE FALSE
    OBVIOUS
  <2>2. Stage = Full[1]
    BY <1>2, <2>1
  <2>3. QED BY <1>1, <2>2, FullStages
<1>4. QED BY <1>1, <1>2, <1>3 DEF InQuick, Scanned

LEMMA NotPurging == ASSUME CoreInv, AtStage, Stage = "purge" PROVE op \notin Quickstarts
<1> SUFFICES ASSUME op \in Quickstarts PROVE FALSE
  OBVIOUS
<1>1. InQuick /\ Len(todo) \in Nat \ {0}
  BY EmptySeq DEF AtStage, InQuick, CoreInv, TypeOK
<1>2. Left \in 1..22 /\ todo[1] = Full[22 - Left + 1] /\ todo[1] = "purge"
  <2>1. Left <= 22 /\ \A i \in 1..Left : todo[i] = Full[22 - Left + i]
    BY <1>1 DEF CoreInv, TodoInv
  <2>2. Left \in Nat \ {0}
    BY <1>1 DEF Left
  <2>3. QED BY <2>1, <2>2 DEF Stage
<1>3. 22 - Left + 1 \in 1..22
  BY <1>2
<1>4. \A k \in 1..22 : Full[k] # "purge"
  <2>1. "purge" \notin StageNames
    BY DEF StageNames, ContentKeyed, EntryKeyed
  <2>2. \A k \in 2..22 : Full[k] # "purge"
    BY <2>1, LaterStages
  <2>3. Full[1] # "purge"
    BY FullStages
  <2>4. QED BY <2>2, <2>3
<1>5. QED BY <1>2, <1>3, <1>4

LEMMA NamedInit == Init => ModeInv /\ TokenInv
<1> SUFFICES ASSUME Init PROVE ModeInv /\ TokenInv
  OBVIOUS
<1>1. ModeInv
  BY DEF Init, ModeInv, Scanned, InQuick
<1>2. TokenInv
  BY PipelineAssumption DEF Init, TokenInv, FirstVersions
<1>3. QED BY <1>1, <1>2

\* What a step that records no run and settles no job does to the fingerprints.
LEMMA TokenKept ==
    ASSUME TokenInv, UNCHANGED <<snap, run, changedIn, done, served>>,
           CoreInv, disk' \in [Files -> 1..MaxVersion], \A f \in Files : disk[f] <= disk'[f]
    PROVE  TokenInv'
<1>1. \A f \in Files : snap'[f] <= disk'[f]
  BY DEF TokenInv, CoreInv, TypeOK
<1>2. QED BY <1>1 DEF TokenInv

\* A snapshot seen before is the new one only when nothing changed, and then the
\* token stays.
LEMMA TokenRecorded ==
    ASSUME CoreInv, TokenInv, RecordRun, run < MaxRuns, UNCHANGED <<disk, done, served>>
    PROVE  TokenInv'
<1>1. snap \in [Files -> 1..MaxVersion] /\ disk \in [Files -> 1..MaxVersion] /\ run \in Nat
  BY DEF CoreInv, TypeOK
<1>2. snap' = disk /\ run' = run + 1
      /\ rows' = {f \in Files : run > 0 /\ snap[f] # disk[f]}
      /\ changedIn' = (IF rows' = {} THEN changedIn ELSE run')
  BY DEF RecordRun
<1>3. \A f \in Files : snap'[f] <= disk'[f]
  BY <1>1, <1>2
<1>4. \A j \in done' : j[2] <= run'
  <2>1. \A j \in done : j[2] \in Int
    BY DEF CoreInv, TypeOK
  <2>2. QED BY <1>1, <1>2, <2>1 DEF TokenInv
<1>5. ASSUME NEW v \in served'
      PROVE  /\ v[1] \in ContentKeyed
             /\ v[2] \in [Files -> 1..MaxVersion] /\ \A f \in Files : v[2][f] <= snap'[f]
             /\ v[2] = snap' => <<v[1], Token(changedIn')>> \in done'
  <2>1. /\ v[1] \in ContentKeyed
        /\ v[2] \in [Files -> 1..MaxVersion] /\ \A f \in Files : v[2][f] <= snap[f]
        /\ v[2] = snap => <<v[1], Token(changedIn)>> \in done
    BY <1>5 DEF TokenInv
  <2>2. \A f \in Files : snap[f] <= disk[f]
    BY DEF TokenInv
  <2>3. \A f \in Files : v[2][f] \in Nat /\ snap[f] \in Nat /\ disk[f] \in Nat
    BY <1>1, <2>1
  <2>4. \A f \in Files : v[2][f] <= snap'[f]
    BY <1>2, <2>1, <2>2, <2>3
  <2>5. ASSUME v[2] = snap' PROVE <<v[1], Token(changedIn')>> \in done'
    <3>1. \A f \in Files : snap[f] = disk[f]
      BY <1>2, <2>1, <2>2, <2>3, <2>5
    <3>2. snap = disk /\ rows' = {}
      BY <1>1, <1>2, <3>1
    <3>3. v[2] = snap /\ changedIn' = changedIn /\ done' = done
      BY <1>2, <2>5, <3>2
    <3>4. QED BY <2>1, <3>3
  <2>6. QED BY <2>1, <2>4, <2>5
<1>6. QED BY <1>3, <1>4, <1>5 DEF TokenInv

\* The job that settles names the current snapshot.
LEMMA FingerprintIsCurrent ==
    ASSUME Named, AtStage, Stage \in StageNames, todo' = Tail(todo), UNCHANGED <<op, phase>>
    PROVE  /\ op \in Quickstarts => mode.token = Token(changedIn) /\ run > 0
           /\ op \notin Quickstarts => mode.token = 0
           /\ Token(changedIn) \in 1..MaxRuns /\ (run > 0 => Token(changedIn) <= run)
<1>1. op \in Quickstarts => Scanned
  BY MidStage DEF Named
<1>2. run \in 0..MaxRuns /\ changedIn \in 0..run
  BY DEF Named, CoreInv, TypeOK
<1>3. Token(changedIn) \in 1..MaxRuns /\ (run > 0 => Token(changedIn) <= run)
  BY <1>2, PipelineAssumption DEF Token
<1>4. QED BY <1>1, <1>3 DEF Named, ModeInv, Whole

LEMMA TokenSettled ==
    ASSUME Named, AtStage, Stage \in StageNames, NEW errs \in BOOLEAN, Settle(Stage, errs)
    PROVE  TokenInv'
<1>1. UNCHANGED <<scopeVars, disk, changedIn, op, phase>> /\ todo' = Tail(todo)
  BY DEF Settle
<1>2. /\ op \in Quickstarts => mode.token = Token(changedIn) /\ run > 0
      /\ op \notin Quickstarts => mode.token = 0
      /\ Token(changedIn) \in 1..MaxRuns /\ (run > 0 => Token(changedIn) <= run)
  BY <1>1, FingerprintIsCurrent
<1>3. \A j \in done' : j \in done \/ (j = <<Stage, Token(changedIn)>> /\ run > 0)
  BY <1>2 DEF Settle, HasFingerprint
<1>4. ASSUME NEW v \in served' \ served
      PROVE  v = <<Stage, snap>> /\ Stage \in ContentKeyed /\ <<Stage, Token(changedIn)>> \in done'
  <2>1. v = <<Stage, snap>> /\ Stage \in ContentKeyed /\ op \in Quickstarts /\ ~errs
    BY <1>4 DEF Settle
  <2>2. HasFingerprint(Stage)
    BY <1>2, <2>1 DEF HasFingerprint, Reusable
  <2>3. QED BY <1>2, <2>1, <2>2 DEF Settle
<1>5. done \subseteq done'
  BY DEF Settle
<1>6. run' = run /\ snap' = snap /\ disk' = disk /\ changedIn' = changedIn
  BY <1>1 DEF scopeVars
<1>7. snap \in [Files -> 1..MaxVersion]
  BY DEF Named, CoreInv, TypeOK
<1>8. \A j \in done' : j[2] <= run'
  BY <1>2, <1>3, <1>6 DEF Named, TokenInv
<1>9. ASSUME NEW v \in served'
      PROVE  /\ v[1] \in ContentKeyed
             /\ v[2] \in [Files -> 1..MaxVersion] /\ \A f \in Files : v[2][f] <= snap[f]
             /\ v[2] = snap => <<v[1], Token(changedIn)>> \in done'
  <2>1. CASE v \in served
    BY <1>5, <2>1 DEF Named, TokenInv
  <2>2. CASE v \notin served
    <3>1. v = <<Stage, snap>> /\ Stage \in ContentKeyed /\ <<Stage, Token(changedIn)>> \in done'
      BY <1>4, <1>9, <2>2
    <3>2. \A f \in Files : snap[f] <= snap[f]
      BY <1>7
    <3>3. QED BY <1>7, <3>1, <3>2
  <2>3. QED BY <2>1, <2>2
<1>10. QED BY <1>6, <1>8, <1>9 DEF Named, TokenInv

\* The mode of an operation, action by action.
LEMMA ModeKept ==
    ASSUME ModeInv, UNCHANGED <<run, changedIn, op, phase, todo, mode>>
    PROVE  ModeInv'
BY DEF ModeInv, Scanned, InQuick, Left, Token

LEMMA ModeWithin ==
    ASSUME Named, AtStage, Stage \in StageNames, todo' = Tail(todo),
           UNCHANGED <<op, phase, run, changedIn, mode>>
    PROVE  ModeInv'
<1>1. /\ InQuick <=> op \in Quickstarts
      /\ InQuick' <=> InQuick
      /\ InQuick => Scanned /\ Left \in 1..21 /\ Left' = Left - 1
  BY MidStage DEF Named
<1>2. InQuick' => Left' # 22 /\ Scanned
  BY <1>1
<1>3. QED BY <1>2 DEF Named, ModeInv, Scanned, Token

LEMMA NamedStep == Named /\ CoreInv' /\ [Next]_vars => ModeInv' /\ TokenInv'
<1> SUFFICES ASSUME Named, CoreInv', [Next]_vars PROVE ModeInv' /\ TokenInv'
  OBVIOUS
<1>0. CoreInv /\ ModeInv /\ TokenInv /\ disk' \in [Files -> 1..MaxVersion]
      /\ disk \in [Files -> 1..MaxVersion]
  BY DEF Named, CoreInv, TypeOK
<1>1. ASSUME UNCHANGED disk PROVE \A f \in Files : disk[f] <= disk'[f]
  BY <1>0, <1>1
<1>2. ASSUME NEW f \in Files, Edit(f) PROVE ModeInv' /\ TokenInv'
  <2>1. UNCHANGED <<run, snap, changedIn, done, served, op, phase, todo, mode>>
    BY <1>2 DEF Edit, scopeVars, jobs, worker, history
  <2>2. \A g \in Files : disk[g] <= disk'[g]
    BY <1>0, <1>2 DEF Edit
  <2>3. QED BY <1>0, <2>1, <2>2, TokenKept, ModeKept
<1>3. CASE PlainScan
  <2>1. /\ RecordRun /\ run < MaxRuns /\ op = NoOp
        /\ UNCHANGED <<disk, done, served, op, phase, todo, mode>>
    BY <1>3 DEF PlainScan, Quiet, worker, history
  <2>2. ModeInv'
    <3>1. op' \notin Quickstarts /\ ~InQuick' /\ ~InQuick
      BY <2>1 DEF Quickstarts, NoOp, InQuick
    <3>2. QED BY <1>0, <2>1, <3>1 DEF ModeInv, Scanned, Whole
  <2>3. QED BY <1>0, <2>1, <2>2, TokenRecorded
<1>4. CASE (\E o \in Operations : Submit(o)) \/ Enqueue \/ Resume \/ UNCHANGED vars
  <2>1. UNCHANGED <<run, snap, changedIn, disk, done, served, op, phase, todo, mode>>
    BY <1>4 DEF Submit, Enqueue, Resume, vars, scopeVars, jobs, worker, history
  <2>2. QED BY <1>0, <1>1, <2>1, TokenKept, ModeKept
<1>5. CASE Take
  <2>1. UNCHANGED <<run, snap, changedIn, disk, done, served>> /\ mode' = Whole
        /\ todo' = StagesOf(op') /\ op' = Head(queue)
    BY <1>5 DEF Take, scopeVars, jobs, history
  <2>2. op' \in Quickstarts => Left' = 22
    BY <2>1, StagesOfEffect, FullStages DEF Quickstarts, Operations, Left
  <2>3. QED BY <1>0, <1>1, <2>1, <2>2, TokenKept DEF ModeInv, Scanned, InQuick
<1>6. CASE Scan
  <2>1. /\ RecordRun /\ InQuick /\ run < MaxRuns /\ todo # <<>> /\ todo' = Tail(todo)
        /\ UNCHANGED <<disk, done, served, op, phase>> /\ Left = 22
        /\ mode'.token = Token(changedIn')
    BY <1>0, <1>6, ScanIsFirst DEF Scan, AtStage, history
  <2>2. InQuick' /\ Left' # 22 /\ op' \in Quickstarts
    BY <1>0, <2>1, TodoStep DEF CoreInv, InQuick
  <2>3. run' > 0
    BY <1>0, <2>1, RecordRunType DEF CoreInv
  <2>4. Token(changedIn)' = Token(changedIn')
    BY DEF Token
  <2>5. QED BY <1>0, <2>1, <2>2, <2>3, <2>4, TokenRecorded DEF ModeInv
<1>7. CASE PurgeRuns
  <2>1. op \notin Quickstarts /\ UNCHANGED <<op, phase, mode, disk>>
    BY <1>0, <1>7, NotPurging DEF PurgeRuns
  <2>2. ModeInv'
    BY <1>0, <2>1 DEF ModeInv, Scanned, InQuick, Whole
  <2>3. TokenInv'
    BY <1>0, <1>7 DEF PurgeRuns, TokenInv, FirstVersions
  <2>4. QED BY <2>2, <2>3
<1>8. CASE Skip
  <2>1. /\ AtStage /\ Stage \in StageNames /\ todo' = Tail(todo)
        /\ UNCHANGED <<run, snap, changedIn, disk, done, served, op, phase, mode>>
    BY <1>8 DEF Skip, scopeVars, history
  <2>2. QED BY <1>0, <1>1, <2>1, TokenKept, ModeWithin
<1>9. ASSUME NEW errs \in BOOLEAN, AtStage, Stage \in StageNames, Settle(Stage, errs)
      PROVE  ModeInv' /\ TokenInv'
  BY <1>9, TokenSettled, ModeWithin DEF Settle, scopeVars
<1>10. CASE RunStage
  BY <1>9, <1>10 DEF RunStage
<1>11. CASE RunContentAnalysis
  <2>1. \E errs \in BOOLEAN : Settle(Stage, errs)
    BY <1>11 DEF RunContentAnalysis, ContentAnalysisErrs
  <2>2. AtStage /\ Stage \in StageNames
    BY <1>11 DEF RunContentAnalysis, StageNames, ContentKeyed
  <2>3. QED BY <1>9, <2>1, <2>2
<1>12. CASE EndOp \/ Stop
  <2>1. UNCHANGED <<run, snap, changedIn, disk, done, served, op, todo, mode>> /\ phase' = "closing"
    BY <1>12 DEF EndOp, Stop, scopeVars, history
  <2>2. ModeInv'
    BY <1>0, <2>1 DEF ModeInv, Scanned, InQuick, Whole
  <2>3. QED BY <1>0, <1>1, <2>1, <2>2, TokenKept
<1>13. CASE Close \/ Die
  <2>1. UNCHANGED <<run, snap, changedIn, disk, done, served>> /\ mode' = Whole /\ phase' = "none"
    BY <1>13 DEF Close, Die, scopeVars, jobs, history
  <2>2. ModeInv'
    BY <2>1 DEF ModeInv, Scanned, InQuick
  <2>3. QED BY <1>0, <1>1, <2>1, <2>2, TokenKept
<1>14. QED BY <1>2, <1>3, <1>4, <1>5, <1>6, <1>7, <1>8, <1>10, <1>11, <1>12, <1>13 DEF Next, Work

\* Types, runner, modes and fingerprints, together.
LEMMA NamedCorrect == Spec => []Named
<1>1. Init => Named
  BY CoreInit, NamedInit DEF Named
<1>2. Named /\ [Next]_vars => Named'
  BY CoreStep, NamedStep DEF Named
<1>3. QED BY <1>1, <1>2, PTL DEF Spec

\* Resume continues, for any history of stops, failures and purges: an incremental
\* quickstart never begins a reusable stage that has already completed for the very
\* snapshot it has just recorded.
THEOREM ReusableStagesAreNotRedone == Spec => FinishedStagesAreNotRedone
<1> DEFINE Redo == (RunStage \/ RunContentAnalysis) /\ mode.incremental
<1>1. Named /\ Redo => <<Stage, snap>> \notin served
  <2> SUFFICES ASSUME Named, Redo, <<Stage, snap>> \in served PROVE FALSE
    OBVIOUS
  <2>1. /\ AtStage /\ Stage \in StageNames /\ todo' = Tail(todo) /\ UNCHANGED <<op, phase>>
        /\ ~Reuses(Stage) /\ mode.incremental
    BY DEF RunStage, RunContentAnalysis, Settle, StageNames, ContentKeyed
  <2>2. op \in Quickstarts
    BY <2>1 DEF Named, ModeInv, Whole
  <2>3. mode.token = Token(changedIn) /\ Token(changedIn) \in 1..MaxRuns
    BY <2>1, <2>2, FingerprintIsCurrent
  <2>4. Stage \in Reusable /\ <<Stage, Token(changedIn)>> \in done
    BY DEF Named, TokenInv, Reusable
  <2>5. mode.token # 0
    BY <2>3
  <2>6. Reuses(Stage)
    BY <2>1, <2>3, <2>4, <2>5 DEF Reuses, HasFingerprint
  <2>7. QED BY <2>1, <2>6
<1>2. Named /\ [Next]_vars => [Redo => <<Stage, snap>> \notin served]_vars
  BY <1>1
<1>3. QED BY <1>2, NamedCorrect, PTL DEF Spec, FinishedStagesAreNotRedone

---------------------------------------------------------------------------
(* The tables of a run.                                                     *)

LEMMA EveryEntryStageRuns ==
    \A s \in EntryKeyed : \E k \in 2..22 : s = Full[k]
<1>1. ASSUME NEW s \in {"exact-duplicates", "directory-overlap", "projects", "backup-lineage",
                        "normalized-content", "derivations"}
      PROVE  \E k \in 2..22 : s = Full[k]
  BY <1>1, FullStages
<1>2. ASSUME NEW s \in {"canonical-roles", "archive-of-directory", "backup-value", "record-series",
                        "preservation-risk", "photo-events"}
      PROVE  \E k \in 2..22 : s = Full[k]
  BY <1>2, FullStages
<1>3. ASSUME NEW s \in {"contact-sheets", "classify", "review-priority", "lifecycle", "reports"}
      PROVE  \E k \in 2..22 : s = Full[k]
  BY <1>3, FullStages
<1> DEFINE First == {"exact-duplicates", "directory-overlap", "projects", "backup-lineage",
                     "normalized-content", "derivations"}
           Second == {"canonical-roles", "archive-of-directory", "backup-value", "record-series",
                      "preservation-risk", "photo-events"}
           Third == {"contact-sheets", "classify", "review-priority", "lifecycle", "reports"}
<1>4. EntryKeyed \subseteq First \cup Second \cup Third
  BY DEF EntryKeyed
<1> HIDE DEF First, Second, Third
<1>5. /\ \A s \in First : \E k \in 2..22 : s = Full[k]
      /\ \A s \in Second : \E k \in 2..22 : s = Full[k]
      /\ \A s \in Third : \E k \in 2..22 : s = Full[k]
  BY <1>1, <1>2, <1>3, Zenon DEF First, Second, Third
<1>6. QED BY <1>4, <1>5

LEMMA ReportsComeLast == \A k \in 2..21 : Full[k] # "reports"
<1>1. ASSUME NEW k \in 2..11 PROVE Full[k] # "reports"
  BY <1>1, FullStages
<1>2. ASSUME NEW k \in 12..21 PROVE Full[k] # "reports"
  BY <1>2, FullStages
<1>3. QED BY <1>1, <1>2

\* A stage of a quickstart has passed, run or skipped.
LEMMA MadeWithin ==
    ASSUME Named, MadeInv, AtStage, Stage \in StageNames, todo' = Tail(todo),
           UNCHANGED <<op, phase>>, made \ {Stage} \subseteq made',
           InQuick /\ Stage # "backup-value" => Stage \in made',
           marker' => Stage = "reports"
    PROVE  MadeInv'
<1>1. /\ phase = "working" /\ (InQuick' <=> InQuick)
      /\ InQuick => /\ Left \in 1..21 /\ Left' = Left - 1 /\ Stage = Full[23 - Left]
                    /\ 23 - Left \in 2..22
  BY MidStage DEF Named
<1>2. ASSUME InQuick', NEW i \in 2..(22 - Left'), Full[i] # "backup-value"
      PROVE  Full[i] \in made'
  <2>1. CASE i = 23 - Left
    BY <1>1, <1>2, <2>1
  <2>2. CASE i # 23 - Left
    <3>0. Left \in 1..21 /\ Left' = Left - 1
      BY <1>1, <1>2
    <3>1. i \in 2..(22 - Left)
      <4>1. i \in Int /\ 2 <= i /\ i <= 22 - Left'
        BY <1>2, <3>0
      <4>2. QED BY <2>2, <3>0, <4>1
    <3>2. Full[i] \in made
      BY <1>1, <1>2, <3>1 DEF MadeInv
    <3>3. QED BY <1>1, <1>2, <3>2
  <2>3. QED BY <2>1, <2>2
<1>3. ASSUME InQuick', Left' \in 1..21 PROVE ~marker'
  <2>1. 23 - Left \in 2..21
    BY <1>1, <1>3
  <2>2. Stage # "reports"
    BY <1>1, <1>3, <2>1, ReportsComeLast
  <2>3. QED BY <2>2
<1>4. EndedRunIsWhole'
  BY <1>1 DEF EndedRunIsWhole
<1>5. QED BY <1>2, <1>3, <1>4 DEF MadeInv

LEMMA MadeStep == Named /\ MadeInv /\ CoreInv' /\ [Next]_vars => MadeInv'
<1> SUFFICES ASSUME Named, MadeInv, CoreInv', [Next]_vars PROVE MadeInv'
  OBVIOUS
<1>0. CoreInv /\ TablesTypeOK /\ made \subseteq StageNames
  BY DEF Named, CoreInv, TypeOK, TablesTypeOK
<1>1. CASE (\E f \in Files : Edit(f)) \/ (\E o \in Operations : Submit(o)) \/ Enqueue \/ Resume
           \/ UNCHANGED vars
  <2>1. UNCHANGED <<op, phase, todo, marker, made, prev>>
    BY <1>1 DEF Edit, Submit, Enqueue, Resume, vars, tables, jobs, worker
  <2>2. QED BY <2>1 DEF MadeInv, EndedRunIsWhole, InQuick, Left
<1>2. CASE PlainScan
  <2>1. op' \notin Quickstarts
    BY <1>2 DEF PlainScan, Quiet, worker, NoOp, Quickstarts
  <2>2. QED BY <2>1 DEF MadeInv, EndedRunIsWhole, InQuick
<1>3. CASE Take
  <2>1. todo' = StagesOf(op') /\ op' = Head(queue) /\ phase' = "working"
    BY <1>3 DEF Take
  <2>2. op' \in Quickstarts => Left' = 22
    BY <2>1, StagesOfEffect, FullStages DEF Quickstarts, Operations, Left
  <2>3. QED BY <2>1, <2>2 DEF MadeInv, EndedRunIsWhole, InQuick
<1>4. CASE Scan
  <2>1. /\ RecordRun /\ todo # <<>> /\ todo' = Tail(todo) /\ Left = 22
        /\ UNCHANGED <<op, phase>> /\ phase' = "working" /\ ~marker'
    BY <1>0, <1>4, ScanIsFirst DEF Scan, AtStage, RecordRun
  <2>2. Left' = 21
    BY <1>0, <2>1, TodoStep DEF CoreInv
  <2>3. QED BY <2>1, <2>2 DEF MadeInv, EndedRunIsWhole, InQuick
<1>5. CASE PurgeRuns
  <2>1. op' \notin Quickstarts
    BY <1>0, <1>5, NotPurging DEF PurgeRuns
  <2>2. QED BY <2>1 DEF MadeInv, EndedRunIsWhole, InQuick
<1>6. CASE Skip
  <2>1. /\ AtStage /\ Stage \in StageNames /\ todo' = Tail(todo) /\ UNCHANGED <<op, phase>>
        /\ marker' = FALSE /\ made' = made \cup ({Stage} \cap ContentKeyed) /\ Stage \in ContentKeyed
    BY <1>6 DEF Skip, Reuses, HasFingerprint, Reusable
  <2>2. QED BY <2>1, MadeWithin
<1>7. CASE RunStage
  <2>1. /\ AtStage /\ Stage \in StageNames /\ todo' = Tail(todo) /\ UNCHANGED <<op, phase>>
        /\ marker' = (Stage = "reports")
    BY <1>7 DEF RunStage, Settle
  <2>2. InQuick => /\ Scanned /\ Left \in 1..21 /\ Stage = Full[23 - Left]
                   /\ 23 - Left \in 2..22
    BY <1>0, <2>1, MidStage
  <2>3. made \ {Stage} \subseteq made'
    BY <1>0, <1>7, <2>1, BodyEffect DEF RunStage, tables
  <2>4. ASSUME InQuick, Stage # "backup-value" PROVE Stage \in made'
    <3>1. Body(Stage)
      BY <1>7, <2>2, <2>4 DEF RunStage, MadeInv
    <3>2. run > 0
      BY <2>2, <2>4 DEF Named, ModeInv
    <3>3. \A i \in 2..((23 - Left) - 1) : Full[i] # "backup-value" => Full[i] \in made
      BY <2>2, <2>4 DEF MadeInv
    <3>4. QED BY <1>0, <2>2, <2>4, <3>1, <3>2, <3>3, BodyMakes
  <2>5. QED BY <2>1, <2>3, <2>4, MadeWithin
<1>8. CASE RunContentAnalysis
  <2>1. /\ AtStage /\ Stage = "content-analysis" /\ Stage \in StageNames /\ todo' = Tail(todo)
        /\ UNCHANGED <<op, phase>> /\ marker' = FALSE
    BY <1>8 DEF RunContentAnalysis, Settle, StageNames, ContentKeyed
  <2>2. \E unread, unparsed : ContentAnalysis(mode.narrow, unread, unparsed)
    BY <1>8 DEF RunContentAnalysis
  <2>3. made \ {Stage} \subseteq made' /\ (run > 0 => Stage \in made')
    BY <1>0, <2>1, <2>2, ContentAnalysisEffect
  <2>4. InQuick => run > 0
    BY <1>0, <2>1, MidStage DEF Named, ModeInv
  <2>5. QED BY <2>1, <2>3, <2>4, MadeWithin
<1>9. CASE EndOp
  <2>1. phase = "working" /\ Left = 0 /\ op' = op /\ phase' = "closing" /\ made' = made
    BY <1>9 DEF EndOp, Left, tables
  <2>2. op \in Quickstarts => EntryKeyed \ {"backup-value"} \subseteq made
    BY <2>1, EveryEntryStageRuns DEF MadeInv, InQuick
  <2>3. QED BY <2>1, <2>2 DEF MadeInv, EndedRunIsWhole, InQuick
<1>10. CASE Stop
  <2>1. phase' = "closing" /\ (op' \in Quickstarts => prev' = "stopped")
    BY <1>10 DEF Stop
  <2>2. QED BY <2>1 DEF MadeInv, EndedRunIsWhole, InQuick
<1>11. CASE Close \/ Die
  <2>1. phase' = "none"
    BY <1>11 DEF Close, Die
  <2>2. QED BY <2>1 DEF MadeInv, EndedRunIsWhole, InQuick
<1>12. QED BY <1>1, <1>2, <1>3, <1>4, <1>5, <1>6, <1>7, <1>8, <1>9, <1>10, <1>11 DEF Next, Work

\* The invariant of the tables a quickstart makes, together with those it rests on.
LEMMA MadeCorrect == Spec => [](Named /\ MadeInv)
<1>1. Init => Named /\ MadeInv
  BY CoreInit, NamedInit DEF Named, MadeInv, Init, InQuick, EndedRunIsWhole
<1>2. Named /\ MadeInv /\ [Next]_vars => (Named /\ MadeInv)'
  BY CoreStep, NamedStep, MadeStep DEF Named
<1>3. QED BY <1>1, <1>2, PTL DEF Spec

\* Whatever stages earlier operations stopped in, emptied or rested on older tables:
\* when a quickstart ends, every table that hangs on the rows of a run, but for
\* backup-value, is of this run and rests on tables of this run.
THEOREM EndedRunsAreWhole == Spec => []EndedRunIsWhole
BY MadeCorrect, PTL DEF MadeInv

---------------------------------------------------------------------------
(* What a run is owed, when plain scans only begin an inventory.            *)

LEMMA PaidGrows ==
    ASSUME UNCHANGED scopeVars, Grows, failed \subseteq failed'
    PROVE  /\ InScope' = InScope
           /\ Paid => Paid'
           /\ \A s \in Similarity : SawAll(s) => SawAll(s)'
<1>1. InScope' = InScope
  BY DEF InScope, scopeVars
<1>2. QED BY <1>1 DEF Paid, SawAll, Grows

\* A stage has passed: what it was to pay is paid, what it leaves to be found again
\* stands for something.
LEMMA DebtWithin ==
    ASSUME Named, DebtInv, AtStage, Stage \in StageNames, todo' = Tail(todo),
           UNCHANGED <<scopeVars, changedIn, op, phase, mode, prev>>,
           Grows, failed \subseteq failed', parsed' \subseteq linked',
           InQuick /\ Stage = "content-analysis" => Paid',
           \A j \in done' \ done : /\ j[1] \in Similarity \cup {"content-analysis"}
                                   /\ j[1] = "content-analysis" => Paid'
                                   /\ j[1] # "content-analysis" => SawAll(j[1])'
    PROVE  DebtInv'
<1>1. /\ InQuick <=> op \in Quickstarts
      /\ InQuick' <=> InQuick
      /\ InQuick => /\ Scanned /\ Left \in 1..21 /\ Left' = Left - 1 /\ Stage = Full[23 - Left]
  BY MidStage DEF Named
<1>2. Scanned' <=> Scanned
  BY <1>1 DEF Scanned
<1>3. /\ InScope' = InScope /\ (Paid => Paid')
      /\ \A s \in Similarity : SawAll(s) => SawAll(s)'
  BY PaidGrows
<1>4. run' = run /\ rows' = rows /\ Token(changedIn)' = Token(changedIn)
  BY DEF scopeVars, Token
<1>5. prev' = "COMPLETED" /\ ~Scanned' => Paid'
  BY <1>2, <1>3 DEF DebtInv
<1>6. Scanned' /\ mode'.narrow => \A c \in InScope' : c[1] \in rows' \/ c \in parsed' \cup failed'
  BY <1>2, <1>3, <1>4 DEF DebtInv, Grows
<1>7. InQuick' /\ Left' <= 19 => Paid'
  <2>1. SUFFICES ASSUME InQuick, Left' <= 19 PROVE Paid'
    BY <1>1
  <2>2. CASE Left <= 19
    BY <1>3, <2>1, <2>2 DEF DebtInv
  <2>3. CASE Left = 20
    <3>1. Stage = Full[3]
      BY <1>1, <2>1, <2>3
    <3>2. QED BY <2>1, <3>1, FullStages
  <2>4. QED BY <1>1, <2>1, <2>2, <2>3
<1>8. ASSUME NEW j \in done', j[2] = Token(changedIn)'
      PROVE  IF j[1] = "content-analysis" THEN Paid' ELSE SawAll(j[1])'
  <2>1. CASE j \in done
    <3>1. j[1] \in Reusable
      BY <2>1 DEF Named, CoreInv, TypeOK
    <3>2. IF j[1] = "content-analysis" THEN Paid ELSE SawAll(j[1])
      BY <1>4, <1>8, <2>1 DEF DebtInv
    <3>3. QED BY <1>3, <3>1, <3>2 DEF Reusable, Similarity
  <2>2. CASE j \notin done
    BY <1>8, <2>2
  <2>3. QED BY <2>1, <2>2
<1>9. run' = 0 => prev' # "COMPLETED"
  BY <1>4 DEF DebtInv
<1>10. QED BY <1>5, <1>6, <1>7, <1>8, <1>9 DEF DebtInv

\* What a similarity stage of a quickstart sees: identity and artifacts are complete
\* by then.
LEMMA StageLooks ==
    ASSUME Named, DebtInv, AtStage, NEW s \in Similarity, Stage = s, todo' = Tail(todo),
           UNCHANGED <<scopeVars, op, phase, failed>>, InQuick, Body(s)
    PROVE  SawAll(s)'
<1>1. Stage \in StageNames /\ TablesTypeOK
  BY DEF StageNames, Similarity, Named, CoreInv, TypeOK
<1>2. Left \in 1..21 /\ Stage = Full[23 - Left]
  BY <1>1, MidStage DEF Named
<1>3. Left <= 19
  <2>1. SUFFICES ASSUME Left \in {20, 21} PROVE FALSE
    BY <1>2
  <2>2. Stage \in {Full[2], Full[3]}
    BY <1>2, <2>1
  <2>3. QED BY <2>2, FullStages DEF Similarity, ContentKeyed
<1>4. InScope \ failed \subseteq parsed /\ parsed \subseteq linked
  BY <1>3 DEF DebtInv, Paid
<1>5. Stage \in {"document-versions", "document-minhash", "image-similarity"}
  BY DEF Similarity, ContentKeyed
<1>6. InScope \ failed \subseteq saw'[s]
  BY <1>1, <1>4, <1>5, BodyEffect
<1>7. InScope' = InScope
  BY DEF InScope, scopeVars
<1>8. QED BY <1>6, <1>7 DEF SawAll

LEMMA DebtInit == Init => DebtInv
<1> SUFFICES ASSUME Init PROVE DebtInv
  OBVIOUS
<1>1. ~Scanned /\ ~InQuick
  BY DEF Init, Scanned, InQuick
<1>2. QED BY <1>1 DEF Init, DebtInv

\* The scan of a quickstart.
LEMMA DebtScanned ==
    ASSUME Named, DebtInv, Scan
    PROVE  DebtInv'
<1>0. /\ snap \in [Files -> 1..MaxVersion] /\ disk \in [Files -> 1..MaxVersion]
      /\ run \in Nat /\ changedIn \in 0..run /\ rows' \subseteq Files
      /\ done \subseteq Reusable \X (1..MaxRuns)
  BY DEF Named, CoreInv, TypeOK, Scan, RecordRun
<1>1. /\ RecordRun /\ InQuick /\ Left = 22 /\ todo # <<>> /\ todo' = Tail(todo)
      /\ UNCHANGED <<disk, done, prev, op, phase, failed>>
  BY ScanIsFirst DEF Named, Scan, AtStage, history
<1>2. /\ snap' = disk /\ run' = run + 1 /\ parsed' = parsed /\ linked' = linked /\ saw' = saw
      /\ rows' = {f \in Files : run > 0 /\ snap[f] # disk[f]}
      /\ baseline' = (run > 0)
      /\ changedIn' = (IF rows' = {} THEN changedIn ELSE run')
  BY <1>1 DEF RecordRun
<1>3. Left' = 21 /\ InQuick' /\ Scanned' /\ ~Scanned
  BY <1>1, TodoStep DEF Named, CoreInv, InQuick, Scanned
<1>4. ASSUME mode'.narrow, NEW c \in InScope', c[1] \notin rows' PROVE c \in parsed' \cup failed'
  <2>1. run > 0 /\ prev = "COMPLETED"
    BY <1>2, <1>4 DEF Scan, MayNarrow
  <2>2. InScope \ failed \subseteq parsed
    BY <1>3, <2>1 DEF DebtInv, Paid
  <2>3. c \in Contents /\ disk[c[1]] = c[2]
    BY <1>2, <1>4 DEF InScope
  <2>4. c \in InScope
    BY <1>2, <1>4, <2>1, <2>3 DEF InScope, Contents
  <2>5. QED BY <1>1, <1>2, <2>2, <2>4
<1>5. ASSUME NEW j \in done', j[2] = Token(changedIn)'
      PROVE  IF j[1] = "content-analysis" THEN Paid' ELSE SawAll(j[1])'
  <2>1. j \in done /\ j[2] \in Nat \ {0} /\ j[2] <= run
    BY <1>0, <1>1, <1>5 DEF Named, TokenInv
  <2>2. rows' = {}
    <3>1. SUFFICES ASSUME rows' # {} PROVE FALSE
      OBVIOUS
    <3>2. Token(changedIn') = run + 1
      BY <1>0, <1>2, <3>1 DEF Token
    <3>3. QED BY <1>0, <1>5, <2>1, <3>2 DEF Token
  <2>3. snap' = snap /\ Token(changedIn)' = Token(changedIn)
    <3>1. \A f \in Files : snap[f] = disk[f]
      BY <1>0, <1>2, <2>1, <2>2
    <3>2. QED BY <1>0, <1>2, <2>2, <3>1 DEF Token
  <2>4. InScope' = InScope
    BY <1>0, <1>2, <2>1, <2>3 DEF InScope
  <2>5. IF j[1] = "content-analysis" THEN Paid ELSE SawAll(j[1])
    BY <1>5, <2>1, <2>3 DEF DebtInv
  <2>6. QED BY <1>1, <1>2, <2>4, <2>5 DEF Paid, SawAll
<1>6. run' # 0 /\ parsed' \subseteq linked'
  BY <1>0, <1>2 DEF DebtInv
<1>7. QED BY <1>3, <1>4, <1>5, <1>6 DEF DebtInv

\* What is not a stage of a quickstart, nor its scan.
LEMMA DebtBetween ==
    ASSUME CoreInv, DebtInv, UNCHANGED <<scopeVars, changedIn, done, failed>>, Grows,
           parsed' \subseteq linked', ~Scanned', InQuick' => Left' = 22,
           prev' = "COMPLETED" => run > 0 /\ ((prev = "COMPLETED" /\ ~Scanned) \/ Paid)
    PROVE  DebtInv'
<1>1. /\ InScope' = InScope /\ (Paid => Paid')
      /\ \A s \in Similarity : SawAll(s) => SawAll(s)'
  BY PaidGrows
<1>2. run' = run /\ Token(changedIn)' = Token(changedIn) /\ run \in Nat
  BY DEF scopeVars, Token, CoreInv, TypeOK
<1>3. prev' = "COMPLETED" => Paid'
  BY <1>1 DEF DebtInv
<1>4. ASSUME NEW j \in done', j[2] = Token(changedIn)'
      PROVE  IF j[1] = "content-analysis" THEN Paid' ELSE SawAll(j[1])'
  <2>1. j \in done /\ j[1] \in Reusable
    BY <1>4 DEF CoreInv, TypeOK
  <2>2. IF j[1] = "content-analysis" THEN Paid ELSE SawAll(j[1])
    BY <1>2, <1>4, <2>1 DEF DebtInv
  <2>3. QED BY <1>1, <2>1, <2>2 DEF Reusable, Similarity
<1>5. InQuick' => ~(Left' <= 19)
  OBVIOUS
<1>6. QED BY <1>2, <1>3, <1>4, <1>5 DEF DebtInv

LEMMA DebtStep ==
    ASSUME PlainScans = FALSE, Named, DebtInv, CoreInv', [Next]_vars
    PROVE  DebtInv'
<1>0. CoreInv /\ TablesTypeOK /\ run \in Nat /\ parsed \subseteq linked
  BY DEF Named, CoreInv, TypeOK, DebtInv
<1>1. CASE (\E f \in Files : Edit(f)) \/ (\E o \in Operations : Submit(o)) \/ Enqueue \/ Resume
           \/ UNCHANGED vars
  <2>1. UNCHANGED <<scopeVars, tables, changedIn, done, failed, prev, op, phase, todo, mode>>
    BY <1>1 DEF Edit, Submit, Enqueue, Resume, vars, jobs, worker, history
  <2>2. QED
    BY <2>1 DEF DebtInv, Scanned, InQuick, Left, Paid, SawAll, InScope, Token, scopeVars, tables
<1>2. CASE PlainScan
  <2>1. run = 0 /\ run' = 1 /\ op' \notin Quickstarts
        /\ UNCHANGED <<linked, parsed, done, prev>>
    BY <1>0, <1>2 DEF PlainScan, RecordRun, Quiet, worker, NoOp, Quickstarts
  <2>2. done' = {}
    <3>1. \A j \in done : j[2] \in 1..MaxRuns /\ j[2] <= 0
      BY <1>0, <2>1 DEF Named, TokenInv, CoreInv, TypeOK
    <3>2. \A j \in done : FALSE
      BY <3>1
    <3>3. QED BY <2>1, <3>2
  <2>3. prev' # "COMPLETED" /\ ~Scanned' /\ ~InQuick'
    BY <2>1 DEF DebtInv, Scanned, InQuick
  <2>4. QED BY <1>0, <2>1, <2>2, <2>3 DEF DebtInv
<1>3. CASE Take
  <2>1. /\ UNCHANGED <<scopeVars, tables, changedIn, done, failed, prev>>
        /\ todo' = StagesOf(op') /\ op' = Head(queue) /\ op = NoOp
    BY <1>3 DEF Take, jobs, history
  <2>2. op' \in Quickstarts => Left' = 22
    BY <2>1, StagesOfEffect, FullStages DEF Quickstarts, Operations, Left
  <2>3. ~Scanned /\ ~Scanned' /\ (InQuick' => Left' = 22) /\ Grows /\ parsed' \subseteq linked'
    BY <1>0, <2>1, <2>2 DEF Scanned, InQuick, NoOp, Quickstarts, Grows, tables
  <2>4. prev' = "COMPLETED" => run > 0
    BY <1>0, <2>1 DEF DebtInv
  <2>5. QED BY <1>0, <2>1, <2>3, <2>4, DebtBetween
<1>4. CASE Scan
  BY <1>4, DebtScanned
<1>5. CASE PurgeRuns
  <2>1. op' \notin Quickstarts
    BY <1>0, <1>5, NotPurging DEF PurgeRuns
  <2>2. ~Scanned' /\ ~InQuick' /\ prev' = "none" /\ parsed' = {} /\ done' = {} /\ run' = 0
    BY <1>5, <2>1 DEF PurgeRuns, Scanned, InQuick
  <2>3. QED BY <2>2 DEF DebtInv
<1>6. CASE Skip
  <2>1. /\ AtStage /\ Stage \in StageNames /\ todo' = Tail(todo)
        /\ UNCHANGED <<scopeVars, changedIn, op, phase, mode, prev, done, failed, linked, parsed, saw>>
        /\ Reuses(Stage)
    BY <1>6 DEF Skip, history
  <2>2. Grows /\ parsed' \subseteq linked'
    BY <1>0, <2>1 DEF Grows
  <2>3. <<Stage, Token(changedIn)>> \in done
    <3>1. op \in Quickstarts
      BY <2>1 DEF Reuses, HasFingerprint, Named, ModeInv, Whole
    <3>2. mode.token = Token(changedIn)
      BY <2>1, <3>1, FingerprintIsCurrent
    <3>3. QED BY <2>1, <3>2 DEF Reuses
  <2>4. Stage = "content-analysis" => Paid'
    BY <2>1, <2>2, <2>3, PaidGrows DEF DebtInv
  <2>5. QED BY <2>1, <2>2, <2>4, DebtWithin
<1>7. CASE RunStage
  <2>1. /\ AtStage /\ Stage \in StageNames /\ todo' = Tail(todo) /\ Stage # "content-analysis"
        /\ UNCHANGED <<scopeVars, changedIn, op, phase, mode, prev, failed>>
    BY <1>7 DEF RunStage, Settle
  <2>2. Grows /\ parsed' = parsed
    <3>1. CASE UNCHANGED tables
      BY <3>1 DEF tables, Grows
    <3>2. CASE Body(Stage)
      BY <1>0, <2>1, <3>2, BodyEffect
    <3>3. QED BY <1>7, <3>1, <3>2 DEF RunStage
  <2>3. parsed' \subseteq linked'
    BY <1>0, <2>2 DEF Grows
  <2>4. ASSUME NEW j \in done' \ done
        PROVE  j[1] \in Similarity /\ SawAll(j[1])'
    <3>1. j = <<Stage, mode.token>> /\ HasFingerprint(Stage)
      BY <1>7, <2>4 DEF RunStage, Settle
    <3>2. Stage \in Similarity /\ Stage # "reports"
      BY <2>1, <3>1 DEF HasFingerprint, Reusable, Similarity, ContentKeyed
    <3>3. op \in Quickstarts
      BY <3>1 DEF HasFingerprint, Named, ModeInv, Whole
    <3>4. InQuick
      BY <2>1, <3>3 DEF InQuick, AtStage
    <3>5. PICK s \in Similarity : Stage = s
      BY <3>2
    <3>6. Body(s)
      BY <1>7, <3>2, <3>5 DEF RunStage
    <3>7. SawAll(s)'
      BY <2>1, <3>4, <3>5, <3>6, StageLooks
    <3>8. j[1] = s
      BY <3>1, <3>5
    <3>9. QED BY <3>7, <3>8
  <2>5. "content-analysis" \notin Similarity
    BY DEF Similarity
  <2>6. QED BY <2>1, <2>2, <2>3, <2>4, <2>5, DebtWithin
<1>8. CASE RunContentAnalysis
  <2>1. PICK unread \in SUBSET (InScope \ linked), unparsed \in SUBSET InScope :
          /\ ContentAnalysis(mode.narrow, unread, unparsed)
          /\ Settle(Stage, ContentAnalysisErrs(mode.narrow, unread, unparsed))
          /\ failed' = failed \cup unread \cup unparsed
    BY <1>8 DEF RunContentAnalysis
  <2>2. /\ AtStage /\ Stage = "content-analysis" /\ Stage \in StageNames /\ todo' = Tail(todo)
        /\ UNCHANGED <<scopeVars, changedIn, op, phase, mode, prev>>
    BY <1>8, <2>1 DEF RunContentAnalysis, Settle, StageNames, ContentKeyed
  <2>3. /\ Grows /\ parsed' \subseteq linked'
        /\ \A c \in InScope : \/ c \in parsed' \cup unread \cup unparsed
                              \/ mode.narrow /\ c[1] \notin rows
    BY <1>0, <2>1, ContentAnalysisEffect
  <2>4. ASSUME mode.narrow PROVE \A c \in InScope : c[1] \in rows \/ c \in parsed \cup failed
    <3>1. op \in Quickstarts
      BY <2>4 DEF Named, ModeInv, Whole
    <3>2. Scanned
      BY <1>0, <2>2, <3>1, MidStage
    <3>3. QED BY <2>4, <3>2 DEF DebtInv
  <2>5. InScope' = InScope
    BY <2>2 DEF InScope, scopeVars
  <2>6. Paid'
    BY <2>1, <2>3, <2>4, <2>5 DEF Paid, Grows
  <2>7. \A j \in done' \ done : j[1] = "content-analysis"
    BY <2>1, <2>2 DEF Settle
  <2>8. failed \subseteq failed'
    BY <2>1
  <2>9. QED BY <2>2, <2>3, <2>6, <2>7, <2>8, DebtWithin
<1>9. CASE EndOp
  <2>1. /\ phase = "working" /\ Left = 0 /\ phase' = "closing"
        /\ UNCHANGED <<scopeVars, tables, changedIn, done, failed>>
        /\ op \notin Quickstarts => prev' = prev
    BY <1>9 DEF EndOp, Left, history
  <2>2. Grows /\ parsed' \subseteq linked' /\ ~Scanned' /\ ~InQuick'
    BY <1>0, <2>1 DEF Grows, tables, Scanned, InQuick
  <2>3. op \in Quickstarts => Paid /\ run > 0
    BY <2>1 DEF DebtInv, InQuick, Scanned, Named, ModeInv
  <2>4. op \notin Quickstarts => ~Scanned
    BY DEF Scanned, InQuick
  <2>5. prev = "COMPLETED" => run > 0
    BY <1>0 DEF DebtInv
  <2>6. QED BY <1>0, <2>1, <2>2, <2>3, <2>4, <2>5, DebtBetween
<1>10. CASE Stop \/ Die \/ Close
  <2>1. /\ UNCHANGED <<scopeVars, changedIn, done, failed>> /\ phase' # "working"
        /\ prev' = "COMPLETED" => prev = "COMPLETED" /\ ~Scanned
    BY <1>10 DEF Stop, Die, Close, jobs, history, Scanned, InQuick
  <2>2. Grows /\ parsed' \subseteq linked'
    <3>1. CASE CutHere
      BY <1>0, <3>1, CutEffect
    <3>2. CASE UNCHANGED tables
      BY <1>0, <3>2 DEF Grows, tables
    <3>3. QED BY <1>10, <3>1, <3>2 DEF Stop, Die, Close
  <2>3. ~Scanned' /\ ~InQuick'
    BY <2>1 DEF Scanned, InQuick
  <2>4. prev = "COMPLETED" => run > 0
    BY <1>0 DEF DebtInv
  <2>5. QED BY <1>0, <2>1, <2>2, <2>3, <2>4, DebtBetween
<1>11. QED BY <1>1, <1>2, <1>3, <1>4, <1>5, <1>6, <1>7, <1>8, <1>9, <1>10 DEF Next, Work

\* The invariant of what the stages still owe, together with those it rests on.
LEMMA DebtCorrect == ASSUME PlainScans = FALSE PROVE Spec => [](Named /\ DebtInv)
<1>1. Init => Named /\ DebtInv
  BY CoreInit, NamedInit, DebtInit DEF Named
<1>2. Named /\ DebtInv /\ [Next]_vars => (Named /\ DebtInv)'
  BY CoreStep, NamedStep, DebtStep DEF Named
<1>3. QED BY <1>1, <1>2, PTL DEF Spec

\* Where a plain scan only begins an inventory: narrowing and reuse together owe the
\* user nothing, however the quickstarts before were stopped, failed or killed.
THEOREM NothingIsOwed == ASSUME PlainScans = FALSE PROVE Spec => []NothingOwed
<1>1. DebtInv => NothingOwed
  BY DEF DebtInv, NothingOwed, Clean, Scanned, InQuick, Paid
<1>2. QED BY <1>1, DebtCorrect, PTL

\* The similarity stages of a quickstart, one after the other.
LEMMA SimilarityStages ==
    /\ \A k \in 5..7 : Full[k] \in Similarity
    /\ \A s \in Similarity : \E k \in 5..7 : s = Full[k]
<1>1. 5..7 = {5, 6, 7}
  OBVIOUS
<1>2. Similarity = {"document-versions", "document-minhash", "image-similarity"}
  BY DEF Similarity, ContentKeyed
<1>3. QED BY <1>1, <1>2, FullStages

LEMMA SeenWithin ==
    ASSUME Named, SeenInv, AtStage, Stage \in StageNames, todo' = Tail(todo),
           UNCHANGED <<scopeVars, op, phase>>, Grows, failed \subseteq failed',
           \A s \in Similarity : InQuick /\ Stage = s => SawAll(s)'
    PROVE  SeenInv'
<1>1. /\ phase = "working" /\ (InQuick' <=> InQuick)
      /\ InQuick => Left \in 1..21 /\ Left' = Left - 1 /\ Stage = Full[23 - Left]
  BY MidStage DEF Named
<1>2. ASSUME InQuick', NEW k \in 5..7, Left' <= 22 - k PROVE SawAll(Full[k])'
  <2>1. Full[k] \in Similarity
    BY SimilarityStages
  <2>2. InQuick /\ Left \in 1..21 /\ Left' = Left - 1 /\ Stage = Full[23 - Left]
    BY <1>1, <1>2
  <2>3. CASE Left <= 22 - k
    <3>1. SawAll(Full[k])
      BY <2>2, <2>3 DEF SeenInv
    <3>2. PICK s \in Similarity : s = Full[k]
      BY <2>1
    <3>3. SawAll(s)'
      BY <3>1, <3>2, PaidGrows
    <3>4. QED BY <3>2, <3>3 DEF Full, Order
  <2>4. CASE ~(Left <= 22 - k)
    <3>1. 23 - Left = k
      BY <1>2, <2>2, <2>4
    <3>2. PICK s \in Similarity : s = Full[k]
      BY <2>1
    <3>3. SawAll(s)'
      BY <2>2, <3>1, <3>2
    <3>4. QED BY <3>2, <3>3 DEF Full, Order
  <2>5. QED BY <2>3, <2>4
<1>3. ReusedStagesSaw'
  BY <1>1 DEF ReusedStagesSaw, Clean
<1>4. QED BY <1>2, <1>3 DEF SeenInv

LEMMA SeenStep ==
    ASSUME Named, DebtInv, SeenInv, CoreInv', [Next]_vars
    PROVE  SeenInv'
<1>0. CoreInv /\ TablesTypeOK
  BY DEF Named, CoreInv, TypeOK
<1>1. CASE (\E f \in Files : Edit(f)) \/ (\E o \in Operations : Submit(o)) \/ Enqueue \/ Resume
           \/ UNCHANGED vars
  <2>1. UNCHANGED <<scopeVars, tables, failed, prev, op, phase, todo>>
    BY <1>1 DEF Edit, Submit, Enqueue, Resume, vars, jobs, worker, history
  <2>2. QED
    BY <2>1 DEF SeenInv, ReusedStagesSaw, Clean, InQuick, Left, SawAll, InScope, scopeVars, tables
<1>2. CASE PlainScan
  <2>1. op' \notin Quickstarts
    BY <1>2 DEF PlainScan, Quiet, worker, NoOp, Quickstarts
  <2>2. QED BY <2>1 DEF SeenInv, ReusedStagesSaw, Clean, InQuick
<1>3. CASE Take
  <2>1. todo' = StagesOf(op') /\ op' = Head(queue) /\ phase' = "working"
    BY <1>3 DEF Take
  <2>2. op' \in Quickstarts => Left' = 22
    BY <2>1, StagesOfEffect, FullStages DEF Quickstarts, Operations, Left
  <2>3. QED BY <2>1, <2>2 DEF SeenInv, ReusedStagesSaw, Clean, InQuick
<1>4. CASE Scan
  <2>1. Left = 22 /\ todo # <<>> /\ todo' = Tail(todo) /\ UNCHANGED <<op, phase>> /\ phase = "working"
    BY <1>0, <1>4, ScanIsFirst DEF Scan, AtStage
  <2>2. Left' = 21
    BY <1>0, <2>1, TodoStep DEF CoreInv
  <2>3. QED BY <2>1, <2>2 DEF SeenInv, ReusedStagesSaw, Clean
<1>5. CASE PurgeRuns
  <2>1. op' \notin Quickstarts
    BY <1>0, <1>5, NotPurging DEF PurgeRuns
  <2>2. QED BY <2>1 DEF SeenInv, ReusedStagesSaw, Clean, InQuick
<1>6. CASE Skip
  <2>1. /\ AtStage /\ Stage \in StageNames /\ todo' = Tail(todo) /\ Reuses(Stage)
        /\ UNCHANGED <<scopeVars, op, phase, failed, linked, parsed, saw>>
    BY <1>6 DEF Skip, history
  <2>2. Grows /\ failed \subseteq failed'
    BY <2>1 DEF Grows
  <2>3. ASSUME NEW s \in Similarity, InQuick, Stage = s PROVE SawAll(s)'
    <3>1. op \in Quickstarts
      BY <2>3 DEF InQuick
    <3>2. <<s, Token(changedIn)>> \in done
      BY <2>1, <2>3, <3>1, FingerprintIsCurrent DEF Reuses
    <3>3. SawAll(s)
      BY <3>2 DEF DebtInv, Similarity
    <3>4. QED BY <2>1, <2>2, <3>3, PaidGrows
  <2>4. QED BY <2>1, <2>2, <2>3, SeenWithin
<1>7. CASE RunStage
  <2>1. /\ AtStage /\ Stage \in StageNames /\ todo' = Tail(todo)
        /\ UNCHANGED <<scopeVars, op, phase, failed>>
    BY <1>7 DEF RunStage, Settle
  <2>2. Grows
    <3>1. CASE UNCHANGED tables
      BY <3>1 DEF tables, Grows
    <3>2. CASE Body(Stage)
      BY <1>0, <2>1, <3>2, BodyEffect
    <3>3. QED BY <1>7, <3>1, <3>2 DEF RunStage
  <2>3. ASSUME NEW s \in Similarity, InQuick, Stage = s PROVE SawAll(s)'
    <3>1. Stage # "reports"
      BY <2>3 DEF Similarity, ContentKeyed
    <3>2. Body(s)
      BY <1>7, <2>3, <3>1 DEF RunStage
    <3>3. QED BY <2>1, <2>3, <3>2, StageLooks
  <2>4. QED BY <2>1, <2>2, <2>3, SeenWithin
<1>8. CASE RunContentAnalysis
  <2>1. /\ AtStage /\ Stage = "content-analysis" /\ Stage \in StageNames /\ todo' = Tail(todo)
        /\ UNCHANGED <<scopeVars, op, phase>> /\ failed \subseteq failed'
    BY <1>8 DEF RunContentAnalysis, Settle, StageNames, ContentKeyed
  <2>2. \E unread, unparsed : ContentAnalysis(mode.narrow, unread, unparsed)
    BY <1>8 DEF RunContentAnalysis
  <2>3. Grows
    BY <1>0, <2>2, ContentAnalysisEffect
  <2>4. "content-analysis" \notin Similarity
    BY DEF Similarity
  <2>5. QED BY <2>1, <2>3, <2>4, SeenWithin
<1>9. CASE EndOp
  <2>1. /\ phase = "working" /\ Left = 0 /\ phase' = "closing" /\ op' = op
        /\ UNCHANGED <<scopeVars, tables, failed>>
    BY <1>9 DEF EndOp, Left, history
  <2>2. ASSUME op' \in Quickstarts, NEW s \in Similarity PROVE SawAll(s)'
    <3>1. PICK k \in 5..7 : s = Full[k]
      BY SimilarityStages
    <3>2. InQuick /\ Left <= 22 - k
      BY <2>1, <2>2 DEF InQuick
    <3>3. SawAll(s)
      BY <3>1, <3>2 DEF SeenInv
    <3>4. QED BY <2>1, <3>3 DEF SawAll, InScope, scopeVars, tables
  <2>3. ReusedStagesSaw'
    BY <2>2 DEF ReusedStagesSaw, Clean, SawAll
  <2>4. QED BY <2>1, <2>3 DEF SeenInv, InQuick
<1>10. CASE Stop
  <2>1. phase' = "closing" /\ (op' \in Quickstarts => prev' = "stopped")
    BY <1>10 DEF Stop
  <2>2. QED BY <2>1 DEF SeenInv, ReusedStagesSaw, Clean, InQuick
<1>11. CASE Close \/ Die
  <2>1. phase' = "none"
    BY <1>11 DEF Close, Die
  <2>2. QED BY <2>1 DEF SeenInv, ReusedStagesSaw, Clean, InQuick
<1>12. QED BY <1>1, <1>2, <1>3, <1>4, <1>5, <1>6, <1>7, <1>8, <1>9, <1>10, <1>11 DEF Next, Work

\* Where a plain scan only begins an inventory: a similarity stage that a quickstart
\* took over from an earlier job has seen every content of the run it now stands
\* for, but for those that once failed.
THEOREM ReusedStagesAreTrue == ASSUME PlainScans = FALSE PROVE Spec => []ReusedStagesSaw
<1>1. Init => Named /\ DebtInv /\ SeenInv
  BY CoreInit, NamedInit, DebtInit DEF Named, Init, SeenInv, InQuick, ReusedStagesSaw, Clean
<1>2. Named /\ DebtInv /\ SeenInv /\ [Next]_vars => (Named /\ DebtInv /\ SeenInv)'
  BY CoreStep, NamedStep, DebtStep, SeenStep DEF Named
<1>3. SeenInv => ReusedStagesSaw
  BY DEF SeenInv
<1>4. QED BY <1>1, <1>2, <1>3, PTL DEF Spec
=============================================================================
