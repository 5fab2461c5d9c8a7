------------------------------- MODULE Stages -------------------------------
(* The stages of a pipeline after its scan: src/src/housekeeper/analysers,
   collections, canonical and policies.py, each as what it reads and what it
   leaves in the database for the run in scope.

   Two kinds of output.  What is keyed to content (identity, artifacts,
   families, similarity) outlives the run that needed it: linked, parsed and
   saw.  What is keyed to the rows of a run (groups, directory summaries,
   roles, classifications and what hangs on them) must be made again for every
   run: made holds the stages whose output covers the newest run and rests on
   nothing older or half done.

   Every file is of a kind some parser reads, and below the size and cost
   gates.                                                                   *)
EXTENDS Naturals, FiniteSets

CONSTANTS
    Files,          \* the files of one source
    MaxVersion      \* bound on how often a file is rewritten

Contents == Files \X (1..MaxVersion)

ContentKeyed ==
    {"content-analysis", "document-versions", "document-minhash", "image-similarity"}
EntryKeyed ==
    {"exact-duplicates", "directory-overlap", "projects", "backup-lineage",
     "normalized-content", "derivations", "canonical-roles", "archive-of-directory",
     "backup-value", "record-series", "preservation-risk", "photo-events",
     "contact-sheets", "classify", "review-priority", "lifecycle", "reports"}
StageNames == ContentKeyed \cup EntryKeyed
Similarity == ContentKeyed \ {"content-analysis"}

VARIABLES
    run,       \* the newest complete run, 0 when there is none
    snap,      \* the version of each file the run recorded
    rows,      \* the files the run's change records say changed
    baseline,  \* the run was compared with an earlier one
    linked,    \* contents with a content object
    parsed,    \* contents with a COMPLETED artifact
    saw,       \* contents each similarity stage has taken into account
    made       \* the stages whose output is of the newest run

scopeVars == <<run, snap, rows, baseline>>
tables == <<linked, parsed, saw, made>>

TablesTypeOK ==
    /\ linked \subseteq Contents /\ parsed \subseteq Contents
    /\ saw \in [Similarity -> SUBSET Contents]
    /\ made \subseteq StageNames

InScope == {c \in Contents : run > 0 /\ snap[c[1]] = c[2]}

---------------------------------------------------------------------------
(* Helpers of the stages.                                                   *)

\* A stage that reads the output of another for an older run, or half of it,
\* makes nothing that may stand for this run.
Rebuild(s, reads) ==
    made' = IF run > 0 /\ reads \subseteq made THEN made \cup {s} ELSE made \ {s}

\* The files in scope get their identity, or nothing comes of it: they cannot be
\* read, or are no candidates of this stage.
HashSome == linked' \in {linked, linked \cup InScope}

Look(s, contents) == saw' = [saw EXCEPT ![s] = @ \cup (contents \cap InScope)]

Rebuilds(s, reads) == Rebuild(s, reads) /\ UNCHANGED <<linked, parsed, saw>>
HashesAndRebuilds(s, reads) == HashSome /\ Rebuild(s, reads) /\ UNCHANGED <<parsed, saw>>

---------------------------------------------------------------------------
(* The stages.                                                              *)
ExactDuplicates == HashesAndRebuilds("exact-duplicates", {})

\* What content analysis still owes the run, once every content in known has
\* its identity; a narrowed plan keeps to the files this run saw change.
Plan(narrow, known) ==
    {c \in (InScope \cap known) \ parsed : narrow => c[1] \in rows}

\* Identity for every file, except those that cannot be read (some that have
\* none yet), and then an artifact for every content planned, except those whose
\* parser fails.
ContentAnalysis(narrow, unread, unparsed) ==
    LET known == linked \cup (InScope \ unread)
    IN  /\ unparsed \subseteq Plan(narrow, known)
        /\ linked' = known
        /\ parsed' = parsed \cup (Plan(narrow, known) \ unparsed)
        /\ Rebuild("content-analysis", {})
        /\ UNCHANGED saw

\* Errors of the identity phase reach the job's row only with the progress of a
\* parse that follows them.
ContentAnalysisErrs(narrow, unread, unparsed) ==
    unparsed # {} \/ (unread # {} /\ Plan(narrow, linked \cup (InScope \ unread)) # {})

DirectoryOverlap == Rebuilds("directory-overlap", {})
DocumentVersions ==
    /\ Look("document-versions", linked)
    /\ Rebuild("document-versions", {}) /\ UNCHANGED <<linked, parsed>>
DocumentMinhash ==
    /\ HashSome /\ Look("document-minhash", parsed)
    /\ Rebuild("document-minhash", {"content-analysis"}) /\ UNCHANGED parsed
ImageSimilarity ==
    /\ Look("image-similarity", parsed)
    /\ Rebuild("image-similarity", {"content-analysis"}) /\ UNCHANGED <<linked, parsed>>
Projects == Rebuilds("projects", {})
BackupLineage == Rebuilds("backup-lineage", {"directory-overlap"})
NormalizedContent == HashesAndRebuilds("normalized-content", {})
Derivations == HashesAndRebuilds("derivations", {})
CanonicalRoles == Rebuilds("canonical-roles", {"exact-duplicates", "normalized-content"})
ArchiveOfDirectory == HashesAndRebuilds("archive-of-directory", {})
BackupValue == HashesAndRebuilds("backup-value", {"classify"})
RecordSeries == Rebuilds("record-series", {})
PreservationRisk == Rebuilds("preservation-risk", {"content-analysis"})
PhotoEvents == Rebuilds("photo-events", {"content-analysis"})
ContactSheets == Rebuilds("contact-sheets", {"image-similarity"})
Classify == Rebuilds("classify", {"exact-duplicates", "content-analysis"})
ReviewPriority == Rebuilds("review-priority", {"classify", "preservation-risk"})
Lifecycle == Rebuilds("lifecycle", {"classify"})
Reports == Rebuilds("reports", {"exact-duplicates", "classify", "review-priority"})

\* Every stage whose outcome no choice of failing files changes.
Body(s) ==
    \/ s = "exact-duplicates" /\ ExactDuplicates
    \/ s = "directory-overlap" /\ DirectoryOverlap
    \/ s = "document-versions" /\ DocumentVersions
    \/ s = "document-minhash" /\ DocumentMinhash
    \/ s = "image-similarity" /\ ImageSimilarity
    \/ s = "projects" /\ Projects
    \/ s = "backup-lineage" /\ BackupLineage
    \/ s = "normalized-content" /\ NormalizedContent
    \/ s = "derivations" /\ Derivations
    \/ s = "canonical-roles" /\ CanonicalRoles
    \/ s = "archive-of-directory" /\ ArchiveOfDirectory
    \/ s = "backup-value" /\ BackupValue
    \/ s = "record-series" /\ RecordSeries
    \/ s = "preservation-risk" /\ PreservationRisk
    \/ s = "photo-events" /\ PhotoEvents
    \/ s = "contact-sheets" /\ ContactSheets
    \/ s = "classify" /\ Classify
    \/ s = "review-priority" /\ ReviewPriority
    \/ s = "lifecycle" /\ Lifecycle
    \/ s = "reports" /\ Reports

\* The stages that empty their table for the run before they fill it again, and
\* may leave it part filled: classify commits as it goes, the others when a
\* checkpoint commits or a stop settles the job.
EmptiesFirst ==
    {"record-series", "preservation-risk", "classify", "review-priority", "lifecycle"}

\* The stages that give files their identity first, committing as they go.
Hashing ==
    {"exact-duplicates", "content-analysis", "document-minhash", "normalized-content",
     "derivations", "archive-of-directory", "backup-value"}

\* What a stage leaves when it is stopped, fails or dies inside.
CutShort(s) ==
    \/ UNCHANGED tables
    \/ s \in Hashing /\ HashSome /\ UNCHANGED <<parsed, saw, made>>
    \/ /\ s \in EmptiesFirst
       /\ made' = made \ {s}
       /\ UNCHANGED <<linked, parsed, saw>>
    \/ /\ s = "content-analysis"
       /\ HashSome
       /\ \E ok \in SUBSET ((InScope \cap linked') \ parsed) : parsed' = parsed \cup ok
       /\ UNCHANGED <<saw, made>>
=============================================================================
