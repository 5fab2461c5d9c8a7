----------------------------- MODULE ContentStage -----------------------------
(* The content-analysis stage as a whole: _run_content_analysis of
   src/src/housekeeper/analysers/registry.py over ContentIdentity.tla and
   ParserPool.tla, with one analyser that takes every file.

   The files are rewritten while it runs, the user may stop it, its process may
   die, and it may be run again.                                             *)
EXTENDS ContentIdentity, ParserPool

CONSTANT MaxStarts      \* bound on the times the stage is run

\* What is parsed is what was linked.
ASSUME StageAssumption == Objects = Contents /\ Paths = Files /\ MaxStarts \in Nat

VARIABLES
    phase,     \* "identity", "parse", "closing", or how the stage ended
    stopping,  \* check_cancelled raised: what still runs is waited for and dropped
    starts     \* the times it was run

stageVars == <<phase, stopping, starts>>
vars == <<identityVars, parserVars, stageVars>>

AtWork == phase \in {"identity", "parse", "closing"}

TypeOK ==
    /\ IdentityTypeOK /\ ParserTypeOK
    /\ phase \in {"new", "identity", "parse", "closing", "ended", "stopped", "down"}
    /\ stopping \in BOOLEAN /\ starts \in 0..MaxStarts

Init ==
    /\ version = [i \in Inodes |-> 0]
    /\ links = [f \in Files |-> Unlinked] /\ committed = links
    /\ pending = {} /\ hashing = [t \in HashThreads |-> NoHash] /\ results = {}
    /\ orphans = {} /\ hashed = 0 /\ unhashed = {}
    /\ backend = [t \in HashThreads |-> "off"] /\ faults = 0
    /\ isolated \in BOOLEAN /\ pool = 0 /\ started = 0 /\ terminated = {} /\ poisoned = {}
    /\ plan = {} /\ sub = [s \in Submitters |-> Idle] /\ silent = {} /\ parsed = {}
    /\ artifacts = [c \in Contents |-> "none"] /\ durable = artifacts
    /\ uncommitted = 0 /\ unparsed = {}
    /\ phase = "new" /\ stopping = FALSE /\ starts = 0

\* The stage begins with the files that have no link.
Start ==
    /\ ~AtWork /\ starts < MaxStarts /\ starts' = starts + 1
    /\ phase' = "identity" /\ stopping' = FALSE
    /\ Call(Grouped(Candidates(committed)))
    /\ unhashed' = {} /\ unparsed' = {}
    /\ started' = 0 /\ terminated' = {} /\ poisoned' = {}
    /\ UNCHANGED <<version, links, committed, faults, isolated, pool, plan, sub, silent, parsed, artifacts, durable, uncommitted>>

Hash(t) ==
    /\ phase = "identity"
    /\ StartHash(t) \/ BackendFails(t) \/ FinishHash(t) \/ ReadFails(t)
    /\ UNCHANGED <<parserVars, stageVars>>

Link ==
    /\ phase = "identity" /\ ~stopping
    /\ TakeResult \/ HashOrphans
    /\ UNCHANGED <<parserVars, stageVars>>

\* _work_plan: an object is owed unless its artifact is COMPLETED, through every path
\* in scope that is linked to it.
\* Fault: whatever its artifact says.
OwedAgain ==
    {[object |-> c, paths |-> {f \in Files : committed'[f] = c}] :
       c \in {d \in Contents : \E f \in Files : committed'[f] = d}}
Owed ==
    {[object |-> c, paths |-> {f \in Files : committed'[f] = c}] :
       c \in {d \in Contents : artifacts[d] # "COMPLETED" /\ \E f \in Files : committed'[f] = d}}

\* The identity phase ends with its commit, and its threads with their backends; the
\* plan is read after it.
BeginParse ==
    /\ phase = "identity" /\ ~stopping /\ AllHashed /\ orphans = {}
    /\ committed' = links /\ plan' = Owed /\ phase' = "parse"
    /\ hashed' = 0 /\ backend' = [t \in HashThreads |-> "off"]
    /\ UNCHANGED <<version, links, pending, hashing, results, orphans, unhashed,
                   faults, isolated, pool, started, terminated, poisoned, sub,
                   silent, parsed, artifacts, durable, uncommitted, unparsed, stopping, starts>>

Run(s) ==
    \/ Take(s) \/ EnsurePool(s) \/ ParseInProcess(s) \/ SubmitTask(s) \/ Refused(s)
    \/ Answers(s) \/ TimeOut(s) \/ Detach(s) \/ Terminate(s)

Parse(s) ==
    /\ phase = "parse" /\ Run(s)
    /\ UNCHANGED <<identityVars, stageVars>>
Silence(s) ==
    /\ phase = "parse" /\ FallSilent(s)
    /\ UNCHANGED <<identityVars, stageVars>>

Write ==
    /\ phase = "parse" /\ ~stopping /\ WriteArtifact
    /\ UNCHANGED <<identityVars, stageVars>>

\* The last commit of the parse.
EndParse ==
    /\ phase = "parse" /\ ~stopping /\ AllParsed
    /\ durable' = artifacts /\ uncommitted' = 0 /\ phase' = "closing"
    /\ UNCHANGED <<identityVars, isolated, pool, started, terminated, poisoned, plan, sub,
                   silent, parsed, artifacts, unparsed, stopping, starts>>

\* ParserPool.close.
Close ==
    /\ phase = "closing" /\ Joins
    /\ pool' = 0 /\ phase' = IF stopping THEN "stopped" ELSE "ended"
    /\ UNCHANGED <<identityVars, isolated, started, terminated, poisoned, plan, sub, silent,
                   parsed, artifacts, durable, uncommitted, unparsed, stopping, starts>>

\* check_cancelled, at a result or at a row of the plan: settling the job commits
\* what was written.
Stop ==
    /\ phase \in {"identity", "parse"} /\ ~stopping /\ stopping' = TRUE
    /\ IF phase = "identity" THEN results # {} ELSE parsed # {} \/ plan # {}
    /\ committed' = links /\ durable' = artifacts /\ hashed' = 0 /\ uncommitted' = 0
    /\ UNCHANGED <<version, links, pending, hashing, results, orphans, unhashed, backend, faults,
                   isolated, pool, started, terminated, poisoned, plan, sub, silent, parsed,
                   artifacts, unparsed, phase, starts>>

\* The executor is left when every unit it was given is done.
Drop ==
    /\ stopping
    /\ \/ /\ phase = "identity" /\ pending = {} /\ \A t \in HashThreads : hashing[t] = NoHash
          /\ phase' = "stopped"
       \/ /\ phase = "parse" /\ plan = {} /\ \A s \in Submitters : sub[s] = Idle
          /\ phase' = "closing"
    /\ results' = {} /\ parsed' = {} /\ orphans' = {}
    /\ UNCHANGED <<version, links, committed, pending, hashing, hashed, unhashed, backend, faults,
                   isolated, pool, started, terminated, poisoned, plan, sub, silent, artifacts,
                   durable, uncommitted, unparsed, stopping, starts>>

\* The process dies, and its threads and parsers with it.
Die ==
    /\ AtWork /\ phase' = "down"
    /\ links' = committed /\ artifacts' = durable /\ uncommitted' = 0
    /\ pending' = {} /\ hashing' = [t \in HashThreads |-> NoHash] /\ results' = {}
    /\ orphans' = {} /\ hashed' = 0 /\ backend' = [t \in HashThreads |-> "off"]
    /\ plan' = {} /\ sub' = [s \in Submitters |-> Idle] /\ silent' = {}
    /\ parsed' = {} /\ pool' = 0 /\ stopping' = FALSE
    /\ UNCHANGED <<version, committed, unhashed, faults, isolated, started, terminated,
                   poisoned, durable, unparsed, starts>>

Rewrite(i) ==
    /\ phase = "identity" /\ Edit(i)
    /\ UNCHANGED <<parserVars, stageVars>>

Next ==
    \/ Start \/ Link \/ BeginParse \/ Write \/ EndParse \/ Close \/ Stop \/ Drop \/ Die
    \/ \E t \in HashThreads : Hash(t)
    \/ \E s \in Submitters : Parse(s) \/ Silence(s)
    \/ \E i \in Inodes : Rewrite(i)

\* Every thread of the stage goes on; nobody has to stop it, rewrite files or start it.
Fairness ==
    /\ WF_vars(Link) /\ WF_vars(BeginParse) /\ WF_vars(Write) /\ WF_vars(EndParse)
    /\ WF_vars(Close) /\ WF_vars(Drop)
    /\ \A t \in HashThreads : WF_vars(Hash(t))
    /\ \A s \in Submitters : WF_vars(Parse(s))

Spec == Init /\ [][Next]_vars /\ Fairness

---------------------------------------------------------------------------
(* What the stage promises.                                                 *)

\* A link says what its file held: the digest is of a content the inode had in whole,
\* though files are rewritten under the read, backends fail in the middle of one and
\* paths of one inode take over each other's digest.
LinksAreOfWholeReads ==
    \A f \in Files : links[f] # Unlinked =>
        \E v \in 0..version[InodeOf[f]] : links[f] = Content(InodeOf[f], v)

\* A stage that ends owes nothing it does not own up to: every file has its link or is
\* counted as an error, also those whose hard-linked representative failed, and every
\* content its COMPLETED artifact or a counted ERROR, all of it committed.
NothingDroppedSilently ==
    phase = "ended" =>
        /\ \A f \in Files : committed[f] # Unlinked \/ f \in unhashed
        /\ \A f \in Files : committed[f] # Unlinked =>
             \/ durable[committed[f]] = "COMPLETED"
             \/ durable[committed[f]] = "ERROR" /\ committed[f] \in unparsed

\* No thread's time-out kills a pool that others may still use well: only a pool on
\* which some parser fell silent is ever terminated.
OnlyPoisonedPoolsDie == terminated \subseteq poisoned

\* What was once parsed or linked stays so: no stop, crash or second run loses a
\* committed result or puts an error in the place of a good artifact.
ResultsStay ==
    [][/\ \A f \in Files : committed[f] # Unlinked => committed'[f] = committed[f]
       /\ \A c \in Contents : durable[c] = "COMPLETED" => durable'[c] = "COMPLETED"]_vars

\* Whatever hangs, the stage ends.
StageEnds == AtWork ~> ~AtWork
=============================================================================
