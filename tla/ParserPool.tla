------------------------------ MODULE ParserPool ------------------------------
(* The parser processes: src/src/housekeeper/analysers/parser_pool.py, and the
   parse of one analyser in analysers/registry.py that drives it.

   As many submitter threads as the pool has processes take the objects of the work
   plan and parse each through its paths in turn; the caller alone writes
   artifacts.  A parser may fall silent: it hangs on its file, or its process is
   killed and its answer never comes.

   Named assumption.  The queue of bounded_map holds the work plan.            *)
EXTENDS Naturals, FiniteSets

CONSTANTS
    Objects,       \* content objects
    Paths,         \* the paths they are found at
    Submitters,
    ArtifactBatch, \* ARTIFACT_BATCH_SIZE
    MaxSilences    \* bound on parsers that fall silent

ASSUME ParserAssumption == ArtifactBatch \in Nat \ {0} /\ MaxSilences \in Nat

Items == [object : Objects, paths : SUBSET Paths]
Idle == [at |-> "idle"]

VARIABLES
    isolated,   \* _start_method found one
    pool,       \* ParserPool._pool, 0 for None: pools are numbered as they start
    started,    \* pools started
    terminated, \* the pools that were terminated
    poisoned,   \* history: the pools on which a parser fell silent
    plan,       \* work no submitter has taken
    sub,        \* what each submitter is at
    silent,     \* the submitters whose parser fell silent
    parsed,     \* <<object, status>> not yet yielded
    artifacts,  \* analysis_artifacts as the writer's connection sees it
    durable,    \* analysis_artifacts as it is committed
    uncommitted,\* artifacts_since_commit
    unparsed    \* the objects counted in counts["errors"] of the parse

parserVars == <<isolated, pool, started, terminated, poisoned, plan, sub, silent, parsed,
                artifacts, durable, uncommitted, unparsed>>

Statuses == {"none", "COMPLETED", "ERROR"}

ParserTypeOK ==
    /\ isolated \in BOOLEAN /\ started \in Nat /\ pool \in 0..started
    /\ terminated \subseteq 1..started /\ poisoned \subseteq 1..started
    /\ plan \subseteq Items /\ silent \subseteq Submitters
    /\ \A s \in Submitters : sub[s] = Idle \/
          sub[s] \in [at : {"ensure", "submit", "waiting", "restart", "terminate"},
                      item : Items, attempt : 1..2, pool : 0..started]
    /\ parsed \subseteq Objects \X Statuses
    /\ artifacts \in [Objects -> Statuses] /\ durable \in [Objects -> Statuses]
    /\ uncommitted \in 0..(ArtifactBatch - 1) /\ unparsed \subseteq Objects

---------------------------------------------------------------------------
(* A submitter: parse_one, and ParserPool.run for each path.                  *)

Take(s) ==
    /\ sub[s] = Idle
    /\ \E w \in plan :
         /\ plan' = plan \ {w}
         /\ sub' = [sub EXCEPT ![s] = [at |-> "ensure", item |-> w, attempt |-> 1, pool |-> 0]]
    /\ UNCHANGED <<isolated, pool, started, terminated, poisoned, silent, parsed, artifacts,
                   durable, uncommitted, unparsed>>

\* The answer for the path at hand: the object's, if it is good or the last one.
Answer(s, good) ==
    LET w == sub[s].item
        p == CHOOSE q \in w.paths : TRUE
        rest == [w EXCEPT !.paths = w.paths \ {p}]
    IN  /\ IF good \/ rest.paths = {}
           THEN /\ sub' = [sub EXCEPT ![s] = Idle]
                /\ parsed' = parsed \cup {<<w.object, IF good THEN "COMPLETED" ELSE "ERROR">>}
           ELSE /\ sub' = [sub EXCEPT ![s] =
                     [at |-> "ensure", item |-> rest, attempt |-> 1, pool |-> 0]]
                /\ UNCHANGED parsed
        /\ silent' = silent \ {s}
        /\ UNCHANGED <<isolated, started, poisoned, plan, artifacts, durable, uncommitted, unparsed>>

\* _ensure_pool, under the lock.
EnsurePool(s) ==
    /\ sub[s].at = "ensure" /\ isolated
    /\ pool' = IF pool = 0 THEN started + 1 ELSE pool
    /\ started' = IF pool = 0 THEN started + 1 ELSE started
    /\ sub' = [sub EXCEPT ![s].at = "submit", ![s].pool = pool']
    /\ UNCHANGED <<isolated, terminated, poisoned, plan, silent, parsed, artifacts, durable,
                   uncommitted, unparsed>>

\* _run_without_pool: the parse runs in a thread that a time-out leaves behind.
ParseInProcess(s) ==
    /\ sub[s].at = "ensure" /\ ~isolated
    /\ \E good \in BOOLEAN : Answer(s, good)
    /\ UNCHANGED <<pool, terminated>>

\* apply_async on a pool that runs.
SubmitTask(s) ==
    /\ sub[s].at = "submit" /\ sub[s].pool \notin terminated
    /\ sub' = [sub EXCEPT ![s].at = "waiting"]
    /\ UNCHANGED <<isolated, pool, started, terminated, poisoned, plan, silent, parsed,
                   artifacts, durable, uncommitted, unparsed>>

\* apply_async on one that was terminated: `Pool not running`, and one retry.
\* Fault: as many retries as it takes.
RetriesOn(s) == TRUE
Retries(s) == sub[s].attempt < 2

Refused(s) ==
    /\ sub[s].at = "submit" /\ sub[s].pool \in terminated
    /\ IF ~Retries(s)
       THEN Answer(s, FALSE) /\ UNCHANGED <<pool, terminated>>
       ELSE /\ sub' = [sub EXCEPT ![s].at = "ensure", ![s].attempt = @ + 1]
            /\ UNCHANGED <<isolated, pool, started, terminated, poisoned, plan, silent, parsed,
                           artifacts, durable, uncommitted, unparsed>>

\* The process answers, unless it fell silent or was terminated.
Answers(s) ==
    /\ sub[s].at = "waiting" /\ s \notin silent /\ sub[s].pool \notin terminated
    /\ \E good \in BOOLEAN : Answer(s, good)
    /\ UNCHANGED <<pool, terminated>>

FallSilent(s) ==
    /\ sub[s].at = "waiting" /\ s \notin silent /\ sub[s].pool \notin terminated
    /\ Cardinality(poisoned) < MaxSilences
    /\ silent' = silent \cup {s} /\ poisoned' = poisoned \cup {sub[s].pool}
    /\ UNCHANGED <<isolated, pool, started, terminated, plan, sub, parsed, artifacts, durable,
                   uncommitted, unparsed>>

\* get gives up: on a silent parser, and on every task of a terminated pool, whose
\* answer never comes either.
TimeOut(s) ==
    /\ sub[s].at = "waiting" /\ (s \in silent \/ sub[s].pool \in terminated)
    /\ sub' = [sub EXCEPT ![s].at = "restart"]
    /\ UNCHANGED <<isolated, pool, started, terminated, poisoned, plan, silent, parsed,
                   artifacts, durable, uncommitted, unparsed>>

\* _restart takes the pool it means to kill.
\* Fault: it takes the live one.
LivePool(s) == pool
\* Fault: a time-out leaves the pool alone.
NoPool(s) == 0
Doomed(s) == IF pool = sub[s].pool THEN pool ELSE 0

Detach(s) ==
    /\ sub[s].at = "restart"
    /\ IF Doomed(s) = 0
       THEN Answer(s, FALSE) /\ UNCHANGED <<pool, terminated>>
       ELSE /\ pool' = 0
            /\ sub' = [sub EXCEPT ![s].at = "terminate", ![s].pool = Doomed(s)]
            /\ UNCHANGED <<isolated, started, terminated, poisoned, plan, silent, parsed,
                           artifacts, durable, uncommitted, unparsed>>

Terminate(s) ==
    /\ sub[s].at = "terminate"
    /\ terminated' = terminated \cup {sub[s].pool}
    /\ Answer(s, FALSE)
    /\ UNCHANGED pool

---------------------------------------------------------------------------
(* The caller.                                                              *)

WriteArtifact ==
    \E r \in parsed :
        /\ parsed' = parsed \ {r}
        /\ artifacts' = [artifacts EXCEPT ![r[1]] = r[2]]
        /\ unparsed' = IF r[2] = "ERROR" THEN unparsed \cup {r[1]} ELSE unparsed
        /\ uncommitted' = (uncommitted + 1) % ArtifactBatch
        /\ durable' = IF uncommitted' = 0 THEN artifacts' ELSE durable
        /\ UNCHANGED <<isolated, pool, started, terminated, poisoned, plan, sub, silent>>

AllParsed == plan = {} /\ parsed = {} /\ \A s \in Submitters : sub[s] = Idle

\* close: the pool is closed and joined, which waits for a process that hangs.
Joins == pool \notin poisoned
=============================================================================
