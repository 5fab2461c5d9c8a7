--------------------------- MODULE ContentIdentity ---------------------------
(* Giving files their content identity: src/src/housekeeper/core/identity.py,
   hashing.py, core/worker_pool.py and acceleration/subprocess_backend.py.

   Threads hash units, a representative with the other paths of its inode; the
   caller alone writes, in the order the units finish, and commits in batches.

   Named assumptions.  The queue of bounded_map holds every unit.  A rewrite shows
   in the size or the time stamp of the file.  What the scan recorded as hard links
   of one inode still is.  A read of a file ends.                              *)
EXTENDS Naturals, FiniteSets

CONSTANTS
    Files,         \* the files in scope
    Inodes,
    InodeOf,       \* the inode the scan recorded for each file
    HashThreads,
    BatchSize,     \* IDENTITY_BATCH_SIZE
    MaxEdits,      \* bound on rewrites of each inode
    MaxFaults      \* bound on failing reads and failing backends

ASSUME IdentityAssumption ==
    /\ IsFiniteSet(Files) /\ InodeOf \in [Files -> Inodes]
    /\ BatchSize \in Nat \ {0} /\ MaxEdits \in Nat /\ MaxFaults \in Nat

\* Every inode holds the same content until it is rewritten.
Contents == ({"original"} \cup Inodes) \X (0..MaxEdits)
Content(i, v) == IF v = 0 THEN <<"original", 0>> ELSE <<i, v>>
Torn == <<"torn", 0>>           \* the digest of a read that a rewrite came into
NoDigest == <<"none", 0>>
Unlinked == NoDigest

Units == [rep : Files, followers : SUBSET Files]
NoHash == [by |-> "nobody"]

VARIABLES
    version,    \* how often each inode was rewritten
    links,      \* entry_content_links as the writer's connection sees it
    committed,  \* entry_content_links as it is committed
    pending,    \* the units no thread has taken
    hashing,    \* what each thread hashes, with what, and the version its stat saw
    results,    \* units that are hashed and their digest, not yet yielded
    orphans,    \* orphaned_followers
    hashed,     \* counts["hashed"] since the last commit
    unhashed,   \* the files counted in counts["errors"]
    backend,    \* _native_backends.backend of each thread: "rust" or "off"
    faults

identityVars == <<version, links, committed, pending, hashing, results, orphans, hashed,
                  unhashed, backend, faults>>

IdentityTypeOK ==
    /\ version \in [Inodes -> 0..MaxEdits]
    /\ links \in [Files -> Contents \cup {Torn, Unlinked}]
    /\ committed \in [Files -> Contents \cup {Torn, Unlinked}]
    /\ pending \subseteq Units
    /\ \A t \in HashThreads : hashing[t] = NoHash \/
          hashing[t] \in [unit : Units, by : {"rust", "python"}, before : 0..MaxEdits]
    /\ results \subseteq [unit : Units, digest : Contents \cup {Torn, NoDigest}]
    /\ orphans \subseteq Files /\ unhashed \subseteq Files /\ hashed \in 0..(BatchSize - 1)
    /\ backend \in [HashThreads -> {"rust", "off"}] /\ faults \in 0..MaxFaults

\* _grouped: one unit for every inode, or one for every file.
Mates(f, files) == {g \in files : InodeOf[g] = InodeOf[f]}
Grouped(files) ==
    {[rep |-> CHOOSE f \in Mates(g, files) : TRUE,
      followers |-> Mates(g, files) \ {CHOOSE f \in Mates(g, files) : TRUE}] : g \in files}
Alone(files) == {[rep |-> f, followers |-> {}] : f \in files}

\* The threads of one call of ensure_content_identity find their backend anew.
\* Fault: a follower is taken for done with its representative.
OnlyRepresentatives(table) == {f \in Files : \A g \in Mates(f, Files) : table[g] = Unlinked}
Candidates(table) == {f \in Files : table[f] = Unlinked}
Call(units) ==
    /\ pending' = units /\ hashing' = [t \in HashThreads |-> NoHash] /\ results' = {}
    /\ orphans' = {} /\ hashed' = 0
    /\ backend' \in {[t \in HashThreads |-> b] : b \in {"rust", "off"}}

---------------------------------------------------------------------------
(* The threads.                                                             *)

\* compute_identity; the files that it gives to Python, as no parser will open them
\* again, are hashed as if there were no backend.
StartHash(t) ==
    /\ hashing[t] = NoHash
    /\ \E u \in pending :
         /\ pending' = pending \ {u}
         /\ hashing' = [hashing EXCEPT ![t] =
              [unit |-> u, by |-> IF backend[t] = "rust" THEN "rust" ELSE "python",
               before |-> version[InodeOf[u.rep]]]]
    /\ UNCHANGED <<version, links, committed, results, orphans, hashed, unhashed, backend, faults>>

\* _native_identity: the process dies, hangs until it is killed or answers out of
\* turn; Python reads the file from its beginning, and the thread keeps to Python.
BackendFails(t) ==
    /\ hashing[t].by = "rust" /\ faults < MaxFaults /\ faults' = faults + 1
    /\ backend' = [backend EXCEPT ![t] = "off"]
    /\ hashing' = [hashing EXCEPT ![t].by = "python",
                                  ![t].before = version[InodeOf[hashing[t].unit.rep]]]
    /\ UNCHANGED <<version, links, committed, pending, results, orphans, hashed, unhashed>>

\* Size and time before the read against size and time after it.
\* Fault: they are not compared.
NeverMind(before, after) == TRUE
Stable(before, after) == before = after

Yield(t, digest) ==
    /\ results' = results \cup {[unit |-> hashing[t].unit, digest |-> digest]}
    /\ hashing' = [hashing EXCEPT ![t] = NoHash]
    /\ UNCHANGED <<version, links, committed, pending, orphans, hashed, unhashed, backend>>

FinishHash(t) ==
    /\ hashing[t] # NoHash
    /\ LET i == InodeOf[hashing[t].unit.rep]
           before == hashing[t].before
           read == IF before = version[i] THEN Content(i, before) ELSE Torn
       IN  Yield(t, IF Stable(before, version[i]) THEN read ELSE NoDigest)
    /\ UNCHANGED faults

\* An OSError on this path.
ReadFails(t) ==
    /\ hashing[t] # NoHash /\ faults < MaxFaults /\ faults' = faults + 1
    /\ Yield(t, NoDigest)

---------------------------------------------------------------------------
(* The caller.                                                              *)

LinkAll(u, digest) ==
    [f \in Files |-> IF f = u.rep \/ f \in u.followers THEN digest ELSE links[f]]

\* The followers of a representative that failed.
\* Fault: they fall out of the run.
NoOrphans(u) == {}
Stranded(u) == u.followers

TakeResult ==
    \E r \in results :
        /\ results' = results \ {r}
        /\ IF r.digest = NoDigest
           THEN /\ unhashed' = unhashed \cup {r.unit.rep}
                /\ orphans' = orphans \cup Stranded(r.unit)
                /\ UNCHANGED <<links, committed, hashed>>
           ELSE /\ links' = LinkAll(r.unit, r.digest)
                /\ hashed' = (hashed + 1) % BatchSize
                /\ committed' = IF hashed' = 0 THEN links' ELSE committed
                /\ UNCHANGED <<unhashed, orphans>>
        /\ UNCHANGED <<version, pending, hashing, backend, faults>>

AllHashed == pending = {} /\ results = {} /\ \A t \in HashThreads : hashing[t] = NoHash

\* The final commit, and the call for the orphans.
HashOrphans ==
    /\ AllHashed /\ orphans # {}
    /\ committed' = links
    /\ Call(Alone(orphans))
    /\ UNCHANGED <<version, links, unhashed, faults>>

Edit(i) ==
    /\ version[i] < MaxEdits
    /\ version' = [version EXCEPT ![i] = @ + 1]
    /\ UNCHANGED <<links, committed, pending, hashing, results, orphans, hashed, unhashed,
                   backend, faults>>
=============================================================================
