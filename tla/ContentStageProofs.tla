-------------------------- MODULE ContentStageProofs --------------------------
(* What ContentStage keeps for any files, inodes, threads, batches and faults. *)
EXTENDS ContentStage, TLAPS

\* A unit, and the files that wait on it.
Hashes == [unit : Units, by : {"rust", "python"}, before : 0..MaxEdits]
Cover(u) == {u.rep} \cup u.followers
Hashing(t) == hashing[t] # NoHash
Apart(u, w) == Cover(u) \cap Cover(w) = {}

\* A task of a submitter.
Tasks == [at : {"ensure", "submit", "waiting", "restart", "terminate"}, item : Items,
          attempt : 1..2, pool : Nat]
Busy(s) == sub[s] # Idle

---------------------------------------------------------------------------
(* The parts of the inductive invariant: identity.                          *)

IdentityShape == IdentityTypeOK /\ hashing \in [HashThreads -> Hashes \cup {NoHash}]

\* What the inode of a unit held in whole.
OneInode(u) == \A f \in u.followers : InodeOf[f] = InodeOf[u.rep]
Held(i, digest) == \E v \in 0..version[i] : digest = Content(i, v)
LinksHold(table) == \A f \in Files : table[f] # Unlinked => Held(InodeOf[f], table[f])
WholeInv ==
    /\ \A u \in pending : OneInode(u)
    /\ \A t \in HashThreads : Hashing(t) =>
         OneInode(hashing[t].unit) /\ hashing[t].before <= version[InodeOf[hashing[t].unit.rep]]
    /\ \A r \in results :
         OneInode(r.unit) /\ (r.digest # NoDigest => Held(InodeOf[r.unit.rep], r.digest))
    /\ LinksHold(links) /\ LinksHold(committed)

\* No file is in two hands, and none that is in hand has its link yet.
Free(u) == \A f \in Cover(u) : links[f] = Unlinked /\ f \notin orphans
OneHandInv ==
    /\ \A u, w \in pending : u = w \/ Apart(u, w)
    /\ \A t \in HashThreads : Hashing(t) =>
         /\ \A w \in pending : Apart(hashing[t].unit, w)
         /\ \A q \in HashThreads : Hashing(q) => q = t \/ Apart(hashing[t].unit, hashing[q].unit)
         /\ \A r \in results : Apart(hashing[t].unit, r.unit)
    /\ \A r \in results :
         /\ \A w \in pending : Apart(r.unit, w)
         /\ \A q \in results : q = r \/ Apart(r.unit, q.unit)
    /\ \A u \in pending : Free(u)
    /\ \A t \in HashThreads : Hashing(t) => Free(hashing[t].unit)
    /\ \A r \in results : Free(r.unit)
    /\ \A f \in orphans : links[f] = Unlinked
    /\ \A f \in Files : committed[f] # Unlinked => links[f] = committed[f]

\* Every file is linked, counted or in hand.
InHand(f) ==
    \/ f \in orphans
    \/ \E u \in pending : f \in Cover(u)
    \/ \E t \in HashThreads : Hashing(t) /\ f \in Cover(hashing[t].unit)
    \/ \E r \in results : f \in Cover(r.unit)
Accounted == \A f \in Files : links[f] # Unlinked \/ f \in unhashed \/ InHand(f)

---------------------------------------------------------------------------
(* The parts of the inductive invariant: the parsers, and the stage.        *)

ParserShape ==
    /\ ParserTypeOK /\ sub \in [Submitters -> Tasks \cup {Idle}]
    /\ \A s \in Submitters : Busy(s) => sub[s].pool <= started
    /\ parsed \subseteq Objects \X {"COMPLETED", "ERROR"}

\* A time-out is of a pool that a parser poisoned.
PoisonInv ==
    /\ terminated \subseteq poisoned
    /\ \A s \in Submitters : Busy(s) =>
         /\ sub[s].at \in {"submit", "waiting"} => sub[s].pool > 0
         /\ sub[s].at \in {"restart", "terminate"} => sub[s].pool \in poisoned
    /\ \A s \in silent : /\ Busy(s) /\ sub[s].pool \in poisoned
                         /\ sub[s].at \in {"waiting", "restart", "terminate"}

\* No object is in two hands, and none that is in hand has a good artifact yet.
ObjectOf(s) == sub[s].item.object
OneTaskInv ==
    /\ \A v, w \in plan : v.object = w.object => v = w
    /\ \A s \in Submitters : Busy(s) =>
         /\ \A w \in plan : w.object # ObjectOf(s)
         /\ \A q \in Submitters : Busy(q) /\ ObjectOf(q) = ObjectOf(s) => q = s
         /\ \A r \in parsed : r[1] # ObjectOf(s)
         /\ artifacts[ObjectOf(s)] # "COMPLETED"
    /\ \A r \in parsed :
         /\ \A w \in plan : w.object # r[1]
         /\ \A q \in parsed : q[1] = r[1] => q = r
         /\ artifacts[r[1]] # "COMPLETED"
    /\ \A w \in plan : artifacts[w.object] # "COMPLETED"
    /\ \A c \in Objects : durable[c] = "COMPLETED" => artifacts[c] = "COMPLETED"

\* Every content that was linked has its artifact, is counted or in hand.
Outcome(table, c) == table[c] = "COMPLETED" \/ (table[c] = "ERROR" /\ c \in unparsed)
InWork(c) ==
    \/ \E w \in plan : w.object = c
    \/ \E s \in Submitters : Busy(s) /\ ObjectOf(s) = c
    \/ \E r \in parsed : r[1] = c
Owned == \A f \in Files : links[f] # Unlinked => Outcome(artifacts, links[f]) \/ InWork(links[f])
Settled ==
    /\ \A f \in Files : committed[f] # Unlinked \/ f \in unhashed
    /\ \A f \in Files : committed[f] # Unlinked => Outcome(durable, committed[f])

\* What is at rest in which phase.
PhaseInv ==
    /\ phase # "identity" =>
         pending = {} /\ results = {} /\ orphans = {} /\ \A t \in HashThreads : ~Hashing(t)
    /\ phase # "identity" \/ stopping => links = committed
    /\ phase # "parse" =>
         plan = {} /\ parsed = {} /\ silent = {} /\ \A s \in Submitters : ~Busy(s)
    /\ phase \notin {"parse", "closing"} => pool = 0

AccountInv ==
    /\ phase = "identity" /\ ~stopping => Accounted
    /\ phase = "parse" /\ ~stopping => Owned /\ \A f \in Files : links[f] # Unlinked \/ f \in unhashed
    /\ (phase = "closing" /\ ~stopping) \/ phase = "ended" => Settled

IdentityInv == IdentityShape /\ WholeInv /\ OneHandInv

---------------------------------------------------------------------------
(* Units, digests and hands.                                                *)

LEMMA Digests ==
    /\ \A i \in Inodes : \A v \in 0..MaxEdits : Content(i, v) \in Contents /\ Content(i, v) # Unlinked
    /\ NoDigest = Unlinked
    /\ \A h \in Hashes : h # NoHash
    /\ \A u \in Units : u.rep \in Files /\ u.followers \subseteq Files /\ Cover(u) \subseteq Files
    /\ \A f \in Files : InodeOf[f] \in Inodes
<1>1. \A i \in Inodes : \A v \in 0..MaxEdits : Content(i, v) \in Contents
  <2>1. 0 \in 0..MaxEdits
    BY IdentityAssumption
  <2>2. QED BY <2>1 DEF Contents, Content
<1>2. \A i \in Inodes : \A v \in 0..MaxEdits : Content(i, v) # NoDigest
  <2>1. <<"original", 0>> # NoDigest
    BY DEF NoDigest
  <2>2. ASSUME NEW i \in Inodes, NEW v \in 0..MaxEdits, v # 0 PROVE <<i, v>> # NoDigest
    <3>1. <<i, v>>[2] = v /\ NoDigest[2] = 0
      BY DEF NoDigest
    <3>2. QED BY <2>2, <3>1
  <2>3. QED BY <2>1, <2>2 DEF Content
<1>3. \A h \in Hashes : h # NoHash
  <2>1. \A h \in Hashes : h.by \in {"rust", "python"}
    BY DEF Hashes
  <2>2. NoHash.by = "nobody"
    BY DEF NoHash
  <2>3. QED BY <2>1, <2>2
<1>4. \A u \in Units : u.rep \in Files /\ u.followers \subseteq Files /\ Cover(u) \subseteq Files
  BY DEF Units, Cover
<1>5. \A f \in Files : InodeOf[f] \in Inodes
  BY IdentityAssumption
<1>6. QED BY <1>1, <1>2, <1>3, <1>4, <1>5 DEF Unlinked

\* The identity type after a step, from what the step writes.
LEMMA ShapeNext ==
    ASSUME version' \in [Inodes -> 0..MaxEdits],
           links' \in [Files -> Contents \cup {Torn, Unlinked}],
           committed' \in [Files -> Contents \cup {Torn, Unlinked}],
           pending' \subseteq Units, hashing' \in [HashThreads -> Hashes \cup {NoHash}],
           results' \subseteq [unit : Units, digest : Contents \cup {Torn, NoDigest}],
           orphans' \subseteq Files, unhashed' \subseteq Files, hashed' \in 0..(BatchSize - 1),
           backend' \in [HashThreads -> {"rust", "off"}], faults' \in 0..MaxFaults
    PROVE  IdentityShape'
BY DEF IdentityShape, IdentityTypeOK, Hashes

LEMMA ThreadMoves ==
    ASSUME IdentityShape, NEW t \in HashThreads, NEW h \in Hashes \cup {NoHash},
           hashing' = [hashing EXCEPT ![t] = h]
    PROVE  /\ hashing' \in [HashThreads -> Hashes \cup {NoHash}]
           /\ hashing'[t] = h
           /\ \A q \in HashThreads : q # t => hashing'[q] = hashing[q]
BY DEF IdentityShape

\* What a hashing thread holds.
LEMMA HeldType ==
    ASSUME IdentityShape, NEW t \in HashThreads, Hashing(t)
    PROVE  /\ hashing[t] \in Hashes /\ hashing[t].unit \in Units
           /\ hashing[t].by \in {"rust", "python"} /\ hashing[t].before \in 0..MaxEdits
           /\ InodeOf[hashing[t].unit.rep] \in Inodes
           /\ version[InodeOf[hashing[t].unit.rep]] \in 0..MaxEdits
<1>1. hashing[t] \in Hashes
  BY DEF IdentityShape, Hashing
<1>2. /\ hashing[t].unit \in Units /\ hashing[t].by \in {"rust", "python"}
      /\ hashing[t].before \in 0..MaxEdits
  BY <1>1 DEF Hashes
<1>3. InodeOf[hashing[t].unit.rep] \in Inodes
  BY <1>2, Digests
<1>4. QED BY <1>1, <1>2, <1>3 DEF IdentityShape, IdentityTypeOK

LEMMA StartsHash ==
    ASSUME IdentityInv, NEW t \in HashThreads, StartHash(t)
    PROVE  IdentityInv' /\ (Accounted => Accounted')
<1> USE DEF IdentityInv
<1>1. PICK u \in pending :
        /\ pending' = pending \ {u}
        /\ hashing' = [hashing EXCEPT ![t] =
             [unit |-> u, by |-> IF backend[t] = "rust" THEN "rust" ELSE "python",
              before |-> version[InodeOf[u.rep]]]]
  BY DEF StartHash
<1>2. /\ UNCHANGED <<version, links, committed, results, orphans, hashed, unhashed, backend, faults>>
      /\ ~Hashing(t)
  BY DEF StartHash, Hashing
<1> DEFINE h == [unit |-> u, by |-> IF backend[t] = "rust" THEN "rust" ELSE "python",
                 before |-> version[InodeOf[u.rep]]]
<1>3. u \in Units /\ u.rep \in Files /\ InodeOf[u.rep] \in Inodes
      /\ version[InodeOf[u.rep]] \in 0..MaxEdits
  BY Digests DEF IdentityShape, IdentityTypeOK
<1>4. h \in Hashes /\ h # NoHash /\ h.unit = u /\ h.before = version[InodeOf[u.rep]]
  <2>1. h \in Hashes
    BY <1>3 DEF Hashes
  <2>2. QED BY <2>1, Digests
<1> HIDE DEF h
<1>5. /\ hashing' \in [HashThreads -> Hashes \cup {NoHash}] /\ hashing'[t] = h
      /\ \A q \in HashThreads : q # t => hashing'[q] = hashing[q]
  BY <1>1, <1>4, ThreadMoves DEF h
<1>6. Hashing(t)' /\ \A q \in HashThreads : q # t => (Hashing(q)' <=> Hashing(q))
  BY <1>4, <1>5 DEF Hashing
<1>7. IdentityShape'
  <2>1. pending' \subseteq Units
    BY <1>1 DEF IdentityShape, IdentityTypeOK
  <2>2. QED BY <1>2, <1>5, <2>1, ShapeNext DEF IdentityShape, IdentityTypeOK
<1>8. WholeInv'
  <2>1. \A q \in HashThreads : Hashing(q)' =>
          OneInode(hashing'[q].unit) /\ hashing'[q].before <= version[InodeOf[hashing'[q].unit.rep]]
    <3>1. OneInode(u) /\ h.before <= version[InodeOf[u.rep]]
      BY <1>3, <1>4 DEF WholeInv
    <3>2. QED BY <1>4, <1>5, <1>6, <3>1 DEF WholeInv
  <2>2. QED BY <1>1, <1>2, <2>1 DEF WholeInv, OneInode, LinksHold, Held
<1>9. OneHandInv'
  <2>1. \A w \in pending' : w # u /\ w \in pending
    BY <1>1
  <2>2. \A w \in pending' : Apart(u, w)
    BY <2>1 DEF OneHandInv
  <2>3. \A q \in HashThreads : Hashing(q) => Apart(u, hashing[q].unit) /\ Apart(hashing[q].unit, u)
    BY DEF OneHandInv, Apart
  <2>4. \A r \in results : Apart(u, r.unit)
    BY DEF OneHandInv, Apart
  <2>5. Free(u)
    BY DEF OneHandInv
  <2>6. ASSUME NEW q \in HashThreads, Hashing(q)'
        PROVE  /\ \A w \in pending' : Apart(hashing'[q].unit, w)
               /\ \A p \in HashThreads : Hashing(p)' => p = q \/ Apart(hashing'[q].unit, hashing'[p].unit)
               /\ \A r \in results : Apart(hashing'[q].unit, r.unit)
               /\ Free(hashing'[q].unit)
    <3>1. CASE q = t
      BY <1>4, <1>5, <1>6, <2>2, <2>3, <2>4, <2>5, <3>1
    <3>2. CASE q # t
      BY <1>4, <1>5, <1>6, <2>1, <2>3, <2>6, <3>2 DEF OneHandInv
    <3>3. QED BY <3>1, <3>2
  <2>7. QED BY <1>2, <2>1, <2>6 DEF OneHandInv, Free
<1>10. ASSUME Accounted PROVE Accounted'
  <2>1. \A f \in Files : InHand(f) => InHand(f)'
    BY <1>1, <1>2, <1>4, <1>5, <1>6 DEF InHand
  <2>2. QED BY <1>2, <1>10, <2>1 DEF Accounted
<1>11. QED BY <1>7, <1>8, <1>9, <1>10

LEMMA FromTheBeginning ==
    ASSUME NEW g \in Hashes, NEW v
    PROVE  [g EXCEPT !.by = "python", !.before = v]
             = [unit |-> g.unit, by |-> "python", before |-> v]
<1>1. DOMAIN g = {"unit", "by", "before"}
  BY DEF Hashes
<1> DEFINE a == [g EXCEPT !.by = "python", !.before = v]
           b == [unit |-> g.unit, by |-> "python", before |-> v]
<1>2. a = [k \in {"unit", "by", "before"} |-> a[k]] /\ b = [k \in {"unit", "by", "before"} |-> b[k]]
  BY <1>1
<1>3. a["unit"] = b["unit"] /\ a["by"] = b["by"] /\ a["before"] = b["before"]
  BY <1>1
<1> HIDE DEF a, b
<1>4. a = b
  BY <1>2, <1>3
<1>5. QED BY <1>4 DEF a, b

LEMMA BackendGivesUp ==
    ASSUME IdentityInv, NEW t \in HashThreads, BackendFails(t)
    PROVE  IdentityInv' /\ (Accounted => Accounted')
<1> USE DEF IdentityInv
<1>1. Hashing(t)
  BY DEF BackendFails, Hashing, NoHash
<1>2. UNCHANGED <<version, links, committed, pending, results, orphans, hashed, unhashed>>
  BY DEF BackendFails
<1> DEFINE u == hashing[t].unit
           v == version[InodeOf[u.rep]]
           h == [unit |-> u, by |-> "python", before |-> v]
<1>3. hashing[t] \in Hashes /\ u \in Units /\ v \in 0..MaxEdits
  BY <1>1, HeldType
<1>4. h \in Hashes /\ h # NoHash /\ h.unit = u /\ h.before = v
  <2>1. h \in Hashes
    BY <1>3 DEF Hashes
  <2>2. QED BY <2>1, Digests
<1>5. hashing' = [hashing EXCEPT ![t] = h]
  <2>1. hashing' = [hashing EXCEPT ![t].by = "python", ![t].before = v]
    BY DEF BackendFails
  <2>2. [hashing[t] EXCEPT !.by = "python", !.before = v] = h
    BY <1>3, FromTheBeginning
  <2>3. QED BY <2>1, <2>2 DEF IdentityShape
<1> HIDE DEF h
<1>6. /\ hashing' \in [HashThreads -> Hashes \cup {NoHash}] /\ hashing'[t] = h
      /\ \A q \in HashThreads : q # t => hashing'[q] = hashing[q]
  BY <1>4, <1>5, ThreadMoves
<1>7. \A q \in HashThreads : (Hashing(q)' <=> Hashing(q)) /\ (Hashing(q) => hashing'[q].unit = hashing[q].unit)
  BY <1>1, <1>4, <1>6 DEF Hashing
<1>8. IdentityShape'
  <2>1. backend' \in [HashThreads -> {"rust", "off"}] /\ faults' \in 0..MaxFaults
    BY IdentityAssumption DEF BackendFails, IdentityShape, IdentityTypeOK
  <2>2. QED BY <1>2, <1>6, <2>1, ShapeNext DEF IdentityShape, IdentityTypeOK
<1>9. WholeInv'
  <2>1. \A q \in HashThreads : Hashing(q)' =>
          OneInode(hashing'[q].unit) /\ hashing'[q].before <= version[InodeOf[hashing'[q].unit.rep]]
    <3>1. OneInode(u) /\ h.before <= v
      BY <1>1, <1>3, <1>4 DEF WholeInv
    <3>2. QED BY <1>4, <1>6, <1>7, <3>1 DEF WholeInv
  <2>2. QED BY <1>2, <2>1 DEF WholeInv, OneInode, LinksHold, Held
<1>10. OneHandInv'
  BY <1>2, <1>7 DEF OneHandInv, Free
<1>11. Accounted => Accounted'
  <2>1. \A f \in Files : InHand(f) => InHand(f)'
    BY <1>2, <1>7 DEF InHand
  <2>2. QED BY <1>2, <2>1 DEF Accounted
<1>12. QED BY <1>8, <1>9, <1>10, <1>11

\* A read that ends: nothing the inode did not hold in whole comes out of it.
LEMMA Yields ==
    ASSUME IdentityInv, NEW t \in HashThreads, Hashing(t), NEW digest, Yield(t, digest),
           faults' \in 0..MaxFaults, version' = version,
           digest # NoDigest => /\ digest \in Contents
                                /\ Held(InodeOf[hashing[t].unit.rep], digest)
    PROVE  IdentityInv' /\ (Accounted => Accounted')
<1> USE DEF IdentityInv
<1> DEFINE u == hashing[t].unit
           r == [unit |-> u, digest |-> digest]
<1>1. /\ UNCHANGED <<version, links, committed, pending, orphans, hashed, unhashed, backend>>
      /\ results' = results \cup {r} /\ hashing' = [hashing EXCEPT ![t] = NoHash]
  BY DEF Yield
<1>2. u \in Units /\ digest \in Contents \cup {Torn, NoDigest}
  BY HeldType
<1>3. r \in [unit : Units, digest : Contents \cup {Torn, NoDigest}] /\ r.unit = u /\ r.digest = digest
  BY <1>2
<1> HIDE DEF r
<1>4. /\ hashing' \in [HashThreads -> Hashes \cup {NoHash}] /\ hashing'[t] = NoHash
      /\ \A q \in HashThreads : q # t => hashing'[q] = hashing[q]
  BY <1>1, ThreadMoves
<1>5. ~Hashing(t)' /\ \A q \in HashThreads : Hashing(q)' => q # t /\ Hashing(q) /\ hashing'[q] = hashing[q]
  BY <1>4 DEF Hashing
<1>6. IdentityShape'
  <2>1. results' \subseteq [unit : Units, digest : Contents \cup {Torn, NoDigest}]
    BY <1>1, <1>3 DEF IdentityShape, IdentityTypeOK
  <2>2. QED BY <1>1, <1>4, <2>1, ShapeNext DEF IdentityShape, IdentityTypeOK
<1>7. WholeInv'
  <2>1. \A q \in results' : OneInode(q.unit) /\ (q.digest # NoDigest => Held(InodeOf[q.unit.rep], q.digest))
    <3>1. OneInode(u)
      BY DEF WholeInv
    <3>2. QED BY <1>1, <1>3, <3>1 DEF WholeInv
  <2>2. QED BY <1>1, <1>5, <2>1 DEF WholeInv, OneInode, LinksHold, Held
<1>8. OneHandInv'
  <2>1. /\ \A w \in pending : Apart(u, w)
        /\ \A q \in HashThreads : Hashing(q) => q = t \/ (Apart(u, hashing[q].unit) /\ Apart(hashing[q].unit, u))
        /\ \A q \in results : Apart(u, q.unit) /\ Apart(q.unit, u)
        /\ Free(u)
    BY DEF OneHandInv, Apart
  <2>2. ASSUME NEW q \in HashThreads, Hashing(q)'
        PROVE  /\ \A w \in pending : Apart(hashing'[q].unit, w)
               /\ \A p \in HashThreads : Hashing(p)' => p = q \/ Apart(hashing'[q].unit, hashing'[p].unit)
               /\ \A p \in results' : Apart(hashing'[q].unit, p.unit)
               /\ Free(hashing'[q].unit)
    BY <1>1, <1>3, <1>5, <2>1, <2>2 DEF OneHandInv
  <2>3. ASSUME NEW p \in results'
        PROVE  /\ \A w \in pending : Apart(p.unit, w)
               /\ \A q \in results' : q = p \/ Apart(p.unit, q.unit)
               /\ Free(p.unit)
    BY <1>1, <1>3, <2>1, <2>3 DEF OneHandInv
  <2>4. QED BY <1>1, <2>2, <2>3 DEF OneHandInv, Free
<1>9. ASSUME Accounted PROVE Accounted'
  <2>1. \A f \in Files : InHand(f) => InHand(f)'
    <3>1. SUFFICES ASSUME NEW f \in Files, InHand(f) PROVE InHand(f)'
      OBVIOUS
    <3>2. CASE f \in orphans \/ (\E w \in pending : f \in Cover(w)) \/ (\E q \in results : f \in Cover(q.unit))
      BY <1>1, <3>2 DEF InHand
    <3>3. ASSUME NEW q \in HashThreads, Hashing(q), f \in Cover(hashing[q].unit) PROVE InHand(f)'
      <4>1. CASE q = t
        <5>1. r \in results' /\ f \in Cover(r.unit)
          BY <1>1, <1>3, <3>3, <4>1
        <5>2. QED BY <5>1 DEF InHand
      <4>2. CASE q # t
        BY <1>4, <3>3, <4>2 DEF InHand, Hashing
      <4>3. QED BY <4>1, <4>2
    <3>4. QED BY <3>1, <3>2, <3>3 DEF InHand
  <2>2. QED BY <1>1, <1>9, <2>1 DEF Accounted
<1>10. QED BY <1>6, <1>7, <1>8, <1>9

LEMMA FinishesHash ==
    ASSUME IdentityInv, NEW t \in HashThreads, FinishHash(t)
    PROVE  IdentityInv' /\ (Accounted => Accounted')
<1> DEFINE i == InodeOf[hashing[t].unit.rep]
           before == hashing[t].before
           read == IF before = version[i] THEN Content(i, before) ELSE Torn
           digest == IF Stable(before, version[i]) THEN read ELSE NoDigest
<1>1. Hashing(t) /\ Yield(t, digest) /\ faults' = faults
  BY DEF FinishHash, Hashing
<1>2. i \in Inodes /\ before \in 0..MaxEdits /\ version[i] \in 0..MaxEdits /\ faults \in 0..MaxFaults
  BY <1>1, HeldType DEF IdentityInv, IdentityShape, IdentityTypeOK
<1>3. digest # NoDigest => digest \in Contents /\ Held(i, digest)
  <2>1. SUFFICES ASSUME before = version[i] PROVE Content(i, before) \in Contents /\ Held(i, Content(i, before))
    BY DEF Stable
  <2>2. QED BY <1>2, <2>1, Digests DEF Held
<1>4. version' = version
  BY <1>1 DEF Yield
<1> HIDE DEF digest
<1>5. QED BY <1>1, <1>2, <1>3, <1>4, Yields

LEMMA FailsToRead ==
    ASSUME IdentityInv, NEW t \in HashThreads, ReadFails(t)
    PROVE  IdentityInv' /\ (Accounted => Accounted')
<1>1. Hashing(t) /\ Yield(t, NoDigest) /\ version' = version
  BY DEF ReadFails, Hashing, Yield
<1>2. faults' \in 0..MaxFaults
  BY IdentityAssumption DEF ReadFails, IdentityInv, IdentityShape, IdentityTypeOK
<1>3. QED BY <1>1, <1>2, Yields

LEMMA BatchCount == \A n \in 0..(BatchSize - 1) : (n + 1) % BatchSize \in 0..(BatchSize - 1)
BY IdentityAssumption

\* What is committed stays.
CommitStays == \A f \in Files : committed[f] # Unlinked => committed'[f] = committed[f]

LEMMA TakesResult ==
    ASSUME IdentityInv, TakeResult
    PROVE  IdentityInv' /\ (Accounted => Accounted') /\ CommitStays
<1> USE DEF IdentityInv
<1>1. PICK r \in results :
        /\ results' = results \ {r}
        /\ IF r.digest = NoDigest
           THEN /\ unhashed' = unhashed \cup {r.unit.rep}
                /\ orphans' = orphans \cup Stranded(r.unit)
                /\ UNCHANGED <<links, committed, hashed>>
           ELSE /\ links' = LinkAll(r.unit, r.digest)
                /\ hashed' = (hashed + 1) % BatchSize
                /\ committed' = IF hashed' = 0 THEN links' ELSE committed
                /\ UNCHANGED <<unhashed, orphans>>
        /\ UNCHANGED <<version, pending, hashing, backend, faults>>
  BY DEF TakeResult
<1> DEFINE u == r.unit
<1>2. /\ u \in Units /\ u.rep \in Files /\ u.followers \subseteq Files
      /\ r.digest \in Contents \cup {Torn, NoDigest}
      /\ Cover(u) = {u.rep} \cup u.followers
  BY Digests DEF IdentityShape, IdentityTypeOK, Cover
<1>3. /\ UNCHANGED <<version, pending, hashing, backend, faults>> /\ results' \subseteq results
      /\ \A q \in results' : q # r
  BY <1>1
<1>4. \A t \in HashThreads : Hashing(t)' <=> Hashing(t)
  BY <1>3 DEF Hashing
<1>5. /\ \A w \in pending : Apart(u, w)
      /\ \A t \in HashThreads : Hashing(t) => Apart(hashing[t].unit, u)
      /\ \A q \in results' : Apart(q.unit, u)
      /\ Free(u)
  BY <1>1, <1>3 DEF OneHandInv, Apart
<1>6. \A f \in Files : InHand(f) => InHand(f)' \/ f \in Cover(u) \/ f \in orphans
  BY <1>1, <1>3, <1>4 DEF InHand
<1>7. CASE r.digest = NoDigest
  <2>1. /\ unhashed' = unhashed \cup {u.rep} /\ orphans' = orphans \cup u.followers
        /\ UNCHANGED <<links, committed, hashed>>
    BY <1>1, <1>7 DEF Stranded
  <2>2. IdentityShape'
    BY <1>2, <1>3, <2>1, ShapeNext DEF IdentityShape, IdentityTypeOK
  <2>3. WholeInv'
    BY <1>3, <1>4, <2>1 DEF WholeInv, OneInode, LinksHold, Held
  <2>4. OneHandInv'
    <3>1. \A w : Free(w) /\ Apart(w, u) => Free(w)'
      BY <1>2, <2>1 DEF Free, Apart
    <3>2. \A w \in pending : Apart(w, u)
      BY <1>5 DEF Apart
    <3>3. \A f \in orphans' : links'[f] = Unlinked
      BY <1>2, <1>5, <2>1 DEF OneHandInv, Free
    <3>4. QED BY <1>3, <1>4, <1>5, <2>1, <3>1, <3>2, <3>3 DEF OneHandInv
  <2>5. ASSUME Accounted PROVE Accounted'
    <3>1. \A f \in Files : InHand(f) => InHand(f)' \/ f \in unhashed'
      BY <1>2, <1>6, <2>1 DEF InHand
    <3>2. QED BY <2>1, <2>5, <3>1 DEF Accounted
  <2>6. QED BY <2>1, <2>2, <2>3, <2>4, <2>5 DEF CommitStays
<1>8. CASE r.digest # NoDigest
  <2>1. /\ links' = [f \in Files |-> IF f \in Cover(u) THEN r.digest ELSE links[f]]
        /\ hashed' = (hashed + 1) % BatchSize
        /\ committed' = IF hashed' = 0 THEN links' ELSE committed
        /\ UNCHANGED <<unhashed, orphans>>
    BY <1>1, <1>2, <1>8 DEF LinkAll
  <2>2. r.digest \in Contents \cup {Torn, Unlinked} /\ r.digest # Unlinked
    BY <1>2, <1>8, Digests
  <2>3. links' \in [Files -> Contents \cup {Torn, Unlinked}]
    BY <2>1, <2>2 DEF IdentityShape, IdentityTypeOK
  <2>4. IdentityShape'
    <3>1. hashed' \in 0..(BatchSize - 1)
      BY <2>1, BatchCount DEF IdentityShape, IdentityTypeOK
    <3>2. QED BY <1>3, <2>1, <2>3, <3>1, ShapeNext DEF IdentityShape, IdentityTypeOK
  <2>5. WholeInv'
    <3>1. \A f \in Cover(u) : Held(InodeOf[f], r.digest)
      BY <1>1, <1>2, <1>8 DEF WholeInv, OneInode
    <3>2. \A f \in Files : links'[f] # Unlinked => Held(InodeOf[f], links'[f])
      BY <2>1, <3>1 DEF WholeInv, LinksHold
    <3>3. LinksHold(links') /\ LinksHold(committed')
      BY <2>1, <3>2 DEF WholeInv, LinksHold
    <3>4. LinksHold(links)' /\ LinksHold(committed)'
      BY <1>3, <3>3 DEF LinksHold, Held
    <3>5. QED BY <1>3, <1>4, <3>4 DEF WholeInv, OneInode, Held
  <2>6. /\ \A f \in Files : f \notin Cover(u) => links'[f] = links[f]
        /\ \A f \in Cover(u) : links[f] = Unlinked /\ f \notin orphans /\ links'[f] # Unlinked
        /\ Cover(u) \subseteq Files
    BY <1>2, <1>5, <2>1, <2>2 DEF Free
  <2>7. CommitStays /\ \A f \in Files : committed'[f] # Unlinked => links'[f] = committed'[f]
    <3>1. \A f \in Files : committed[f] # Unlinked => links'[f] = committed[f]
      BY <2>6 DEF OneHandInv
    <3>2. QED BY <2>1, <3>1 DEF CommitStays
  <2>8. OneHandInv'
    <3>1. \A w : Cover(w) \subseteq Files /\ Free(w) /\ Apart(w, u) => Free(w)'
      BY <2>1, <2>6 DEF Free, Apart
    <3>2. \A w \in pending : Apart(w, u) /\ Cover(w) \subseteq Files
      BY <1>5, Digests DEF Apart, IdentityShape, IdentityTypeOK
    <3>3. \A t \in HashThreads : Hashing(t) => Cover(hashing[t].unit) \subseteq Files
      BY HeldType, Digests
    <3>4. \A q \in results : Cover(q.unit) \subseteq Files
      BY Digests DEF IdentityShape, IdentityTypeOK
    <3>5. \A f \in orphans' : links'[f] = Unlinked
      BY <2>1, <2>6 DEF OneHandInv, IdentityShape, IdentityTypeOK
    <3>6. QED BY <1>3, <1>4, <1>5, <2>1, <2>7, <3>1, <3>2, <3>3, <3>4, <3>5 DEF OneHandInv
  <2>9. ASSUME Accounted PROVE Accounted'
    <3>1. \A f \in Files : InHand(f) => InHand(f)' \/ f \in Cover(u)
      BY <1>6, <2>1 DEF InHand
    <3>2. QED BY <2>1, <2>6, <2>9, <3>1 DEF Accounted
  <2>10. QED BY <2>4, <2>5, <2>7, <2>8, <2>9
<1>9. QED BY <1>7, <1>8

\* A call of ensure_content_identity over units of files that have no link.
LEMMA Called ==
    ASSUME IdentityInv, NEW units \in SUBSET Units, Call(units),
           \A u \in units : OneInode(u), \A u, w \in units : u = w \/ Apart(u, w),
           \A u \in units : \A f \in Cover(u) : links[f] = Unlinked,
           UNCHANGED <<version, links, faults>>, committed' \in {committed, links},
           unhashed' \subseteq Files
    PROVE  IdentityInv' /\ \A u \in units : \A f \in Cover(u) : InHand(f)'
<1> USE DEF IdentityInv
<1>1. /\ pending' = units /\ hashing' = [t \in HashThreads |-> NoHash] /\ results' = {}
      /\ orphans' = {} /\ hashed' = 0 /\ backend' \in [HashThreads -> {"rust", "off"}]
  BY DEF Call
<1>2. \A t \in HashThreads : ~Hashing(t)'
  BY <1>1 DEF Hashing
<1>3. IdentityShape'
  <2>1. hashed' \in 0..(BatchSize - 1)
    BY <1>1, IdentityAssumption
  <2>2. hashing' \in [HashThreads -> Hashes \cup {NoHash}]
    BY <1>1
  <2>3. QED BY <1>1, <2>1, <2>2, ShapeNext DEF IdentityShape, IdentityTypeOK
<1>4. WholeInv'
  BY <1>1, <1>2 DEF WholeInv, OneInode, LinksHold, Held
<1>5. OneHandInv'
  BY <1>1, <1>2 DEF OneHandInv, Free
<1>6. QED BY <1>1, <1>3, <1>4, <1>5 DEF InHand

\* The units of files without a link: each file is in one, with its own inode.
LEMMA GroupedUnits ==
    ASSUME NEW files \in SUBSET Files
    PROVE  /\ Grouped(files) \subseteq Units
           /\ \A u \in Grouped(files) : OneInode(u) /\ Cover(u) \subseteq files
           /\ \A u, w \in Grouped(files) : u = w \/ Apart(u, w)
           /\ \A f \in files : \E u \in Grouped(files) : f \in Cover(u)
<1> DEFINE Rep(g) == CHOOSE f \in Mates(g, files) : TRUE
           Unit(g) == [rep |-> Rep(g), followers |-> Mates(g, files) \ {Rep(g)}]
<1>1. \A g \in files : Rep(g) \in Mates(g, files) /\ g \in Mates(g, files)
  BY DEF Mates
<1>2. \A g \in files : Mates(g, files) \subseteq files
  BY DEF Mates
<1>3. Grouped(files) = {Unit(g) : g \in files}
  BY DEF Grouped
<1>4. \A g \in files : /\ Unit(g).rep = Rep(g) /\ Unit(g).followers = Mates(g, files) \ {Rep(g)}
                       /\ Unit(g) \in Units
  BY <1>1, <1>2 DEF Units
<1> HIDE DEF Unit, Rep
<1>5. \A g \in files : Cover(Unit(g)) = Mates(g, files)
  BY <1>1, <1>4 DEF Cover
<1>6. ASSUME NEW g \in files, NEW e \in files PROVE Unit(g) = Unit(e) \/ Apart(Unit(g), Unit(e))
  <2>1. CASE InodeOf[g] = InodeOf[e]
    <3>1. Mates(g, files) = Mates(e, files)
      BY <2>1 DEF Mates
    <3>2. Rep(g) = Rep(e)
      BY <3>1 DEF Rep
    <3>3. QED BY <3>1, <3>2 DEF Unit
  <2>2. CASE InodeOf[g] # InodeOf[e]
    <3>1. Mates(g, files) \cap Mates(e, files) = {}
      BY <2>2 DEF Mates
    <3>2. QED BY <1>5, <3>1 DEF Apart
  <2>3. QED BY <2>1, <2>2
<1>7. \A g \in files : OneInode(Unit(g))
  BY <1>1, <1>4 DEF OneInode, Mates
<1>8. QED BY <1>1, <1>2, <1>3, <1>4, <1>5, <1>6, <1>7

LEMMA AloneUnits ==
    ASSUME NEW files \in SUBSET Files
    PROVE  /\ Alone(files) \subseteq Units
           /\ \A u \in Alone(files) : OneInode(u) /\ Cover(u) \subseteq files
           /\ \A u, w \in Alone(files) : u = w \/ Apart(u, w)
           /\ \A f \in files : \E u \in Alone(files) : f \in Cover(u)
<1> DEFINE Unit(g) == [rep |-> g, followers |-> {}]
<1>1. Alone(files) = {Unit(g) : g \in files}
  BY DEF Alone
<1>2. \A g \in files : Unit(g).rep = g /\ Unit(g).followers = {} /\ Unit(g) \in Units
  BY DEF Units
<1>3. \A g \in files : Cover(Unit(g)) = {g} /\ OneInode(Unit(g))
  BY <1>2 DEF Cover, OneInode
<1> HIDE DEF Unit
<1>4. QED BY <1>1, <1>2, <1>3 DEF Apart

LEMMA HashesOrphans ==
    ASSUME IdentityInv, HashOrphans
    PROVE  IdentityInv' /\ (Accounted => Accounted') /\ CommitStays
<1>1. /\ AllHashed /\ committed' = links /\ Call(Alone(orphans))
      /\ UNCHANGED <<version, links, unhashed, faults>>
  BY DEF HashOrphans
<1>2. orphans \subseteq Files /\ unhashed \subseteq Files /\ \A f \in orphans : links[f] = Unlinked
  BY DEF IdentityInv, IdentityShape, IdentityTypeOK, OneHandInv
<1>3. /\ Alone(orphans) \subseteq Units
      /\ \A u \in Alone(orphans) : OneInode(u) /\ Cover(u) \subseteq orphans
      /\ \A u, w \in Alone(orphans) : u = w \/ Apart(u, w)
      /\ \A f \in orphans : \E u \in Alone(orphans) : f \in Cover(u)
  BY <1>2, AloneUnits
<1>4. IdentityInv' /\ \A u \in Alone(orphans) : \A f \in Cover(u) : InHand(f)'
  BY <1>1, <1>2, <1>3, Called
<1>5. ASSUME Accounted PROVE Accounted'
  <2>1. \A f \in Files : InHand(f) => f \in orphans
    BY <1>1 DEF InHand, AllHashed, Hashing
  <2>2. QED BY <1>1, <1>3, <1>4, <1>5, <2>1 DEF Accounted
<1>6. CommitStays
  BY <1>1 DEF CommitStays, IdentityInv, OneHandInv
<1>7. QED BY <1>4, <1>5, <1>6

LEMMA Rewritten ==
    ASSUME IdentityInv, NEW i \in Inodes, Edit(i)
    PROVE  IdentityInv' /\ (Accounted => Accounted')
<1> USE DEF IdentityInv
<1>1. UNCHANGED <<links, committed, pending, hashing, results, orphans, hashed, unhashed, backend, faults>>
  BY DEF Edit
<1>2. version' \in [Inodes -> 0..MaxEdits] /\ \A j \in Inodes : version[j] \in Nat /\ version'[j] \in Nat /\ version[j] <= version'[j]
  BY IdentityAssumption DEF Edit, IdentityShape, IdentityTypeOK
<1>3. \A t \in HashThreads : Hashing(t)' <=> Hashing(t)
  BY <1>1 DEF Hashing
<1>4. IdentityShape'
  BY <1>1, <1>2, ShapeNext DEF IdentityShape, IdentityTypeOK
<1>5. \A j \in Inodes : \A digest : Held(j, digest) => Held(j, digest)'
  BY <1>2 DEF Held
<1>6. WholeInv'
  <2>1. LinksHold(links)' /\ LinksHold(committed)'
    BY <1>1, <1>5, Digests DEF WholeInv, LinksHold
  <2>2. \A r \in results : r.digest # NoDigest => Held(InodeOf[r.unit.rep], r.digest)'
    <3>1. \A r \in results : InodeOf[r.unit.rep] \in Inodes
      BY Digests DEF IdentityShape, IdentityTypeOK
    <3>2. QED BY <1>5, <3>1 DEF WholeInv
  <2>3. ASSUME NEW t \in HashThreads, Hashing(t)
        PROVE  hashing[t].before <= version'[InodeOf[hashing[t].unit.rep]]
    <3>1. hashing[t].before \in 0..MaxEdits /\ InodeOf[hashing[t].unit.rep] \in Inodes
      BY <2>3, HeldType
    <3>2. hashing[t].before <= version[InodeOf[hashing[t].unit.rep]]
      BY <2>3 DEF WholeInv
    <3>3. QED BY <1>2, <3>1, <3>2
  <2>4. QED BY <1>1, <1>3, <2>1, <2>2, <2>3 DEF WholeInv, OneInode
<1>7. OneHandInv'
  BY <1>1, <1>3 DEF OneHandInv, Free
<1>8. Accounted => Accounted'
  BY <1>1, <1>3 DEF Accounted, InHand
<1>9. QED BY <1>4, <1>6, <1>7, <1>8

---------------------------------------------------------------------------
(* The parsers.                                                             *)

ParserInv == ParserShape /\ PoisonInv /\ OneTaskInv

\* No content that is done or in work falls out of the work, and no good artifact is lost.
WorkStays ==
    /\ \A c \in Objects :
         Outcome(artifacts, c) \/ InWork(c) => Outcome(artifacts, c)' \/ InWork(c)'
    /\ \A c \in Objects : durable[c] = "COMPLETED" => durable'[c] = "COMPLETED"

LEMMA ParserShapeNext ==
    ASSUME isolated' \in BOOLEAN, started' \in Nat, pool' \in 0..started',
           terminated' \subseteq poisoned', poisoned' \subseteq 1..started',
           plan' \subseteq Items, silent' \subseteq Submitters,
           sub' \in [Submitters -> Tasks \cup {Idle}],
           \A s \in Submitters : Busy(s)' => sub'[s].pool <= started',
           parsed' \subseteq Objects \X {"COMPLETED", "ERROR"},
           artifacts' \in [Objects -> Statuses], durable' \in [Objects -> Statuses],
           uncommitted' \in 0..(ArtifactBatch - 1), unparsed' \subseteq Objects
    PROVE  ParserShape'
<1>1. \A s \in Submitters : sub'[s] = Idle \/
          sub'[s] \in [at : {"ensure", "submit", "waiting", "restart", "terminate"},
                       item : Items, attempt : 1..2, pool : 0..started']
  BY DEF Tasks, Busy
<1>2. terminated' \subseteq 1..started' /\ parsed' \subseteq Objects \X Statuses
  BY DEF Statuses
<1>3. QED BY <1>1, <1>2 DEF ParserShape, ParserTypeOK

LEMMA TaskFields ==
    /\ \A g \in Tasks : /\ g # Idle /\ g.item \in Items /\ g.item.object \in Objects
                        /\ g.item.paths \subseteq Paths /\ g.attempt \in 1..2 /\ g.pool \in Nat
                        /\ g.at \in {"ensure", "submit", "waiting", "restart", "terminate"}
<1>1. Idle.at = "idle"
  BY DEF Idle
<1>2. QED BY <1>1 DEF Tasks, Items

LEMMA FreshTask ==
    ASSUME NEW i \in Items, NEW a \in {"ensure", "submit", "waiting", "restart", "terminate"}
    PROVE  LET h == [at |-> a, item |-> i, attempt |-> 1, pool |-> 0]
           IN  h \in Tasks /\ h.item = i /\ h.pool = 0 /\ h.at = a
BY DEF Tasks

LEMMA TaskChanges ==
    ASSUME NEW g \in Tasks, NEW a \in {"ensure", "submit", "waiting", "restart", "terminate"}
    PROVE  LET h == [g EXCEPT !.at = a]
           IN  h \in Tasks /\ h.at = a /\ h.item = g.item /\ h.pool = g.pool
BY DEF Tasks

LEMMA PoolChanges ==
    ASSUME NEW g \in Tasks, NEW p \in Nat,
           NEW a \in {"ensure", "submit", "waiting", "restart", "terminate"}
    PROVE  LET h == [g EXCEPT !.at = a, !.pool = p]
           IN  h \in Tasks /\ h.at = a /\ h.item = g.item /\ h.pool = p
BY DEF Tasks

LEMMA AttemptChanges ==
    ASSUME NEW g \in Tasks, NEW n \in 1..2,
           NEW a \in {"ensure", "submit", "waiting", "restart", "terminate"}
    PROVE  LET h == [g EXCEPT !.at = a, !.attempt = n]
           IN  h \in Tasks /\ h.at = a /\ h.item = g.item /\ h.pool = g.pool
BY DEF Tasks

\* What a submitter at work holds.
LEMMA TaskType ==
    ASSUME ParserShape, NEW s \in Submitters, sub[s].at # "idle"
    PROVE  /\ Busy(s) /\ sub[s] \in Tasks /\ ObjectOf(s) \in Objects /\ sub[s].pool \in 0..started
           /\ started \in Nat
<1>1. Idle.at = "idle"
  BY DEF Idle
<1>2. Busy(s)
  BY <1>1 DEF Busy
<1>3. sub[s] \in Tasks
  BY <1>2 DEF Busy, ParserShape
<1>4. QED BY <1>2, <1>3, TaskFields DEF ObjectOf, ParserShape, ParserTypeOK

\* A submitter goes on with the object it has.
LEMMA GoesOn ==
    ASSUME ParserInv, NEW s \in Submitters, Busy(s), NEW h \in Tasks,
           sub' = [sub EXCEPT ![s] = h], h.item.object = ObjectOf(s),
           UNCHANGED <<plan, parsed, artifacts, durable, unparsed>>
    PROVE  /\ sub' \in [Submitters -> Tasks \cup {Idle}] /\ sub'[s] = h
           /\ \A q \in Submitters : q # s => sub'[q] = sub[q]
           /\ \A q \in Submitters : Busy(q)' <=> Busy(q)
           /\ OneTaskInv' /\ WorkStays
<1> USE DEF ParserInv
<1>1. /\ sub' \in [Submitters -> Tasks \cup {Idle}] /\ sub'[s] = h
      /\ \A q \in Submitters : q # s => sub'[q] = sub[q]
  BY DEF ParserShape
<1>2. \A q \in Submitters : Busy(q)' <=> Busy(q)
  BY <1>1, TaskFields DEF Busy
<1>3. \A q \in Submitters : Busy(q) => ObjectOf(q)' = ObjectOf(q)
  BY <1>1 DEF ObjectOf
<1>4. OneTaskInv'
  BY <1>2, <1>3 DEF OneTaskInv
<1>5. WorkStays
  BY <1>2, <1>3 DEF WorkStays, Outcome, InWork
<1>6. QED BY <1>1, <1>2, <1>4, <1>5

LEMMA Answered ==
    ASSUME ParserInv, NEW s \in Submitters, sub[s].at # "idle", NEW good \in BOOLEAN, Answer(s, good),
           pool' \in 0..started, terminated' \subseteq poisoned
    PROVE  ParserInv' /\ WorkStays
<1> USE DEF ParserInv
<1> DEFINE c == ObjectOf(s)
           w == sub[s].item
           rest == [w EXCEPT !.paths = w.paths \ {CHOOSE q \in w.paths : TRUE}]
           st == IF good THEN "COMPLETED" ELSE "ERROR"
           h == [at |-> "ensure", item |-> rest, attempt |-> 1, pool |-> 0]
<1>1. Busy(s) /\ sub[s] \in Tasks /\ c \in Objects /\ w \in Items /\ w.object = c
  BY TaskType, TaskFields DEF ObjectOf
<1>2. rest \in Items /\ rest.object = c
  BY <1>1 DEF Items
<1>3. h \in Tasks /\ h.item.object = c /\ h.pool = 0 /\ h.at = "ensure"
  <2> HIDE DEF rest
  <2>1. h \in Tasks /\ h.item = rest /\ h.pool = 0 /\ h.at = "ensure"
    BY <1>2, FreshTask
  <2>2. QED BY <1>2, <2>1
<1>4. /\ silent' = silent \ {s}
      /\ UNCHANGED <<isolated, started, poisoned, plan, artifacts, durable, uncommitted, unparsed>>
      /\ \/ sub' = [sub EXCEPT ![s] = Idle] /\ parsed' = parsed \cup {<<c, st>>}
         \/ sub' = [sub EXCEPT ![s] = h] /\ parsed' = parsed
  BY DEF Answer, ObjectOf
<1> HIDE DEF h, rest, w
<1>5. /\ \A q \in silent' : q # s /\ q \in silent
      /\ terminated' \subseteq poisoned' /\ pool' \in 0..started'
  BY <1>4
<1>6. CASE sub' = [sub EXCEPT ![s] = h] /\ parsed' = parsed
  <2>1. /\ sub' \in [Submitters -> Tasks \cup {Idle}] /\ sub'[s] = h
        /\ \A q \in Submitters : q # s => sub'[q] = sub[q]
        /\ \A q \in Submitters : Busy(q)' <=> Busy(q)
        /\ OneTaskInv' /\ WorkStays
    BY <1>1, <1>3, <1>4, <1>6, GoesOn
  <2>2. \A q \in Submitters : Busy(q)' => sub'[q].pool <= started'
    BY <1>3, <1>4, <2>1 DEF ParserShape, ParserTypeOK
  <2>3. ParserShape'
    BY <1>4, <1>5, <1>6, <2>1, <2>2, ParserShapeNext DEF ParserShape, ParserTypeOK
  <2>4. PoisonInv'
    BY <1>3, <1>4, <1>5, <2>1 DEF PoisonInv, ParserShape, ParserTypeOK
  <2>5. QED BY <2>1, <2>3, <2>4
<1>7. CASE sub' = [sub EXCEPT ![s] = Idle] /\ parsed' = parsed \cup {<<c, st>>}
  <2>1. /\ sub' \in [Submitters -> Tasks \cup {Idle}] /\ ~Busy(s)'
        /\ \A q \in Submitters : q # s => sub'[q] = sub[q]
    BY <1>7 DEF ParserShape, Busy
  <2>2. \A q \in Submitters : Busy(q)' => q # s /\ Busy(q) /\ sub'[q] = sub[q]
    BY <2>1 DEF Busy
  <2>3. parsed' \subseteq Objects \X {"COMPLETED", "ERROR"}
    BY <1>1, <1>7 DEF ParserShape
  <2>4. ParserShape'
    BY <1>4, <1>5, <2>1, <2>2, <2>3, ParserShapeNext DEF ParserShape, ParserTypeOK
  <2>5. PoisonInv'
    <3>1. \A q \in silent' : Busy(q)' /\ sub'[q] = sub[q]
      BY <1>5, <2>1 DEF PoisonInv, Busy, ParserShape, ParserTypeOK
    <3>2. QED BY <1>4, <1>5, <2>2, <3>1 DEF PoisonInv
  <2>6. OneTaskInv'
    <3>1. /\ \A v \in plan : v.object # c
          /\ \A q \in Submitters : Busy(q) /\ ObjectOf(q) = c => q = s
          /\ \A r \in parsed : r[1] # c
          /\ artifacts[c] # "COMPLETED"
      BY <1>1 DEF OneTaskInv
    <3>2. \A q \in Submitters : Busy(q)' => ObjectOf(q)' = ObjectOf(q) /\ ObjectOf(q) # c
      BY <2>2, <3>1 DEF ObjectOf
    <3>3. \A r \in parsed' : r \in parsed \/ (r[1] = c /\ r = <<c, st>>)
      BY <1>7
    <3>4. QED BY <1>4, <2>2, <3>1, <3>2, <3>3 DEF OneTaskInv
  <2>7. WorkStays
    <3>1. \A q \in Submitters : Busy(q) /\ q # s => Busy(q)' /\ ObjectOf(q)' = ObjectOf(q)
      BY <2>1 DEF Busy, ObjectOf
    <3>2. \E r \in parsed' : r[1] = c
      <4> HIDE DEF c, st
      <4>1. <<c, st>> \in parsed' /\ <<c, st>>[1] = c
        BY <1>7
      <4>2. QED BY <4>1
    <3>3. \A o \in Objects : InWork(o) => InWork(o)'
      <4>1. SUFFICES ASSUME NEW o \in Objects, InWork(o) PROVE InWork(o)'
        OBVIOUS
      <4>2. CASE o = c
        BY <3>2, <4>2 DEF InWork
      <4>3. CASE o # c
        <5>1. \A q \in Submitters : Busy(q) /\ ObjectOf(q) = o => Busy(q)' /\ ObjectOf(q)' = o
          BY <3>1, <4>3
        <5>2. plan' = plan /\ parsed \subseteq parsed'
          BY <1>4, <1>7
        <5>3. QED BY <4>1, <5>1, <5>2 DEF InWork
      <4>4. QED BY <4>2, <4>3
    <3>4. QED BY <1>4, <3>3 DEF WorkStays, Outcome
  <2>8. QED BY <2>4, <2>5, <2>6, <2>7
<1>8. QED BY <1>4, <1>6, <1>7

\* A submitter goes on, in what the pools allow.
LEMMA Moves ==
    ASSUME ParserInv, NEW s \in Submitters, Busy(s), NEW h \in Tasks,
           sub' = [sub EXCEPT ![s] = h], h.item.object = ObjectOf(s),
           UNCHANGED <<isolated, terminated, poisoned, plan, silent, parsed, artifacts, durable,
                       uncommitted, unparsed>>,
           started' \in Nat, started <= started', pool' \in 0..started', h.pool <= started',
           h.at \in {"submit", "waiting"} => h.pool > 0,
           h.at \in {"restart", "terminate"} => h.pool \in poisoned,
           s \in silent => h.pool \in poisoned /\ h.at \in {"waiting", "restart", "terminate"}
    PROVE  ParserInv' /\ WorkStays
<1> USE DEF ParserInv
<1>1. /\ sub' \in [Submitters -> Tasks \cup {Idle}] /\ sub'[s] = h
      /\ \A q \in Submitters : q # s => sub'[q] = sub[q]
      /\ \A q \in Submitters : Busy(q)' <=> Busy(q)
      /\ OneTaskInv' /\ WorkStays
  BY GoesOn
<1>2. started \in Nat /\ 1..started \subseteq 1..started'
  BY DEF ParserShape, ParserTypeOK
<1>3. \A q \in Submitters : Busy(q)' => sub'[q].pool <= started'
  <2>1. \A q \in Submitters : Busy(q) => sub[q].pool \in Nat
    BY TaskFields DEF ParserShape, Busy
  <2>2. QED BY <1>1, <1>2, <2>1 DEF ParserShape
<1>4. ParserShape'
  <2>1. terminated' \subseteq poisoned' /\ poisoned' \subseteq 1..started'
    BY <1>2 DEF ParserShape, ParserTypeOK, PoisonInv
  <2>2. QED BY <1>1, <1>3, <2>1, ParserShapeNext DEF ParserShape, ParserTypeOK
<1>5. PoisonInv'
  BY <1>1 DEF PoisonInv, ParserShape, ParserTypeOK
<1>6. QED BY <1>1, <1>4, <1>5

LEMMA Takes ==
    ASSUME ParserInv, NEW s \in Submitters, Take(s)
    PROVE  ParserInv' /\ WorkStays
<1> USE DEF ParserInv
<1>1. PICK w \in plan :
        /\ plan' = plan \ {w}
        /\ sub' = [sub EXCEPT ![s] = [at |-> "ensure", item |-> w, attempt |-> 1, pool |-> 0]]
  BY DEF Take
<1> DEFINE h == [at |-> "ensure", item |-> w, attempt |-> 1, pool |-> 0]
<1>2. w \in Items /\ h \in Tasks /\ h.item = w /\ h.pool = 0 /\ h.at = "ensure"
  <2>1. w \in Items
    BY DEF ParserShape, ParserTypeOK
  <2>2. QED BY <2>1, FreshTask
<1>3. ~Busy(s) /\ UNCHANGED <<isolated, pool, started, terminated, poisoned, silent, parsed,
                              artifacts, durable, uncommitted, unparsed>>
  BY DEF Take, Busy
<1>4. sub' = [sub EXCEPT ![s] = h]
  BY <1>1
<1> HIDE DEF h
<1>5. /\ sub' \in [Submitters -> Tasks \cup {Idle}] /\ sub'[s] = h
      /\ \A q \in Submitters : q # s => sub'[q] = sub[q]
  BY <1>2, <1>4 DEF ParserShape
<1>6. Busy(s)' /\ \A q \in Submitters : q # s => (Busy(q)' <=> Busy(q))
  BY <1>2, <1>5, TaskFields DEF Busy
<1>7. ObjectOf(s)' = w.object /\ \A q \in Submitters : q # s => ObjectOf(q)' = ObjectOf(q)
  BY <1>2, <1>5 DEF ObjectOf
<1>8. ParserShape'
  <2>1. \A q \in Submitters : Busy(q)' => sub'[q].pool <= started'
    BY <1>2, <1>3, <1>5, <1>6 DEF ParserShape, ParserTypeOK
  <2>2. terminated' \subseteq poisoned' /\ plan' \subseteq Items
    BY <1>1, <1>3 DEF ParserShape, ParserTypeOK, PoisonInv
  <2>3. QED BY <1>3, <1>5, <2>1, <2>2, ParserShapeNext DEF ParserShape, ParserTypeOK
<1>9. PoisonInv'
  BY <1>2, <1>3, <1>5, <1>6 DEF PoisonInv, ParserShape, ParserTypeOK
<1>10. OneTaskInv'
  <2>1. \A v \in plan' : v \in plan /\ v.object # w.object
    BY <1>1 DEF OneTaskInv
  <2>2. \A q \in Submitters : Busy(q) => ObjectOf(q) # w.object
    BY DEF OneTaskInv
  <2>3. \A r \in parsed : r[1] # w.object
    BY DEF OneTaskInv
  <2>4. artifacts[w.object] # "COMPLETED"
    BY DEF OneTaskInv
  <2>5. QED BY <1>3, <1>6, <1>7, <2>1, <2>2, <2>3, <2>4 DEF OneTaskInv
<1>11. WorkStays
  <2>1. ASSUME NEW o \in Objects, InWork(o) PROVE InWork(o)'
    <3>1. CASE o = w.object
      BY <1>6, <1>7, <3>1 DEF InWork
    <3>2. CASE o # w.object
      <4>1. \A v \in plan : v.object = o => v \in plan'
        BY <1>1, <3>2
      <4>2. \A q \in Submitters : Busy(q) /\ ObjectOf(q) = o => Busy(q)' /\ ObjectOf(q)' = o
        BY <1>3, <1>6, <1>7
      <4>3. QED BY <1>3, <2>1, <4>1, <4>2 DEF InWork
    <3>3. QED BY <3>1, <3>2
  <2>2. QED BY <1>3, <2>1 DEF WorkStays, Outcome
<1>12. QED BY <1>8, <1>9, <1>10, <1>11

LEMMA EnsuresPool ==
    ASSUME ParserInv, NEW s \in Submitters, EnsurePool(s)
    PROVE  ParserInv' /\ WorkStays
<1>1. Busy(s) /\ sub[s] \in Tasks /\ started \in Nat /\ pool \in 0..started
  BY TaskType DEF ParserInv, EnsurePool, ParserShape, ParserTypeOK
<1> DEFINE h == [sub[s] EXCEPT !.at = "submit", !.pool = pool']
<1>2. /\ started' \in Nat /\ started <= started' /\ pool' \in 1..started'
  BY <1>1 DEF EnsurePool
<1>3. h \in Tasks /\ h.at = "submit" /\ h.pool = pool' /\ h.item = sub[s].item
  <2>1. pool' \in Nat
    BY <1>2
  <2>2. QED BY <1>1, <2>1 DEF Tasks
<1>4. sub' = [sub EXCEPT ![s] = h]
  BY DEF EnsurePool
<1>5. s \notin silent
  BY DEF EnsurePool, ParserInv, PoisonInv
<1> HIDE DEF h
<1>6. UNCHANGED <<isolated, terminated, poisoned, plan, silent, parsed, artifacts, durable,
                  uncommitted, unparsed>>
  BY DEF EnsurePool
<1>7. pool' \in 0..started' /\ h.pool <= started' /\ h.pool > 0
  BY <1>2, <1>3
<1>8. QED BY <1>1, <1>2, <1>3, <1>4, <1>5, <1>6, <1>7, Moves DEF ObjectOf

LEMMA Submits ==
    ASSUME ParserInv, NEW s \in Submitters, SubmitTask(s) \/ TimeOut(s)
    PROVE  ParserInv' /\ WorkStays
<1>1. /\ Busy(s) /\ sub[s] \in Tasks /\ started \in Nat /\ pool \in 0..started
      /\ sub[s].pool \in 0..started
  BY TaskType DEF ParserInv, SubmitTask, TimeOut, ParserShape, ParserTypeOK
<1>2. /\ UNCHANGED <<isolated, terminated, poisoned, plan, silent, parsed, artifacts, durable,
                     uncommitted, unparsed>>
      /\ started' \in Nat /\ started <= started' /\ pool' \in 0..started'
      /\ sub[s].pool <= started'
  BY <1>1 DEF SubmitTask, TimeOut
<1>3. CASE SubmitTask(s)
  <2> DEFINE h == [sub[s] EXCEPT !.at = "waiting"]
  <2>1. h \in Tasks /\ h.at = "waiting" /\ h.pool = sub[s].pool /\ h.item = sub[s].item
    BY <1>1, TaskChanges
  <2>2. sub' = [sub EXCEPT ![s] = h]
    BY <1>3 DEF SubmitTask
  <2>3. s \notin silent /\ sub[s].pool > 0
    BY <1>1, <1>3 DEF SubmitTask, ParserInv, PoisonInv
  <2> HIDE DEF h
  <2>4. QED BY <1>1, <1>2, <2>1, <2>2, <2>3, Moves DEF ObjectOf
<1>4. CASE TimeOut(s)
  <2> DEFINE h == [sub[s] EXCEPT !.at = "restart"]
  <2>1. h \in Tasks /\ h.at = "restart" /\ h.pool = sub[s].pool /\ h.item = sub[s].item
    BY <1>1, TaskChanges
  <2>2. sub' = [sub EXCEPT ![s] = h]
    BY <1>4 DEF TimeOut
  <2>3. sub[s].pool \in poisoned
    BY <1>4 DEF TimeOut, ParserInv, PoisonInv
  <2> HIDE DEF h
  <2>4. QED BY <1>1, <1>2, <2>1, <2>2, <2>3, Moves DEF ObjectOf
<1>5. QED BY <1>3, <1>4

LEMMA IsRefused ==
    ASSUME ParserInv, NEW s \in Submitters, Refused(s)
    PROVE  ParserInv' /\ WorkStays
<1>1. /\ Busy(s) /\ sub[s] \in Tasks /\ started \in Nat /\ pool \in 0..started
      /\ sub[s].pool \in 0..started /\ sub[s].at = "submit" /\ sub[s].attempt \in 1..2
  BY TaskType, TaskFields DEF ParserInv, Refused, ParserShape, ParserTypeOK
<1>2. CASE Retries(s)
  <2> DEFINE h == [sub[s] EXCEPT !.at = "ensure", !.attempt = sub[s].attempt + 1]
  <2>1. sub[s].attempt + 1 \in 1..2
    BY <1>1, <1>2 DEF Retries
  <2>2. h \in Tasks /\ h.at = "ensure" /\ h.pool = sub[s].pool /\ h.item = sub[s].item
    BY <1>1, <2>1 DEF Tasks
  <2>3. /\ sub' = [sub EXCEPT ![s].at = "ensure", ![s].attempt = @ + 1]
        /\ UNCHANGED <<isolated, terminated, poisoned, plan, silent, parsed, artifacts, durable,
                       uncommitted, unparsed>>
        /\ started' \in Nat /\ started <= started' /\ pool' \in 0..started'
        /\ sub[s].pool <= started'
    BY <1>1, <1>2 DEF Refused
  <2>6. sub' = [sub EXCEPT ![s] = h]
    BY <1>1, <2>3 DEF ParserInv, ParserShape
  <2>4. s \notin silent
    BY <1>1 DEF ParserInv, PoisonInv
  <2> HIDE DEF h
  <2>5. QED BY <1>1, <2>2, <2>3, <2>4, <2>6, Moves DEF ObjectOf
<1>3. CASE ~Retries(s)
  <2>1. Answer(s, FALSE) /\ UNCHANGED <<pool, terminated>>
    BY <1>3 DEF Refused
  <2>2. terminated' \subseteq poisoned
    BY <2>1 DEF ParserInv, PoisonInv
  <2>3. QED BY <1>1, <2>1, <2>2, Answered
<1>4. QED BY <1>2, <1>3

LEMMA AnswersWell ==
    ASSUME ParserInv, NEW s \in Submitters, ParseInProcess(s) \/ Answers(s)
    PROVE  ParserInv' /\ WorkStays
<1>1. sub[s].at # "idle" /\ UNCHANGED <<pool, terminated>> /\ \E good \in BOOLEAN : Answer(s, good)
  BY DEF ParseInProcess, Answers
<1>2. pool' \in 0..started /\ terminated' \subseteq poisoned
  BY <1>1 DEF ParserInv, ParserShape, ParserTypeOK, PoisonInv
<1>3. QED BY <1>1, <1>2, Answered

LEMMA FallsSilent ==
    ASSUME ParserInv, NEW s \in Submitters, FallSilent(s)
    PROVE  ParserInv' /\ WorkStays
<1> USE DEF ParserInv
<1>1. /\ Busy(s) /\ sub[s] \in Tasks /\ sub[s].pool \in 0..started /\ sub[s].at = "waiting"
  BY TaskType DEF FallSilent
<1>2. sub[s].pool > 0
  BY <1>1 DEF PoisonInv
<1>3. /\ silent' = silent \cup {s} /\ poisoned' = poisoned \cup {sub[s].pool}
      /\ UNCHANGED <<isolated, pool, started, terminated, plan, sub, parsed, artifacts, durable,
                     uncommitted, unparsed>>
  BY DEF FallSilent
<1>4. \A q \in Submitters : Busy(q)' <=> Busy(q)
  BY <1>3 DEF Busy
<1>5. ParserShape'
  <2>1. terminated' \subseteq poisoned' /\ poisoned' \subseteq 1..started' /\ silent' \subseteq Submitters
    <3>1. started \in Nat /\ sub[s].pool \in 1..started
      BY <1>1, <1>2 DEF ParserShape, ParserTypeOK
    <3>2. terminated \subseteq poisoned /\ poisoned \subseteq 1..started /\ silent \subseteq Submitters
      BY DEF ParserShape, ParserTypeOK, PoisonInv
    <3>3. QED BY <1>3, <3>1, <3>2
  <2>2. \A q \in Submitters : Busy(q)' => sub'[q].pool <= started'
    BY <1>3, <1>4 DEF ParserShape
  <2>3. QED BY <1>3, <2>1, <2>2, ParserShapeNext DEF ParserShape, ParserTypeOK
<1>6. PoisonInv'
  <2> HIDE DEF ParserInv
  <2>1. PoisonInv
    BY DEF ParserInv
  <2>2. terminated \subseteq poisoned /\ poisoned \subseteq poisoned'
    BY <1>3, <2>1 DEF PoisonInv
  <2>3. \A q \in silent' : /\ Busy(q) /\ sub[q].pool \in poisoned'
                           /\ sub[q].at \in {"waiting", "restart", "terminate"}
    BY <1>1, <1>3, <2>1 DEF PoisonInv
  <2>4. ASSUME NEW q \in Submitters, Busy(q)'
        PROVE  /\ sub'[q].at \in {"submit", "waiting"} => sub'[q].pool > 0
               /\ sub'[q].at \in {"restart", "terminate"} => sub'[q].pool \in poisoned'
    BY <1>3, <1>4, <2>1, <2>2, <2>4 DEF PoisonInv
  <2>5. terminated' \subseteq poisoned' /\ \A q \in silent' : Busy(q)'
    BY <1>3, <2>2, <2>3 DEF Busy
  <2>6. QED BY <1>3, <2>3, <2>4, <2>5 DEF PoisonInv
<1>7. OneTaskInv' /\ WorkStays
  BY <1>3, <1>4 DEF OneTaskInv, WorkStays, InWork, Outcome, ObjectOf
<1>8. QED BY <1>5, <1>6, <1>7

LEMMA Detaches ==
    ASSUME ParserInv, NEW s \in Submitters, Detach(s)
    PROVE  ParserInv' /\ WorkStays
<1>1. /\ Busy(s) /\ sub[s] \in Tasks /\ started \in Nat /\ pool \in 0..started
      /\ sub[s].pool \in 0..started /\ sub[s].at = "restart" /\ sub[s].pool \in poisoned
  BY TaskType DEF ParserInv, Detach, ParserShape, ParserTypeOK, PoisonInv
<1>2. CASE Doomed(s) = 0
  <2>1. Answer(s, FALSE) /\ UNCHANGED <<pool, terminated>>
    BY <1>2 DEF Detach
  <2>2. terminated' \subseteq poisoned
    BY <2>1 DEF ParserInv, PoisonInv
  <2>3. QED BY <1>1, <2>1, <2>2, Answered
<1>3. CASE Doomed(s) # 0
  <2> DEFINE h == [sub[s] EXCEPT !.at = "terminate", !.pool = sub[s].pool]
  <2>1. Doomed(s) = sub[s].pool
    BY <1>3 DEF Doomed
  <2>2. h \in Tasks /\ h.at = "terminate" /\ h.pool = sub[s].pool /\ h.item = sub[s].item
    <3>1. sub[s].pool \in Nat
      BY <1>1
    <3>2. QED BY <1>1, <3>1 DEF Tasks
  <2>3. sub' = [sub EXCEPT ![s] = h]
    BY <1>3, <2>1 DEF Detach
  <2> HIDE DEF h
  <2>4. /\ UNCHANGED <<isolated, terminated, poisoned, plan, silent, parsed, artifacts, durable,
                       uncommitted, unparsed>>
        /\ started' \in Nat /\ started <= started' /\ pool' \in 0..started'
        /\ sub[s].pool <= started'
    BY <1>1, <1>3 DEF Detach
  <2>5. QED BY <1>1, <2>2, <2>3, <2>4, Moves DEF ObjectOf
<1>4. QED BY <1>2, <1>3

LEMMA Terminates ==
    ASSUME ParserInv, NEW s \in Submitters, Terminate(s)
    PROVE  ParserInv' /\ WorkStays
<1>1. sub[s].at # "idle" /\ Answer(s, FALSE) /\ pool' = pool
      /\ terminated' = terminated \cup {sub[s].pool}
  BY DEF Terminate
<1>2. Busy(s)
  BY <1>1, TaskType DEF ParserInv
<1>3. pool' \in 0..started /\ terminated' \subseteq poisoned
  BY <1>1, <1>2 DEF ParserInv, ParserShape, ParserTypeOK, PoisonInv, Terminate
<1>4. QED BY <1>1, <1>3, Answered

LEMMA Runs ==
    ASSUME ParserInv, NEW s \in Submitters, Run(s) \/ FallSilent(s)
    PROVE  ParserInv' /\ WorkStays
BY Takes, EnsuresPool, Submits, IsRefused, AnswersWell, FallsSilent, Detaches, Terminates DEF Run

LEMMA PoisonSame ==
    ASSUME PoisonInv, UNCHANGED <<terminated, poisoned, sub, silent>>
    PROVE  PoisonInv'
BY DEF PoisonInv, Busy

LEMMA ArtifactCount ==
    \A n \in 0..(ArtifactBatch - 1) : (n + 1) % ArtifactBatch \in 0..(ArtifactBatch - 1)
BY ParserAssumption

LEMMA Writes ==
    ASSUME ParserInv, WriteArtifact
    PROVE  ParserInv' /\ WorkStays
<1> USE DEF ParserInv
<1>1. PICK r \in parsed :
        /\ parsed' = parsed \ {r}
        /\ artifacts' = [artifacts EXCEPT ![r[1]] = r[2]]
        /\ unparsed' = IF r[2] = "ERROR" THEN unparsed \cup {r[1]} ELSE unparsed
        /\ uncommitted' = (uncommitted + 1) % ArtifactBatch
        /\ durable' = IF uncommitted' = 0 THEN artifacts' ELSE durable
        /\ UNCHANGED <<isolated, pool, started, terminated, poisoned, plan, sub, silent>>
  BY DEF WriteArtifact
<1>2. r[1] \in Objects /\ r[2] \in {"COMPLETED", "ERROR"}
  BY DEF ParserShape
<1> DEFINE c == r[1]
           st == r[2]
<1>3. /\ artifacts' = [artifacts EXCEPT ![c] = st]
      /\ unparsed' = IF st = "ERROR" THEN unparsed \cup {c} ELSE unparsed
      /\ c \in Objects /\ st \in {"COMPLETED", "ERROR"}
  BY <1>1, <1>2
<1> HIDE DEF c, st
<1>4. /\ artifacts' \in [Objects -> Statuses] /\ artifacts'[c] = st
      /\ \A o \in Objects : o # c => artifacts'[o] = artifacts[o]
  BY <1>3 DEF ParserShape, ParserTypeOK, Statuses
<1>5. \A q \in Submitters : (Busy(q)' <=> Busy(q)) /\ ObjectOf(q)' = ObjectOf(q)
  BY <1>1 DEF Busy, ObjectOf
<1>6. /\ \A w \in plan : w.object # c
      /\ \A q \in Submitters : Busy(q) => ObjectOf(q) # c
      /\ \A q \in parsed' : q[1] # c /\ q \in parsed
      /\ artifacts[c] # "COMPLETED"
  BY <1>1 DEF OneTaskInv, c
<1>7. /\ \A w \in plan : w.object \in Objects
      /\ \A q \in Submitters : Busy(q) => ObjectOf(q) \in Objects
      /\ \A q \in parsed' : q[1] \in Objects
  <2>1. \A q \in Submitters : Busy(q) => sub[q] \in Tasks
    BY DEF ParserShape, Busy
  <2>2. QED BY <1>1, <2>1, TaskFields DEF ParserShape, ParserTypeOK, Items, ObjectOf
<1>8. ParserShape'
  <2>1. uncommitted' \in 0..(ArtifactBatch - 1)
    BY <1>1, ArtifactCount DEF ParserShape, ParserTypeOK
  <2>2. unparsed' \subseteq Objects /\ durable' \in [Objects -> Statuses]
    BY <1>1, <1>3, <1>4 DEF ParserShape, ParserTypeOK
  <2>3. parsed' \subseteq Objects \X {"COMPLETED", "ERROR"} /\ terminated' \subseteq poisoned'
    BY <1>1 DEF ParserShape, PoisonInv
  <2>4. \A q \in Submitters : Busy(q)' => sub'[q].pool <= started'
    BY <1>1, <1>5 DEF ParserShape
  <2>5. QED BY <1>1, <1>4, <2>1, <2>2, <2>3, <2>4, ParserShapeNext DEF ParserShape, ParserTypeOK
<1>9. PoisonInv'
  BY <1>1, PoisonSame
<1>10. \A o \in Objects : durable[o] = "COMPLETED" => artifacts'[o] = "COMPLETED"
  BY <1>4, <1>6 DEF OneTaskInv
<1>11. OneTaskInv'
  <2>1. /\ \A w \in plan : artifacts'[w.object] # "COMPLETED"
        /\ \A q \in Submitters : Busy(q) => artifacts'[ObjectOf(q)] # "COMPLETED"
        /\ \A q \in parsed' : artifacts'[q[1]] # "COMPLETED"
    BY <1>4, <1>6, <1>7 DEF OneTaskInv
  <2>2. \A o \in Objects : durable'[o] = "COMPLETED" => artifacts'[o] = "COMPLETED"
    BY <1>1, <1>10
  <2>3. QED BY <1>1, <1>5, <1>6, <2>1, <2>2 DEF OneTaskInv
<1>12. WorkStays
  <2>1. \A o \in Objects : durable[o] = "COMPLETED" => durable'[o] = "COMPLETED"
    BY <1>1, <1>10
  <2>2. Outcome(artifacts, c)'
    BY <1>3, <1>4 DEF Outcome
  <2>3. ASSUME NEW o \in Objects, o # c, Outcome(artifacts, o) PROVE Outcome(artifacts, o)'
    BY <1>3, <1>4, <2>3 DEF Outcome
  <2>4. ASSUME NEW o \in Objects, o # c, InWork(o) PROVE InWork(o)'
    <3>1. \A q \in parsed : q[1] = o => q \in parsed'
      BY <1>1, <2>4 DEF c
    <3>2. QED BY <1>1, <1>5, <2>4, <3>1 DEF InWork
  <2>5. QED BY <2>1, <2>2, <2>3, <2>4 DEF WorkStays
<1>13. QED BY <1>8, <1>9, <1>11, <1>12

---------------------------------------------------------------------------
(* The stage.                                                               *)

StageShape ==
    /\ phase \in {"new", "identity", "parse", "closing", "ended", "stopped", "down"}
    /\ stopping \in BOOLEAN /\ starts \in 0..MaxStarts
StageInv == IdentityInv /\ ParserInv /\ StageShape /\ PhaseInv /\ AccountInv

\* What a step keeps of what is committed.
Stays ==
    /\ \A f \in Files : committed[f] # Unlinked => committed'[f] = committed[f]
    /\ \A c \in Contents : durable[c] = "COMPLETED" => durable'[c] = "COMPLETED"

LEMMA IdentitySame ==
    ASSUME IdentityInv, UNCHANGED identityVars
    PROVE  IdentityInv' /\ (Accounted => Accounted')
<1>1. UNCHANGED <<version, links, committed, pending, hashing, results, orphans, hashed, unhashed,
                  backend, faults>>
  BY DEF identityVars
<1>2. \A t \in HashThreads : Hashing(t)' <=> Hashing(t)
  BY <1>1 DEF Hashing
<1>3. IdentityShape'
  BY <1>1, ShapeNext DEF IdentityInv, IdentityShape, IdentityTypeOK
<1>4. WholeInv'
  BY <1>1, <1>2 DEF IdentityInv, WholeInv, LinksHold, Held, OneInode
<1>5. OneHandInv'
  BY <1>1, <1>2 DEF IdentityInv, OneHandInv, Free
<1>6. Accounted => Accounted'
  BY <1>1, <1>2 DEF Accounted, InHand
<1>7. QED BY <1>3, <1>4, <1>5, <1>6 DEF IdentityInv

\* Nothing is in the hands of the identity phase after the step.
LEMMA IdentityRests ==
    ASSUME IdentityInv, version' = version, links' \in {links, committed},
           committed' \in {links, committed},
           \A f \in Files : committed'[f] # Unlinked => links'[f] = committed'[f],
           pending' = {}, results' = {}, orphans' = {}, \A t \in HashThreads : hashing'[t] = NoHash,
           hashing' \in [HashThreads -> Hashes \cup {NoHash}],
           hashed' \in 0..(BatchSize - 1), unhashed' \subseteq Files,
           backend' \in [HashThreads -> {"rust", "off"}], faults' = faults
    PROVE  IdentityInv'
<1>1. \A t \in HashThreads : ~Hashing(t)'
  BY DEF Hashing
<1>2. IdentityShape'
  BY ShapeNext DEF IdentityInv, IdentityShape, IdentityTypeOK
<1>3. WholeInv'
  BY <1>1 DEF IdentityInv, WholeInv, LinksHold, Held
<1>4. OneHandInv'
  BY <1>1 DEF OneHandInv
<1>5. QED BY <1>2, <1>3, <1>4 DEF IdentityInv

LEMMA ParserSame ==
    ASSUME ParserInv, UNCHANGED parserVars
    PROVE  ParserInv' /\ WorkStays
<1>1. UNCHANGED <<isolated, pool, started, terminated, poisoned, plan, sub, silent, parsed,
                  artifacts, durable, uncommitted, unparsed>>
  BY DEF parserVars
<1>2. \A s \in Submitters : (Busy(s)' <=> Busy(s)) /\ ObjectOf(s)' = ObjectOf(s)
  BY <1>1 DEF Busy, ObjectOf
<1>3. ParserShape'
  <2>1. terminated' \subseteq poisoned'
    BY <1>1 DEF ParserInv, PoisonInv
  <2>2. QED BY <1>1, <1>2, <2>1, ParserShapeNext DEF ParserInv, ParserShape, ParserTypeOK
<1>4. PoisonInv' /\ OneTaskInv'
  BY <1>1, <1>2, PoisonSame DEF ParserInv, OneTaskInv
<1>5. WorkStays
  BY <1>1, <1>2 DEF WorkStays, Outcome, InWork
<1>6. QED BY <1>3, <1>4, <1>5 DEF ParserInv

\* No submitter is at work after the step.
LEMMA ParserRests ==
    ASSUME ParserInv, isolated' = isolated, started' \in Nat, pool' \in 0..started',
           poisoned' \subseteq 1..started', terminated' \subseteq poisoned',
           plan' \subseteq Items, \A v, w \in plan' : v.object = w.object => v = w,
           \A w \in plan' : artifacts'[w.object] # "COMPLETED",
           sub' \in [Submitters -> Tasks \cup {Idle}], \A s \in Submitters : sub'[s] = Idle,
           silent' = {}, parsed' = {},
           artifacts' \in {artifacts, durable}, durable' \in {artifacts, durable},
           \A c \in Objects : durable'[c] = "COMPLETED" => artifacts'[c] = "COMPLETED",
           uncommitted' \in 0..(ArtifactBatch - 1), unparsed' \subseteq Objects
    PROVE  ParserInv' /\ \A s \in Submitters : ~Busy(s)'
<1>1. \A s \in Submitters : ~Busy(s)'
  BY DEF Busy
<1>2. ParserShape'
  BY <1>1, ParserShapeNext DEF ParserInv, ParserShape, ParserTypeOK
<1>3. PoisonInv'
  BY <1>1 DEF PoisonInv
<1>4. OneTaskInv'
  BY <1>1 DEF OneTaskInv
<1>5. QED BY <1>1, <1>2, <1>3, <1>4 DEF ParserInv

\* The objects are the contents, and a link is to one of them.
LEMMA LinkedContents ==
    ASSUME IdentityInv
    PROVE  /\ \A f \in Files : links[f] # Unlinked => links[f] \in Contents
           /\ Objects = Contents /\ Paths = Files /\ 0 \in 0..(BatchSize - 1)
           /\ 0 \in 0..(ArtifactBatch - 1)
<1>1. ASSUME NEW f \in Files, links[f] # Unlinked PROVE links[f] \in Contents
  <2>1. InodeOf[f] \in Inodes
    BY Digests
  <2>2. PICK v \in 0..version[InodeOf[f]] : links[f] = Content(InodeOf[f], v)
    BY <1>1 DEF IdentityInv, WholeInv, LinksHold, Held
  <2>3. version[InodeOf[f]] \in 0..MaxEdits
    BY <2>1 DEF IdentityInv, IdentityShape, IdentityTypeOK
  <2>4. v \in 0..MaxEdits
    BY <2>3, IdentityAssumption
  <2>5. QED BY <2>1, <2>2, <2>4, Digests
<1>2. QED BY <1>1, StageAssumption, IdentityAssumption, ParserAssumption

LEMMA StageInit == Init => StageInv
<1> SUFFICES ASSUME Init PROVE StageInv
  OBVIOUS
<1>1. /\ \A t \in HashThreads : ~Hashing(t)
      /\ \A s \in Submitters : ~Busy(s)
  BY DEF Init, Hashing, Busy
<1>2. 0 \in 0..(BatchSize - 1) /\ 0 \in 0..(ArtifactBatch - 1) /\ 0 \in 0..MaxEdits /\ 0 \in 0..MaxFaults
      /\ 0 \in 0..MaxStarts /\ 0 \in Nat /\ 0 \in 0..0
  BY IdentityAssumption, ParserAssumption, StageAssumption
<1>3. IdentityShape
  <2>1. /\ version \in [Inodes -> 0..MaxEdits]
        /\ links \in [Files -> Contents \cup {Torn, Unlinked}] /\ committed = links
    BY <1>2 DEF Init
  <2>2. /\ backend \in [HashThreads -> {"rust", "off"}]
        /\ hashing \in [HashThreads -> Hashes \cup {NoHash}]
    BY DEF Init
  <2>3. \A t \in HashThreads : hashing[t] = NoHash
    BY DEF Init
  <2>4. QED BY <1>2, <2>1, <2>2, <2>3 DEF Init, IdentityShape, IdentityTypeOK
<1>4. WholeInv /\ OneHandInv
  BY <1>1 DEF Init, WholeInv, OneHandInv, LinksHold
<1>5. ParserShape
  <2>1. /\ artifacts \in [Objects -> Statuses] /\ durable \in [Objects -> Statuses]
    BY StageAssumption DEF Init, Statuses
  <2>2. sub \in [Submitters -> Tasks \cup {Idle}] /\ \A s \in Submitters : sub[s] = Idle
    BY DEF Init
  <2>3. QED BY <1>1, <1>2, <2>1, <2>2 DEF Init, ParserShape, ParserTypeOK
<1>6. PoisonInv /\ OneTaskInv
  BY <1>1 DEF Init, PoisonInv, OneTaskInv
<1>7. StageShape /\ PhaseInv /\ AccountInv
  BY <1>1, <1>2 DEF Init, StageShape, PhaseInv, AccountInv
<1>8. QED BY <1>3, <1>4, <1>5, <1>6, <1>7 DEF StageInv, IdentityInv, ParserInv

\* A step of the identity phase that leaves the parsers and the phase alone.
LEMMA IdentityStep ==
    ASSUME StageInv, phase = "identity", IdentityInv', Accounted => Accounted',
           \A f \in Files : committed[f] # Unlinked => committed'[f] = committed[f],
           UNCHANGED <<parserVars, stageVars>>, stopping => UNCHANGED <<links, committed>>
    PROVE  StageInv' /\ Stays
<1>1. UNCHANGED <<phase, stopping, starts>> /\ UNCHANGED parserVars
  BY DEF stageVars
<1>2. UNCHANGED <<isolated, pool, started, terminated, poisoned, plan, sub, silent, parsed,
                  artifacts, durable, uncommitted, unparsed>>
  BY <1>1 DEF parserVars
<1>3. ParserInv'
  BY <1>1, ParserSame DEF StageInv
<1>4. StageShape'
  BY <1>1 DEF StageInv, StageShape
<1>5. PhaseInv'
  BY <1>1, <1>2 DEF StageInv, PhaseInv, Busy
<1>6. AccountInv'
  BY <1>1 DEF StageInv, AccountInv
<1>7. QED BY <1>2, <1>3, <1>4, <1>5, <1>6 DEF StageInv, Stays

\* A step of the parse that leaves the links and the phase alone.
LEMMA ParseStep ==
    ASSUME StageInv, phase = "parse", ParserInv', WorkStays, UNCHANGED <<identityVars, stageVars>>
    PROVE  StageInv' /\ Stays
<1>1. UNCHANGED <<phase, stopping, starts>> /\ UNCHANGED identityVars
  BY DEF stageVars
<1>2. UNCHANGED <<version, links, committed, pending, hashing, results, orphans, hashed, unhashed,
                  backend, faults>>
  BY <1>1 DEF identityVars
<1>3. IdentityInv'
  BY <1>1, IdentitySame DEF StageInv
<1>4. StageShape'
  BY <1>1 DEF StageInv, StageShape
<1>5. PhaseInv'
  BY <1>1, <1>2 DEF StageInv, PhaseInv, Hashing
<1>6. Owned => Owned'
  <2>1. \A f \in Files : links[f] # Unlinked => links[f] \in Objects
    BY LinkedContents DEF StageInv
  <2>2. ASSUME Owned, NEW f \in Files, links[f] # Unlinked
        PROVE  Outcome(artifacts, links[f])' \/ InWork(links[f])'
    <3>1. Outcome(artifacts, links[f]) \/ InWork(links[f])
      BY <2>2 DEF Owned
    <3>2. links[f] \in Objects
      BY <2>1, <2>2
    <3>3. PICK c \in Objects : c = links[f]
      BY <3>2
    <3>4. Outcome(artifacts, c)' \/ InWork(c)'
      BY <3>1, <3>3 DEF WorkStays
    <3>5. links'[f] = c
      BY <1>2, <3>3
    <3>6. QED BY <3>4, <3>5 DEF Outcome, InWork
  <2>3. \A f \in Files : links'[f] = links[f]
    BY <1>2
  <2>4. QED BY <2>2, <2>3 DEF Owned
<1>7. AccountInv'
  BY <1>1, <1>2, <1>6 DEF StageInv, AccountInv
<1>8. Stays
  BY <1>2, StageAssumption DEF Stays, WorkStays
<1>9. QED BY <1>3, <1>4, <1>5, <1>7, <1>8 DEF StageInv

LEMMA Starts ==
    ASSUME StageInv, Start
    PROVE  StageInv' /\ Stays
<1>1. /\ ~AtWork /\ starts < MaxStarts /\ starts' = starts + 1
      /\ phase' = "identity" /\ stopping' = FALSE
      /\ Call(Grouped(Candidates(committed)))
      /\ unhashed' = {} /\ unparsed' = {}
      /\ started' = 0 /\ terminated' = {} /\ poisoned' = {}
      /\ UNCHANGED <<version, links, committed, faults, isolated, pool, plan, sub, silent, parsed,
                     artifacts, durable, uncommitted>>
  BY DEF Start
<1>2. /\ links = committed /\ pool = 0 /\ plan = {} /\ parsed = {} /\ silent = {}
      /\ \A s \in Submitters : ~Busy(s)
  BY <1>1 DEF StageInv, PhaseInv, AtWork
<1>3. Candidates(committed) \subseteq Files /\ \A f \in Candidates(committed) : links[f] = Unlinked
  BY <1>2 DEF Candidates
<1>4. /\ Grouped(Candidates(committed)) \subseteq Units
      /\ \A u \in Grouped(Candidates(committed)) : OneInode(u) /\ Cover(u) \subseteq Candidates(committed)
      /\ \A u, w \in Grouped(Candidates(committed)) : u = w \/ Apart(u, w)
      /\ \A f \in Candidates(committed) : \E u \in Grouped(Candidates(committed)) : f \in Cover(u)
  BY <1>3, GroupedUnits
<1>5. IdentityInv' /\ \A u \in Grouped(Candidates(committed)) : \A f \in Cover(u) : InHand(f)'
  BY <1>1, <1>3, <1>4, Called DEF StageInv
<1>6. Accounted'
  <2>1. \A f \in Files : links'[f] = Unlinked => f \in Candidates(committed)
    BY <1>1, <1>2 DEF Candidates
  <2>2. QED BY <1>4, <1>5, <2>1 DEF Accounted
<1>7. ParserInv' /\ \A s \in Submitters : ~Busy(s)'
  <2>1. /\ sub' \in [Submitters -> Tasks \cup {Idle}] /\ \A s \in Submitters : sub'[s] = Idle
        /\ uncommitted' \in 0..(ArtifactBatch - 1)
    BY <1>1, <1>2 DEF StageInv, ParserInv, ParserShape, ParserTypeOK, Busy
  <2>2. started' \in Nat /\ pool' \in 0..started' /\ poisoned' \subseteq 1..started'
        /\ terminated' \subseteq poisoned'
    BY <1>1, <1>2
  <2>3. /\ plan' = {} /\ silent' = {} /\ parsed' = {} /\ unparsed' = {} /\ isolated' = isolated
        /\ artifacts' = artifacts /\ durable' = durable
    BY <1>1, <1>2
  <2>4. \A c \in Objects : durable'[c] = "COMPLETED" => artifacts'[c] = "COMPLETED"
    BY <2>3 DEF StageInv, ParserInv, OneTaskInv
  <2>5. QED BY <2>1, <2>2, <2>3, <2>4, ParserRests DEF StageInv
<1>8. StageShape' /\ PhaseInv' /\ AccountInv'
  <2>1. StageShape'
    <3>1. starts' \in 0..MaxStarts
      BY <1>1, StageAssumption DEF StageInv, StageShape
    <3>2. phase' = "identity" /\ stopping' = FALSE
      BY <1>1
    <3>3. QED BY <3>1, <3>2 DEF StageShape
  <2>2. PhaseInv'
    BY <1>1, <1>2, <1>7 DEF PhaseInv
  <2>3. QED BY <1>1, <1>6, <2>1, <2>2 DEF AccountInv
<1>9. QED BY <1>1, <1>5, <1>7, <1>8 DEF StageInv, Stays

LEMMA BeginsParse ==
    ASSUME StageInv, BeginParse
    PROVE  StageInv' /\ Stays
<1>1. /\ phase = "identity" /\ ~stopping /\ AllHashed /\ orphans = {}
      /\ committed' = links /\ plan' = Owed /\ phase' = "parse"
      /\ hashed' = 0 /\ backend' = [t \in HashThreads |-> "off"]
      /\ UNCHANGED <<version, links, pending, hashing, results, orphans, unhashed,
                     faults, isolated, pool, started, terminated, poisoned, sub,
                     silent, parsed, artifacts, durable, uncommitted, unparsed, stopping, starts>>
  BY DEF BeginParse
<1>2. /\ pending = {} /\ results = {} /\ \A t \in HashThreads : hashing[t] = NoHash
      /\ pool = 0 /\ parsed = {} /\ silent = {} /\ \A s \in Submitters : ~Busy(s)
  BY <1>1 DEF StageInv, PhaseInv, AllHashed
<1>3. /\ \A f \in Files : links[f] # Unlinked => links[f] \in Contents
      /\ Objects = Contents /\ Paths = Files /\ 0 \in 0..(BatchSize - 1)
  BY LinkedContents DEF StageInv
<1>4. IdentityInv'
  <2>1. /\ hashing' \in [HashThreads -> Hashes \cup {NoHash}]
        /\ backend' \in [HashThreads -> {"rust", "off"}] /\ unhashed' \subseteq Files
    BY <1>1 DEF StageInv, IdentityInv, IdentityShape, IdentityTypeOK
  <2>2. QED BY <1>1, <1>2, <1>3, <2>1, IdentityRests DEF StageInv
<1> DEFINE Item(c) == [object |-> c, paths |-> {f \in Files : committed'[f] = c}]
           Due == {d \in Contents : artifacts[d] # "COMPLETED" /\ \E f \in Files : committed'[f] = d}
<1>5. plan' = {Item(c) : c \in Due}
  BY <1>1 DEF Owed
<1>6. \A c \in Due : Item(c) \in Items /\ Item(c).object = c
  BY <1>3 DEF Items
<1>7. \A c \in Due : artifacts[c] # "COMPLETED"
  OBVIOUS
<1>8. \A f \in Files : links[f] # Unlinked => artifacts[links[f]] = "COMPLETED" \/ links[f] \in Due
  BY <1>1, <1>3
<1> HIDE DEF Item, Due
<1>9. ParserInv' /\ \A s \in Submitters : ~Busy(s)'
  <2>1. /\ sub' \in [Submitters -> Tasks \cup {Idle}] /\ \A s \in Submitters : sub'[s] = Idle
        /\ uncommitted' \in 0..(ArtifactBatch - 1) /\ unparsed' \subseteq Objects
    BY <1>1, <1>2 DEF StageInv, ParserInv, ParserShape, ParserTypeOK, Busy
  <2>2. started' \in Nat /\ pool' \in 0..started' /\ poisoned' \subseteq 1..started'
        /\ terminated' \subseteq poisoned'
    BY <1>1 DEF StageInv, ParserInv, ParserShape, ParserTypeOK, PoisonInv
  <2>3. /\ plan' \subseteq Items /\ \A v, w \in plan' : v.object = w.object => v = w
        /\ \A w \in plan' : artifacts'[w.object] # "COMPLETED"
    BY <1>1, <1>5, <1>6, <1>7
  <2>4. /\ silent' = {} /\ parsed' = {} /\ isolated' = isolated
        /\ artifacts' = artifacts /\ durable' = durable
    BY <1>1, <1>2
  <2>5. \A c \in Objects : durable'[c] = "COMPLETED" => artifacts'[c] = "COMPLETED"
    BY <2>4 DEF StageInv, ParserInv, OneTaskInv
  <2>6. QED BY <2>1, <2>2, <2>3, <2>4, <2>5, ParserRests DEF StageInv
<1>10. Owned'
  <2>1. \A c \in Due : InWork(c)'
    BY <1>5, <1>6 DEF InWork
  <2>2. QED BY <1>1, <1>8, <2>1 DEF Owned, Outcome
<1>11. \A f \in Files : links'[f] # Unlinked \/ f \in unhashed'
  <2>1. \A f \in Files : ~InHand(f)
    BY <1>1, <1>2 DEF InHand, Hashing
  <2>2. Accounted
    BY <1>1 DEF StageInv, AccountInv
  <2>3. QED BY <1>1, <2>1, <2>2 DEF Accounted
<1>12. StageShape' /\ PhaseInv'
  BY <1>1, <1>2, <1>9 DEF StageInv, StageShape, PhaseInv, Hashing
<1>13. AccountInv'
  BY <1>1, <1>10, <1>11 DEF AccountInv
<1>14. Stays
  BY <1>1 DEF Stays, StageInv, IdentityInv, OneHandInv
<1>15. QED BY <1>4, <1>9, <1>12, <1>13, <1>14 DEF StageInv

\* The identity phase is over, and stays as it is.
LEMMA IdentityOver ==
    ASSUME StageInv, phase # "identity", UNCHANGED identityVars
    PROVE  /\ IdentityInv' /\ links' = links /\ committed' = committed /\ links = committed
           /\ pending' = {} /\ results' = {} /\ orphans' = {} /\ \A t \in HashThreads : ~Hashing(t)'
           /\ unhashed' = unhashed
<1>1. UNCHANGED <<version, links, committed, pending, hashing, results, orphans, hashed, unhashed,
                  backend, faults>>
  BY DEF identityVars
<1>2. IdentityInv'
  BY IdentitySame DEF StageInv
<1>3. QED BY <1>1, <1>2 DEF StageInv, PhaseInv, Hashing

LEMMA EndsParse ==
    ASSUME StageInv, EndParse
    PROVE  StageInv' /\ Stays
<1>1. /\ phase = "parse" /\ ~stopping /\ AllParsed
      /\ durable' = artifacts /\ uncommitted' = 0 /\ phase' = "closing"
      /\ UNCHANGED <<isolated, pool, started, terminated, poisoned, plan, sub,
                     silent, parsed, artifacts, unparsed, stopping, starts>>
      /\ UNCHANGED identityVars
  BY DEF EndParse
<1>2. /\ plan = {} /\ parsed = {} /\ \A s \in Submitters : sub[s] = Idle
  BY <1>1 DEF AllParsed
<1>3. silent = {} /\ \A s \in Submitters : ~Busy(s)
  BY <1>2 DEF StageInv, ParserInv, PoisonInv, ParserShape, ParserTypeOK, Busy
<1>4. /\ IdentityInv' /\ links' = links /\ committed' = committed /\ links = committed
      /\ pending' = {} /\ results' = {} /\ orphans' = {} /\ \A t \in HashThreads : ~Hashing(t)'
      /\ unhashed' = unhashed
  BY <1>1, IdentityOver
<1>5. ParserInv' /\ \A s \in Submitters : ~Busy(s)'
  <2>1. /\ sub' \in [Submitters -> Tasks \cup {Idle}] /\ \A s \in Submitters : sub'[s] = Idle
        /\ uncommitted' \in 0..(ArtifactBatch - 1) /\ unparsed' \subseteq Objects
    BY <1>1, <1>2, ParserAssumption DEF StageInv, ParserInv, ParserShape, ParserTypeOK
  <2>2. started' \in Nat /\ pool' \in 0..started' /\ poisoned' \subseteq 1..started'
        /\ terminated' \subseteq poisoned'
    BY <1>1 DEF StageInv, ParserInv, ParserShape, ParserTypeOK, PoisonInv
  <2>3. /\ plan' = {} /\ silent' = {} /\ parsed' = {} /\ isolated' = isolated
        /\ artifacts' = artifacts /\ durable' = artifacts
    BY <1>1, <1>2, <1>3
  <2>4. QED BY <2>1, <2>2, <2>3, ParserRests DEF StageInv
<1>6. Settled'
  <2>1. Owned /\ \A f \in Files : links[f] # Unlinked \/ f \in unhashed
    BY <1>1 DEF StageInv, AccountInv
  <2>2. \A c : ~InWork(c)
    BY <1>2, <1>3 DEF InWork
  <2>3. \A f \in Files : links[f] # Unlinked => Outcome(artifacts, links[f])
    BY <2>1, <2>2 DEF Owned
  <2>4. QED BY <1>1, <1>4, <2>1, <2>3 DEF Settled, Outcome
<1>7. StageShape' /\ PhaseInv' /\ AccountInv'
  BY <1>1, <1>2, <1>3, <1>4, <1>5, <1>6 DEF StageInv, StageShape, PhaseInv, AccountInv
<1>8. Stays
  BY <1>1, <1>4, StageAssumption DEF Stays, StageInv, ParserInv, OneTaskInv
<1>9. QED BY <1>4, <1>5, <1>7, <1>8 DEF StageInv

LEMMA Closes ==
    ASSUME StageInv, Close
    PROVE  StageInv' /\ Stays
<1>1. /\ phase = "closing"
      /\ pool' = 0 /\ phase' = IF stopping THEN "stopped" ELSE "ended"
      /\ UNCHANGED <<isolated, started, terminated, poisoned, plan, sub, silent,
                     parsed, artifacts, durable, uncommitted, unparsed, stopping, starts>>
      /\ UNCHANGED identityVars
  BY DEF Close
<1>2. plan = {} /\ parsed = {} /\ silent = {} /\ \A s \in Submitters : sub[s] = Idle
  BY <1>1 DEF StageInv, PhaseInv, Busy
<1>3. /\ IdentityInv' /\ links' = links /\ committed' = committed /\ links = committed
      /\ pending' = {} /\ results' = {} /\ orphans' = {} /\ \A t \in HashThreads : ~Hashing(t)'
      /\ unhashed' = unhashed
  BY <1>1, IdentityOver
<1>4. ParserInv' /\ \A s \in Submitters : ~Busy(s)'
  <2>1. /\ sub' \in [Submitters -> Tasks \cup {Idle}] /\ \A s \in Submitters : sub'[s] = Idle
        /\ uncommitted' \in 0..(ArtifactBatch - 1) /\ unparsed' \subseteq Objects
    BY <1>1, <1>2 DEF StageInv, ParserInv, ParserShape, ParserTypeOK
  <2>2. started' \in Nat /\ pool' \in 0..started' /\ poisoned' \subseteq 1..started'
        /\ terminated' \subseteq poisoned'
    BY <1>1 DEF StageInv, ParserInv, ParserShape, ParserTypeOK, PoisonInv
  <2>3. /\ plan' = {} /\ silent' = {} /\ parsed' = {} /\ isolated' = isolated
        /\ artifacts' = artifacts /\ durable' = durable
    BY <1>1, <1>2
  <2>4. \A c \in Objects : durable'[c] = "COMPLETED" => artifacts'[c] = "COMPLETED"
    BY <2>3 DEF StageInv, ParserInv, OneTaskInv
  <2>5. QED BY <2>1, <2>2, <2>3, <2>4, ParserRests DEF StageInv
<1>5. StageShape' /\ PhaseInv'
  BY <1>1, <1>2, <1>3, <1>4 DEF StageInv, StageShape, PhaseInv
<1>6. AccountInv'
  <2>1. Settled => Settled'
    BY <1>1, <1>3 DEF Settled, Outcome
  <2>2. QED BY <1>1, <2>1 DEF StageInv, AccountInv
<1>7. QED BY <1>1, <1>3, <1>4, <1>5, <1>6 DEF StageInv, Stays

LEMMA Stops ==
    ASSUME StageInv, Stop
    PROVE  StageInv' /\ Stays
<1>1. /\ phase \in {"identity", "parse"} /\ stopping' = TRUE
      /\ committed' = links /\ durable' = artifacts /\ hashed' = 0 /\ uncommitted' = 0
      /\ UNCHANGED <<version, links, pending, hashing, results, orphans, unhashed, backend, faults,
                     isolated, pool, started, terminated, poisoned, plan, sub, silent, parsed,
                     artifacts, unparsed, phase, starts>>
  BY DEF Stop
<1>2. \A t \in HashThreads : Hashing(t)' <=> Hashing(t)
  BY <1>1 DEF Hashing
<1>3. \A s \in Submitters : (Busy(s)' <=> Busy(s)) /\ ObjectOf(s)' = ObjectOf(s)
  BY <1>1 DEF Busy, ObjectOf
<1>4. IdentityInv'
  <2>1. IdentityShape'
    BY <1>1, ShapeNext, IdentityAssumption DEF StageInv, IdentityInv, IdentityShape, IdentityTypeOK
  <2>2. WholeInv'
    BY <1>1, <1>2 DEF StageInv, IdentityInv, WholeInv, LinksHold, Held, OneInode
  <2>3. OneHandInv'
    BY <1>1, <1>2 DEF StageInv, IdentityInv, OneHandInv, Free
  <2>4. QED BY <2>1, <2>2, <2>3 DEF IdentityInv
<1>5. ParserInv'
  <2>1. ParserShape'
    <3>1. /\ terminated' \subseteq poisoned' /\ uncommitted' \in 0..(ArtifactBatch - 1)
          /\ durable' \in [Objects -> Statuses]
      BY <1>1, ParserAssumption DEF StageInv, ParserInv, PoisonInv, ParserShape, ParserTypeOK
    <3>2. QED BY <1>1, <1>3, <3>1, ParserShapeNext DEF StageInv, ParserInv, ParserShape, ParserTypeOK
  <2>2. PoisonInv' /\ OneTaskInv'
    BY <1>1, <1>3, PoisonSame DEF StageInv, ParserInv, OneTaskInv
  <2>3. QED BY <2>1, <2>2 DEF ParserInv
<1>6. StageShape' /\ PhaseInv' /\ AccountInv'
  BY <1>1, <1>2, <1>3 DEF StageInv, StageShape, PhaseInv, AccountInv
<1>7. Stays
  BY <1>1, StageAssumption DEF Stays, StageInv, IdentityInv, OneHandInv, ParserInv, OneTaskInv
<1>8. QED BY <1>4, <1>5, <1>6, <1>7 DEF StageInv

LEMMA Drops ==
    ASSUME StageInv, Drop
    PROVE  StageInv' /\ Stays
<1>1. /\ stopping
      /\ \/ /\ phase = "identity" /\ pending = {} /\ \A t \in HashThreads : hashing[t] = NoHash
            /\ phase' = "stopped"
         \/ /\ phase = "parse" /\ plan = {} /\ \A s \in Submitters : sub[s] = Idle
            /\ phase' = "closing"
      /\ results' = {} /\ parsed' = {} /\ orphans' = {}
      /\ UNCHANGED <<version, links, committed, pending, hashing, hashed, unhashed, backend, faults,
                     isolated, pool, started, terminated, poisoned, plan, sub, silent, artifacts,
                     durable, uncommitted, unparsed, stopping, starts>>
  BY DEF Drop
<1>2. /\ pending = {} /\ \A t \in HashThreads : hashing[t] = NoHash
      /\ plan = {} /\ \A s \in Submitters : sub[s] = Idle
      /\ links = committed
  BY <1>1 DEF StageInv, PhaseInv, Hashing, Busy
<1>3. silent = {}
  BY <1>2 DEF StageInv, ParserInv, PoisonInv, ParserShape, ParserTypeOK, Busy
<1>4. IdentityInv' /\ \A t \in HashThreads : ~Hashing(t)'
  <2>1. /\ hashing' \in [HashThreads -> Hashes \cup {NoHash}] /\ unhashed' \subseteq Files
        /\ hashed' \in 0..(BatchSize - 1) /\ backend' \in [HashThreads -> {"rust", "off"}]
    BY <1>1 DEF StageInv, IdentityInv, IdentityShape, IdentityTypeOK
  <2>2. QED BY <1>1, <1>2, <2>1, IdentityRests DEF StageInv, Hashing
<1>5. ParserInv' /\ \A s \in Submitters : ~Busy(s)'
  <2>1. /\ sub' \in [Submitters -> Tasks \cup {Idle}] /\ \A s \in Submitters : sub'[s] = Idle
        /\ uncommitted' \in 0..(ArtifactBatch - 1) /\ unparsed' \subseteq Objects
    BY <1>1, <1>2 DEF StageInv, ParserInv, ParserShape, ParserTypeOK
  <2>2. started' \in Nat /\ pool' \in 0..started' /\ poisoned' \subseteq 1..started'
        /\ terminated' \subseteq poisoned'
    BY <1>1 DEF StageInv, ParserInv, ParserShape, ParserTypeOK, PoisonInv
  <2>3. /\ plan' = {} /\ silent' = {} /\ parsed' = {} /\ isolated' = isolated
        /\ artifacts' = artifacts /\ durable' = durable
    BY <1>1, <1>2, <1>3
  <2>4. \A c \in Objects : durable'[c] = "COMPLETED" => artifacts'[c] = "COMPLETED"
    BY <2>3 DEF StageInv, ParserInv, OneTaskInv
  <2>5. QED BY <2>1, <2>2, <2>3, <2>4, ParserRests DEF StageInv
<1>6. StageShape' /\ AccountInv'
  BY <1>1 DEF StageInv, StageShape, AccountInv
<1>7. PhaseInv'
  BY <1>1, <1>2, <1>3, <1>4, <1>5 DEF StageInv, PhaseInv
<1>8. QED BY <1>1, <1>4, <1>5, <1>6, <1>7 DEF StageInv, Stays

LEMMA Dies ==
    ASSUME StageInv, Die
    PROVE  StageInv' /\ Stays
<1>1. /\ phase' = "down"
      /\ links' = committed /\ artifacts' = durable /\ uncommitted' = 0
      /\ pending' = {} /\ hashing' = [t \in HashThreads |-> NoHash] /\ results' = {}
      /\ orphans' = {} /\ hashed' = 0 /\ backend' = [t \in HashThreads |-> "off"]
      /\ plan' = {} /\ sub' = [s \in Submitters |-> Idle] /\ silent' = {}
      /\ parsed' = {} /\ pool' = 0 /\ stopping' = FALSE
      /\ UNCHANGED <<version, committed, unhashed, faults, isolated, started, terminated,
                     poisoned, durable, unparsed, starts>>
  BY DEF Die
<1>2. IdentityInv' /\ \A t \in HashThreads : ~Hashing(t)'
  <2>1. /\ hashing' \in [HashThreads -> Hashes \cup {NoHash}] /\ unhashed' \subseteq Files
        /\ hashed' \in 0..(BatchSize - 1) /\ backend' \in [HashThreads -> {"rust", "off"}]
        /\ \A t \in HashThreads : hashing'[t] = NoHash
    BY <1>1, IdentityAssumption DEF StageInv, IdentityInv, IdentityShape, IdentityTypeOK
  <2>2. QED BY <1>1, <2>1, IdentityRests DEF StageInv, Hashing
<1>3. ParserInv' /\ \A s \in Submitters : ~Busy(s)'
  <2>1. /\ sub' \in [Submitters -> Tasks \cup {Idle}] /\ \A s \in Submitters : sub'[s] = Idle
        /\ uncommitted' \in 0..(ArtifactBatch - 1) /\ unparsed' \subseteq Objects
    BY <1>1, ParserAssumption DEF StageInv, ParserInv, ParserShape, ParserTypeOK
  <2>2. started' \in Nat /\ pool' \in 0..started' /\ poisoned' \subseteq 1..started'
        /\ terminated' \subseteq poisoned'
    BY <1>1 DEF StageInv, ParserInv, ParserShape, ParserTypeOK, PoisonInv
  <2>3. QED BY <1>1, <2>1, <2>2, ParserRests DEF StageInv
<1>4. StageShape' /\ PhaseInv' /\ AccountInv'
  BY <1>1, <1>2, <1>3 DEF StageInv, StageShape, PhaseInv, AccountInv
<1>5. QED BY <1>1, <1>2, <1>3, <1>4 DEF StageInv, Stays

LEMMA Hashed ==
    ASSUME StageInv, NEW t \in HashThreads, Hash(t)
    PROVE  StageInv' /\ Stays
<1>1. /\ phase = "identity" /\ UNCHANGED <<parserVars, stageVars>>
      /\ StartHash(t) \/ BackendFails(t) \/ FinishHash(t) \/ ReadFails(t)
  BY DEF Hash
<1>2. IdentityInv' /\ (Accounted => Accounted')
  BY <1>1, StartsHash, BackendGivesUp, FinishesHash, FailsToRead DEF StageInv
<1>3. UNCHANGED <<links, committed>>
  BY <1>1 DEF StartHash, BackendFails, FinishHash, ReadFails, Yield
<1>4. QED BY <1>1, <1>2, <1>3, IdentityStep

LEMMA Links ==
    ASSUME StageInv, Link
    PROVE  StageInv' /\ Stays
<1>1. /\ phase = "identity" /\ ~stopping /\ UNCHANGED <<parserVars, stageVars>>
      /\ TakeResult \/ HashOrphans
  BY DEF Link
<1>2. IdentityInv' /\ (Accounted => Accounted') /\ CommitStays
  BY <1>1, TakesResult, HashesOrphans DEF StageInv
<1>3. QED BY <1>1, <1>2, IdentityStep DEF CommitStays

LEMMA IsRewritten ==
    ASSUME StageInv, NEW i \in Inodes, Rewrite(i)
    PROVE  StageInv' /\ Stays
<1>1. phase = "identity" /\ Edit(i) /\ UNCHANGED <<parserVars, stageVars>>
  BY DEF Rewrite
<1>2. IdentityInv' /\ (Accounted => Accounted')
  BY <1>1, Rewritten DEF StageInv
<1>3. UNCHANGED <<links, committed>>
  BY <1>1 DEF Edit
<1>4. QED BY <1>1, <1>2, <1>3, IdentityStep

LEMMA Parses ==
    ASSUME StageInv, Write \/ \E s \in Submitters : Parse(s) \/ Silence(s)
    PROVE  StageInv' /\ Stays
<1>1. /\ phase = "parse" /\ UNCHANGED <<identityVars, stageVars>>
      /\ WriteArtifact \/ \E s \in Submitters : Run(s) \/ FallSilent(s)
  BY DEF Write, Parse, Silence
<1>2. ParserInv' /\ WorkStays
  BY <1>1, Writes, Runs DEF StageInv
<1>3. QED BY <1>1, <1>2, ParseStep

LEMMA Rests ==
    ASSUME StageInv, UNCHANGED vars
    PROVE  StageInv' /\ Stays
<1>1. UNCHANGED identityVars /\ UNCHANGED parserVars /\ UNCHANGED stageVars
  BY DEF vars
<1>2. /\ UNCHANGED <<version, links, committed, pending, hashing, results, orphans, hashed,
                     unhashed, backend, faults>>
      /\ UNCHANGED <<isolated, pool, started, terminated, poisoned, plan, sub, silent, parsed,
                     artifacts, durable, uncommitted, unparsed>>
      /\ UNCHANGED <<phase, stopping, starts>>
  BY <1>1 DEF identityVars, parserVars, stageVars
<1>3. IdentityInv' /\ ParserInv' /\ (Accounted => Accounted')
  BY <1>1, IdentitySame, ParserSame DEF StageInv
<1>4. StageShape' /\ PhaseInv'
  BY <1>2 DEF StageInv, StageShape, PhaseInv, Hashing, Busy
<1>5. AccountInv'
  <2>1. (Owned => Owned') /\ (Settled => Settled')
    BY <1>2 DEF Owned, Settled, Outcome, InWork, Busy, ObjectOf
  <2>2. QED BY <1>2, <1>3, <2>1 DEF StageInv, AccountInv
<1>6. QED BY <1>2, <1>3, <1>4, <1>5 DEF StageInv, Stays

LEMMA StageNext ==
    ASSUME StageInv, [Next]_vars
    PROVE  StageInv' /\ Stays
BY Starts, BeginsParse, EndsParse, Closes, Stops, Drops, Dies, Hashed, Links, IsRewritten, Parses,
   Rests DEF Next

---------------------------------------------------------------------------
(* The theorems.                                                            *)

\* The inductive invariant: where every file and every content is, in which phase, and
\* whose hand it is in.
THEOREM StageCorrect == Spec => []StageInv
<1>1. Init => StageInv
  BY StageInit
<1>2. StageInv /\ [Next]_vars => StageInv'
  BY StageNext
<1>3. QED BY <1>1, <1>2, PTL DEF Spec

\* Type correctness of the stage, its hashing threads and its parser pool.
THEOREM TypeCorrect == Spec => []TypeOK
<1>1. StageInv => TypeOK
  BY DEF StageInv, IdentityInv, IdentityShape, ParserInv, ParserShape, StageShape, TypeOK
<1>2. QED BY <1>1, StageCorrect, PTL

\* The links that compute_identity and its caller write are digests of contents the
\* file's inode had in whole, for any files, threads, batches, rewrites and failing
\* backends.
THEOREM LinksAreWhole == Spec => []LinksAreOfWholeReads
<1>1. StageInv => LinksAreOfWholeReads
  BY DEF StageInv, IdentityInv, WholeInv, LinksHold, Held, LinksAreOfWholeReads
<1>2. QED BY <1>1, StageCorrect, PTL

\* ParserPool._restart kills no pool on which every parser still answers, for any
\* number of submitters and of time-outs.
THEOREM LivePoolsAreSpared == Spec => []OnlyPoisonedPoolsDie
<1>1. StageInv => OnlyPoisonedPoolsDie
  BY DEF StageInv, ParserInv, PoisonInv, OnlyPoisonedPoolsDie
<1>2. QED BY <1>1, StageCorrect, PTL

\* _run_content_analysis ends with every file linked or counted, and every linked
\* content analysed or counted, all of it committed.
THEOREM EverythingIsAccountedFor == Spec => []NothingDroppedSilently
<1>1. StageInv => NothingDroppedSilently
  BY DEF StageInv, AccountInv, Settled, Outcome, NothingDroppedSilently
<1>2. QED BY <1>1, StageCorrect, PTL

\* No step, a crash or a second run of the stage included, takes back a committed link
\* or a committed COMPLETED artifact.
THEOREM CommittedResultsStay == Spec => ResultsStay
<1>1. StageInv /\ [Next]_vars =>
        [/\ \A f \in Files : committed[f] # Unlinked => committed'[f] = committed[f]
         /\ \A c \in Contents : durable[c] = "COMPLETED" => durable'[c] = "COMPLETED"]_vars
  BY StageNext DEF Stays
<1>2. QED BY <1>1, StageCorrect, PTL DEF Spec, ResultsStay
=============================================================================
