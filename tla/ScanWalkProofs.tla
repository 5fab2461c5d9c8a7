-------------------------- MODULE ScanWalkProofs --------------------------
(* Theorems about ScanWalk for every tree, batch size, frontier bound, breaker
   limit and sequence of worker counts.                                     *)
EXTENDS ScanWalk, FiniteSetTheorems, TLAPS

---------------------------------------------------------------------------
(* Covered.                                                                 *)

LEMMA CoveredMonotone ==
    ASSUME NEW R1, NEW R2, NEW F1, NEW F2, R1 \subseteq R2, F1 \subseteq F2,
           Covered(R1, F1)
    PROVE  Covered(R2, F2)
BY DEF Covered

LEMMA CoveredByTop ==
    ASSUME NEW R, NEW F, Top \in F
    PROVE  Covered(R, F)
BY TreeAssumption DEF Covered

\* A directory whose entries are all recorded gives way to its subdirectories.
LEMMA CoveredDescend ==
    ASSUME NEW R, NEW F, NEW G, NEW d \in Dirs,
           Covered(R, F \cup {d}),
           Children[d] \subseteq R, Children[d] \cap Dirs \subseteq G, F \subseteq G
    PROVE  Covered(R, G)
<1> SUFFICES ASSUME NEW n \in Nodes \ {Top}, n \notin R
             PROVE  Above[n] \cap G # {}
  BY DEF Covered
<1>1. Above[n] \cap (F \cup {d}) # {}
  BY DEF Covered
<1>2. CASE Above[n] \cap F # {}
  BY <1>2
<1>3. CASE d \in Above[n]
  <2>1. n \notin Children[d]
    OBVIOUS
  <2>2. PICK c \in Children[d] \cap Dirs : c \in Above[n]
    BY <1>3, <2>1, TreeAssumption
  <2>3. QED BY <2>2
<1>4. QED BY <1>1, <1>2, <1>3

\* A directory stands for its subdirectories.
LEMMA CoveredAscend ==
    ASSUME NEW R, NEW F, NEW G, NEW d \in Dirs,
           Covered(R, F), F \subseteq G \cup Children[d], d \in G
    PROVE  Covered(R, G)
<1> SUFFICES ASSUME NEW n \in Nodes \ {Top}, n \notin R
             PROVE  Above[n] \cap G # {}
  BY DEF Covered
<1>1. PICK x \in F : x \in Above[n]
  BY DEF Covered
<1>2. CASE x \in G
  BY <1>1, <1>2
<1>3. CASE x \in Children[d]
  BY <1>1, <1>3, TreeAssumption
<1>4. QED BY <1>1, <1>2, <1>3

---------------------------------------------------------------------------
(* The inductive invariant.  Besides the durable frontier, what the process
   holds in memory covers the tree too: rows and batch together with the
   directories still to walk (ToWalk).  A flush turns the second into the
   first; the end of the walk, when nothing is left to walk, turns it into the
   claim about COMPLETE runs.                                               *)

ToWalk == pending \cup inflight \cup kids \cup ({current} \cap Dirs)

AtRest ==
    /\ pending = {} /\ inflight = {} /\ kids = {} /\ unflushed = {}
    /\ batch = {} /\ current = NoDir

WalkCovers == pc \in {"walk", "stage"} => Covered(rows \cup batch, ToWalk \cup PassedOver)

\* While a directory is staged, its entries seen so far are recorded and its
\* subdirectories queued; the directories queued since it was taken are its own.
StageInv ==
    pc = "stage" =>
        /\ current \in Dirs /\ todo \subseteq Children[current]
        /\ Children[current] \ todo \subseteq rows \cup batch
        /\ (Children[current] \ todo) \cap Dirs \subseteq pending \cup kids \cup PassedOver
        /\ kids \subseteq Children[current]
        /\ Serial => current \in captured /\ pending \subseteq captured \cup Children[current]

\* Where each part of the walk's memory is in use.
Shape ==
    /\ pc = "down" => AtRest
    /\ pc = "walk" => kids = {} /\ current = NoDir
    /\ Serial => inflight = {} /\ kids = {}
    /\ run = "COMPLETE" => pc = "down"

WalkedCovers == pc = "epilogue" \/ run = "COMPLETE" => Covered(rows, PassedOver)

IInv == TypeOK /\ Shape /\ StageInv /\ WalkCovers /\ FrontierCovers /\ WalkedCovers

---------------------------------------------------------------------------
LEMMA InitInv == Init => IInv
<1> SUFFICES ASSUME Init PROVE IInv
  OBVIOUS
<1>1. TypeOK
  BY BoundsAssumption DEF Init, TypeOK, Null
<1>2. FrontierCovers
  BY CoveredByTop DEF Init, FrontierCovers, ResumeStack
<1>3. QED BY <1>1, <1>2 DEF Init, IInv, Shape, WalkCovers, StageInv, WalkedCovers, AtRest

LEMMA TypeStep == TypeOK /\ StageInv /\ [Next]_vars => TypeOK'
<1> SUFFICES ASSUME TypeOK, StageInv, [Next]_vars PROVE TypeOK'
  OBVIOUS
<1> USE TreeAssumption, BoundsAssumption
    DEF TypeOK, durable, walkVars, lost, Forget, Null, Trouble
<1>0. pc = "stage" => current \in Dirs
  BY DEF StageInv
<1>1. CASE StartScan
  BY <1>1 DEF StartScan, ResumeStack
<1>2. ASSUME NEW d \in Dirs, Submit(d) \/ TakeDirectory(d) PROVE TypeOK'
  BY <1>2 DEF Submit, TakeDirectory
<1>3. ASSUME NEW d \in Dirs, DirectoryFails(d) PROVE TypeOK'
  BY <1>3 DEF DirectoryFails, Park
<1>4. ASSUME NEW n \in Nodes, StageEntry(n) PROVE TypeOK'
  <2>1. Frontier(current) \subseteq Dirs
    BY <1>0, <1>4 DEF StageEntry, Frontier
  <2>2. rows' \subseteq Nodes /\ batch' \subseteq Nodes /\ saved' \subseteq Dirs
        /\ unflushed' \subseteq Dirs
    BY <1>4, <2>1 DEF StageEntry, StageRow, Flush
  <2>3. QED BY <1>4, <2>2 DEF StageEntry
<1>5. ASSUME NEW n \in Nodes, EntryFails(n) PROVE TypeOK'
  <2>1. Frontier(current) \subseteq Dirs
    BY <1>0, <1>5 DEF EntryFails, Frontier
  <2>2. CASE Park({n}, Frontier(current), {n} \cap Dirs)
    BY <1>5, <2>1, <2>2 DEF EntryFails, Park
  <2>3. CASE ~Park({n}, Frontier(current), {n} \cap Dirs)
    <3>1. rows' \subseteq Nodes /\ batch' \subseteq Nodes /\ saved' \subseteq Dirs
          /\ unflushed' \subseteq Dirs
      BY <1>5, <2>1, <2>3 DEF EntryFails, StageRow, Flush
    <3>2. QED BY <1>5, <2>3, <3>1 DEF EntryFails
  <2>4. QED BY <2>2, <2>3
<1>6. CASE EndDirectory
  BY <1>0, <1>6 DEF EndDirectory
<1>7. CASE EndWalk \/ Complete \/ Interrupt \/ Crash
  BY <1>7 DEF EndWalk, Flush, Complete, Interrupt, Crash
<1>8. CASE UNCHANGED vars
  BY <1>8 DEF vars
<1>9. QED BY <1>1, <1>2, <1>3, <1>4, <1>5, <1>6, <1>7, <1>8 DEF Next, Walk

LEMMA ShapeStep == TypeOK /\ Shape /\ [Next]_vars => Shape'
<1> SUFFICES ASSUME TypeOK, Shape, [Next]_vars PROVE Shape'
  OBVIOUS
<1> USE DEF Shape, AtRest, Serial, Forget, durable, walkVars, lost
<1>1. CASE StartScan
  BY <1>1 DEF StartScan
<1>2. ASSUME NEW d \in Dirs, Submit(d) \/ TakeDirectory(d) PROVE Shape'
  BY <1>2 DEF Submit, TakeDirectory
<1>3. ASSUME NEW d \in Dirs, DirectoryFails(d) PROVE Shape'
  BY <1>3 DEF DirectoryFails, Park
<1>4. ASSUME NEW n \in Nodes, StageEntry(n) PROVE Shape'
  BY <1>4 DEF StageEntry
<1>5. ASSUME NEW n \in Nodes, EntryFails(n) PROVE Shape'
  BY <1>5 DEF EntryFails, Park
<1>6. CASE EndDirectory \/ EndWalk \/ Complete \/ Interrupt \/ Crash
  BY <1>6 DEF EndDirectory, EndWalk, Flush, Complete, Interrupt, Crash
<1>7. CASE UNCHANGED vars
  BY <1>7 DEF vars
<1>8. QED BY <1>1, <1>2, <1>3, <1>4, <1>5, <1>6, <1>7 DEF Next, Walk

---------------------------------------------------------------------------
(* What the steps do to the sets the invariants are about.                  *)

\* Staging an entry, whether its batch is flushed or not.
LEMMA StageRowEffect ==
    ASSUME TypeOK, NEW n, StageRow(n)
    PROVE  /\ rows' \cup batch' = rows \cup batch \cup {n}
           /\ rows \subseteq rows'
           /\ \/ UNCHANGED <<rows, saved>>
              \/ /\ rows' = rows \cup batch \cup {n}
                 /\ saved' = IF Cardinality(Frontier(current)) <= FrontierMax
                             THEN Frontier(current) ELSE Null
BY DEF StageRow, Flush

\* A frontier that covers the tree still does once it is stored and read back.
LEMMA StoredFrontier ==
    ASSUME NEW R, NEW F, NEW P, NEW S, Covered(R, F \cup P),
           S = IF Cardinality(F) <= FrontierMax THEN F ELSE Null
    PROVE  Covered(R, (IF S = Null THEN {Top} ELSE S) \cup P)
<1>1. CASE S = Null
  BY <1>1, CoveredByTop
<1>2. CASE S # Null
  BY <1>2
<1>3. QED BY <1>1, <1>2

\* The frontier of a flush covers what the walk in progress covers.
LEMMA FlushFrontier ==
    ASSUME TypeOK, Shape, StageInv, pc = "stage", NEW R, NEW P,
           Covered(R, ToWalk \cup P)
    PROVE  Covered(R, Frontier(current) \cup P)
<1>1. current \in Dirs /\ kids \subseteq Children[current]
  BY DEF StageInv
<1>2. current \in Frontier(current)
  BY DEF Frontier, StageInv
<1>3. ToWalk \cup P \subseteq (Frontier(current) \cup P) \cup Children[current]
  <2>1. CASE Serial
    BY <2>1, <1>1 DEF Frontier, StageInv, ToWalk, Shape
  <2>2. CASE ~Serial
    BY <2>2, <1>1 DEF Frontier, ToWalk
  <2>3. QED BY <2>1, <2>2
<1>4. QED BY <1>1, <1>2, <1>3, CoveredAscend

\* The breaker parks the scan on a frontier that covers the tree.
LEMMA ParkEffect ==
    ASSUME TypeOK, NEW M, NEW F, NEW P, Park(M, F, P),
           Covered(rows \cup batch \cup M, F \cup PassedOver \cup P)
    PROVE  FrontierCovers'
<1>1. PassedOver' = PassedOver \cup P
  BY DEF Park, PassedOver
<1>2. Covered(rows', F \cup PassedOver')
  BY <1>1, CoveredMonotone DEF Park
<1>3. saved' = IF Cardinality(F) <= FrontierMax THEN F ELSE Null
  BY DEF Park
<1>4. Covered(rows', (IF saved' = Null THEN {Top} ELSE saved') \cup PassedOver')
  BY <1>2, <1>3, StoredFrontier
<1>5. QED BY <1>4 DEF FrontierCovers, ResumeStack

\* No step drops a recorded entry or a directory that was passed over.
LEMMA OnlyGrows ==
    ASSUME TypeOK, [Next]_vars
    PROVE  rows \subseteq rows' /\ PassedOver \subseteq PassedOver'
<1> USE DEF PassedOver, durable, walkVars, lost
<1>1. ASSUME NEW d \in Dirs, Submit(d) \/ TakeDirectory(d) \/ DirectoryFails(d)
      PROVE  rows \subseteq rows' /\ PassedOver \subseteq PassedOver'
  BY <1>1 DEF Submit, TakeDirectory, DirectoryFails, Park
<1>2. ASSUME NEW n \in Nodes, StageEntry(n)
      PROVE  rows \subseteq rows' /\ PassedOver \subseteq PassedOver'
  BY <1>2, StageRowEffect DEF StageEntry
<1>3. ASSUME NEW n \in Nodes, EntryFails(n)
      PROVE  rows \subseteq rows' /\ PassedOver \subseteq PassedOver'
  BY <1>3, StageRowEffect DEF EntryFails, Park
<1>4. CASE StartScan \/ EndDirectory \/ EndWalk \/ Complete \/ Interrupt \/ Crash
  BY <1>4 DEF StartScan, EndDirectory, EndWalk, Flush, Complete, Interrupt, Crash
<1>5. CASE UNCHANGED vars
  BY <1>5 DEF vars
<1>6. QED BY <1>1, <1>2, <1>3, <1>4, <1>5 DEF Next, Walk

---------------------------------------------------------------------------
(* Each step preserves each part.                                           *)

LEMMA StageStep == IInv /\ [Next]_vars => StageInv'
<1> SUFFICES ASSUME TypeOK, Shape, StageInv, [Next]_vars PROVE StageInv'
  BY DEF IInv
<1> USE DEF durable, walkVars, lost
<1>1. CASE StartScan \/ EndDirectory \/ EndWalk \/ Complete \/ Interrupt \/ Crash
  BY <1>1 DEF StartScan, EndDirectory, EndWalk, Complete, Interrupt, Crash, StageInv
<1>2. ASSUME NEW d \in Dirs, Submit(d) PROVE StageInv'
  BY <1>2 DEF Submit, StageInv
<1>3. ASSUME NEW d \in Dirs, TakeDirectory(d) PROVE StageInv'
  BY <1>3 DEF TakeDirectory, Ready, Serial, StageInv
<1>4. ASSUME NEW d \in Dirs, DirectoryFails(d) PROVE StageInv'
  BY <1>4 DEF DirectoryFails, Park, StageInv
<1>5. ASSUME NEW n \in Nodes, StageEntry(n) PROVE StageInv'
  <2>1. rows' \cup batch' = rows \cup batch \cup {n}
    BY <1>5, StageRowEffect DEF StageEntry
  <2>2. PassedOver \subseteq PassedOver'
    BY <1>5 DEF StageEntry, PassedOver
  <2>3. QED BY <1>5, <2>1, <2>2 DEF StageEntry, Serial, StageInv
<1>6. ASSUME NEW n \in Nodes, EntryFails(n) PROVE StageInv'
  <2>1. CASE Park({n}, Frontier(current), {n} \cap Dirs)
    BY <2>1 DEF Park, StageInv
  <2>2. CASE ~Park({n}, Frontier(current), {n} \cap Dirs)
    <3>1. rows' \cup batch' = rows \cup batch \cup {n}
      BY <1>6, <2>2, StageRowEffect DEF EntryFails
    <3>2. PassedOver' = PassedOver \cup ({n} \cap Dirs)
      BY <1>6, <2>2 DEF EntryFails, PassedOver
    <3>3. QED BY <1>6, <2>2, <3>1, <3>2 DEF EntryFails, Serial, StageInv
  <2>3. QED BY <2>1, <2>2
<1>7. CASE UNCHANGED vars
  BY <1>7 DEF vars, StageInv, Serial, PassedOver
<1>8. QED BY <1>1, <1>2, <1>3, <1>4, <1>5, <1>6, <1>7 DEF Next, Walk

LEMMA WalkStep == IInv /\ [Next]_vars => WalkCovers'
<1> SUFFICES ASSUME TypeOK, Shape, StageInv, WalkCovers, FrontierCovers, [Next]_vars,
                    pc' \in {"walk", "stage"}
             PROVE  Covered(rows' \cup batch', ToWalk' \cup PassedOver')
  BY DEF IInv, WalkCovers
<1> USE DEF durable, walkVars, lost
<1>1. CASE StartScan
  <2>1. ToWalk' = ResumeStack /\ PassedOver' = PassedOver /\ rows' = rows
    BY <1>1, TreeAssumption DEF StartScan, Shape, AtRest, ToWalk, PassedOver, TypeOK
  <2>2. QED BY <2>1, CoveredMonotone DEF FrontierCovers
<1>2. ASSUME NEW d \in Dirs, Submit(d) \/ TakeDirectory(d)
      PROVE  Covered(rows' \cup batch', ToWalk' \cup PassedOver')
  <2>1. ToWalk \subseteq ToWalk'
    BY <1>2, TreeAssumption DEF Submit, TakeDirectory, Shape, ToWalk
  <2>2. UNCHANGED <<rows, batch, PassedOver>> /\ pc = "walk"
    BY <1>2 DEF Submit, TakeDirectory, PassedOver
  <2>3. QED BY <2>1, <2>2, CoveredMonotone DEF WalkCovers
<1>3. ASSUME NEW d \in Dirs, DirectoryFails(d)
      PROVE  Covered(rows' \cup batch', ToWalk' \cup PassedOver')
  <2>1. ToWalk \cup PassedOver \subseteq ToWalk' \cup PassedOver'
    BY <1>3 DEF DirectoryFails, Park, ToWalk, PassedOver
  <2>2. UNCHANGED <<rows, batch>> /\ pc = "walk"
    BY <1>3 DEF DirectoryFails, Park
  <2>3. QED BY <2>1, <2>2, CoveredMonotone DEF WalkCovers
<1>4. ASSUME NEW n \in Nodes, StageEntry(n)
      PROVE  Covered(rows' \cup batch', ToWalk' \cup PassedOver')
  <2>1. ToWalk \cup PassedOver \subseteq ToWalk' \cup PassedOver'
    BY <1>4 DEF StageEntry, ToWalk, PassedOver
  <2>2. rows \cup batch \subseteq rows' \cup batch'
    BY <1>4, StageRowEffect DEF StageEntry
  <2>3. QED BY <1>4, <2>1, <2>2, CoveredMonotone DEF WalkCovers, StageEntry
<1>5. ASSUME NEW n \in Nodes, EntryFails(n)
      PROVE  Covered(rows' \cup batch', ToWalk' \cup PassedOver')
  <2>1. ToWalk \cup PassedOver \subseteq ToWalk' \cup PassedOver'
    BY <1>5 DEF EntryFails, Park, ToWalk, PassedOver
  <2>2. rows \cup batch \subseteq rows' \cup batch'
    BY <1>5, StageRowEffect DEF EntryFails, Park
  <2>3. QED BY <1>5, <2>1, <2>2, CoveredMonotone DEF WalkCovers, EntryFails
<1>6. CASE EndDirectory
  <2> DEFINE F == pending \cup inflight \cup kids \cup PassedOver
  <2>1. current \in Dirs /\ Covered(rows \cup batch, F \cup {current})
    BY <1>6, CoveredMonotone DEF EndDirectory, StageInv, WalkCovers, ToWalk
  <2>2. Children[current] \subseteq rows \cup batch
        /\ Children[current] \cap Dirs \subseteq F
    BY <1>6 DEF EndDirectory, StageInv
  <2>3. F \subseteq ToWalk' \cup PassedOver' /\ UNCHANGED <<rows, batch>>
    BY <1>6 DEF EndDirectory, ToWalk, PassedOver
  <2>4. Children[current] \cap Dirs \subseteq ToWalk' \cup PassedOver'
    BY <2>2, <2>3
  <2>5. Covered(rows \cup batch, ToWalk' \cup PassedOver')
    BY <2>1, <2>2, <2>3, <2>4, CoveredDescend
  <2>6. QED BY <2>3, <2>5
<1>7. CASE EndWalk \/ Complete \/ Interrupt \/ Crash
  BY <1>7 DEF EndWalk, Complete, Interrupt, Crash
<1>8. CASE UNCHANGED vars
  <2>1. UNCHANGED <<pc, rows, batch, ToWalk, PassedOver>>
    BY <1>8 DEF vars, ToWalk, PassedOver
  <2>2. QED BY <2>1 DEF WalkCovers
<1>9. QED BY <1>1, <1>2, <1>3, <1>4, <1>5, <1>6, <1>7, <1>8 DEF Next, Walk

LEMMA FrontierStep == IInv /\ [Next]_vars => FrontierCovers'
<1> SUFFICES ASSUME TypeOK, Shape, StageInv, WalkCovers, FrontierCovers, [Next]_vars
             PROVE  FrontierCovers'
  BY DEF IInv
<1> USE DEF durable, walkVars, lost
<1>0. ASSUME saved' = saved PROVE FrontierCovers'
  <2>1. ResumeStack' = ResumeStack
    BY <1>0 DEF ResumeStack
  <2>2. QED BY <2>1, OnlyGrows, CoveredMonotone DEF FrontierCovers
<1>1. CASE StartScan \/ EndDirectory \/ Complete \/ Interrupt \/ Crash
  BY <1>0, <1>1 DEF StartScan, EndDirectory, Complete, Interrupt, Crash
<1>2. ASSUME NEW d \in Dirs, Submit(d) \/ TakeDirectory(d) PROVE FrontierCovers'
  BY <1>0, <1>2 DEF Submit, TakeDirectory
<1>3. ASSUME NEW d \in Dirs, DirectoryFails(d) PROVE FrontierCovers'
  <2> DEFINE F == IF Serial THEN pending ELSE pending \cup inflight \cup unflushed
  <2>1. CASE Park({}, F, {d})
    <3>1. ToWalk \cup PassedOver \subseteq F \cup PassedOver \cup {d} /\ pc = "walk"
      BY <1>3, TreeAssumption DEF DirectoryFails, ToWalk, Shape
    <3>2. Covered(rows \cup batch \cup {}, F \cup PassedOver \cup {d})
      BY <3>1, CoveredMonotone DEF WalkCovers
    <3>3. QED BY <2>1, <3>2, ParkEffect
  <2>2. CASE ~Park({}, F, {d})
    BY <1>0, <1>3, <2>2 DEF DirectoryFails
  <2>3. QED BY <2>1, <2>2
<1>4. ASSUME pc = "stage", NEW n, StageRow(n), PassedOver \subseteq PassedOver'
      PROVE  FrontierCovers'
  <2>1. CASE saved' = saved
    BY <1>0, <2>1
  <2>2. CASE saved' # saved
    <3>1. rows \cup batch \subseteq rows'
          /\ saved' = IF Cardinality(Frontier(current)) <= FrontierMax
                      THEN Frontier(current) ELSE Null
      BY <1>4, <2>2, StageRowEffect
    <3>2. Covered(rows', ToWalk \cup PassedOver')
      BY <1>4, <3>1, CoveredMonotone DEF WalkCovers
    <3>3. Covered(rows', Frontier(current) \cup PassedOver')
      BY <1>4, <3>2, FlushFrontier
    <3>4. Covered(rows', (IF saved' = Null THEN {Top} ELSE saved') \cup PassedOver')
      BY <3>1, <3>3, StoredFrontier
    <3>5. QED BY <3>4 DEF FrontierCovers, ResumeStack
  <2>3. QED BY <2>1, <2>2
<1>5. ASSUME NEW n \in Nodes, StageEntry(n) PROVE FrontierCovers'
  BY <1>4, <1>5, OnlyGrows DEF StageEntry
<1>6. ASSUME NEW n \in Nodes, EntryFails(n) PROVE FrontierCovers'
  <2>1. CASE Park({n}, Frontier(current), {n} \cap Dirs)
    <3>1. Covered(rows \cup batch \cup {n}, ToWalk \cup (PassedOver \cup ({n} \cap Dirs)))
      BY <1>6, CoveredMonotone DEF WalkCovers, EntryFails
    <3>2. Covered(rows \cup batch \cup {n},
                  Frontier(current) \cup (PassedOver \cup ({n} \cap Dirs)))
      BY <1>6, <3>1, FlushFrontier DEF EntryFails
    <3>3. Frontier(current) \cup (PassedOver \cup ({n} \cap Dirs))
            = Frontier(current) \cup PassedOver \cup ({n} \cap Dirs)
      OBVIOUS
    <3>4. QED BY <2>1, <3>2, <3>3, ParkEffect
  <2>2. CASE ~Park({n}, Frontier(current), {n} \cap Dirs)
    BY <1>4, <1>6, <2>2, OnlyGrows DEF EntryFails
  <2>3. QED BY <2>1, <2>2
<1>7. CASE EndWalk
  <2>1. saved' = Null
    BY <1>7 DEF EndWalk, Flush
  <2>2. QED BY <2>1, CoveredByTop DEF FrontierCovers, ResumeStack
<1>8. CASE UNCHANGED vars
  BY <1>0, <1>8 DEF vars
<1>9. QED BY <1>1, <1>2, <1>3, <1>5, <1>6, <1>7, <1>8 DEF Next, Walk

\* Only the end of a walk, with nothing left to walk, makes WalkedCovers' premise true.
LEMMA WalkedStep == IInv /\ [Next]_vars => WalkedCovers'
<1> SUFFICES ASSUME TypeOK, Shape, WalkCovers, WalkedCovers, [Next]_vars,
                    pc' = "epilogue" \/ run' = "COMPLETE"
             PROVE  Covered(rows', PassedOver')
  BY DEF IInv, WalkedCovers
<1> USE DEF durable, walkVars, lost
<1>1. CASE EndWalk
  <2>1. ToWalk = {} /\ PassedOver' = PassedOver /\ rows' = rows \cup batch /\ pc = "walk"
    BY <1>1, TreeAssumption DEF EndWalk, Flush, ToWalk, Shape, PassedOver
  <2>2. QED BY <2>1 DEF WalkCovers
<1>2. CASE ~EndWalk
  <2>1. pc = "epilogue" \/ run = "COMPLETE"
    BY <1>2 DEF Next, Walk, StartScan, Submit, TakeDirectory, DirectoryFails, Park,
                StageEntry, EntryFails, EndDirectory, Complete, Interrupt, Crash, vars
  <2>2. QED BY <2>1, OnlyGrows, CoveredMonotone DEF WalkedCovers
<1>3. QED BY <1>1, <1>2

THEOREM InvariantHolds == Spec => []IInv
<1>1. IInv /\ [Next]_vars => IInv'
  BY TypeStep, ShapeStep, StageStep, WalkStep, FrontierStep, WalkedStep DEF IInv
<1>2. QED BY InitInv, <1>1, PTL DEF Spec

\* Type correctness of a scan run, its walk and its counters.
THEOREM TypeCorrect == Spec => []TypeOK
<1>1. IInv => TypeOK
  BY DEF IInv
<1>2. QED BY InvariantHolds, <1>1, PTL

\* Whatever the tree, the profile and the instant of a crash, what a resume of
\* the persisted frontier walks again covers every entry not yet recorded.
THEOREM ResumeLosesNothing == Spec => []FrontierCovers
<1>1. IInv => FrontierCovers
  BY DEF IInv
<1>2. QED BY InvariantHolds, <1>1, PTL

\* A COMPLETE run lacks only what lies below a directory whose read failed.
THEOREM CompleteRunIsComplete == Spec => []CompleteMeansRecorded
<1>1. IInv => CompleteMeansRecorded
  BY DEF IInv, WalkedCovers, CompleteMeansRecorded
<1>2. QED BY InvariantHolds, <1>1, PTL
===========================================================================
