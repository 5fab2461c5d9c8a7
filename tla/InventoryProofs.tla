------------------------- MODULE InventoryProofs --------------------------
(* What Inventory keeps for any paths, versions, runs and number to keep.   *)
EXTENDS Inventory, TLAPS

---------------------------------------------------------------------------
(* Type correctness.  Each action disturbs few groups of variables.         *)

LEMMA TypeInit == Init => TypeOK
<1> SUFFICES ASSUME Init PROVE TypeOK
  OBVIOUS
<1> USE InventoryAssumption DEF Runs, Versions, None, NoRows
<1>1. DriveType
  <2>1. {None, 1} \subseteq 0 .. MaxVersion
    OBVIOUS
  <2>2. QED BY <2>1 DEF Init, DriveType
<1>2. RunType
  <2>1. NoRows \in [Paths -> Unread .. MaxVersion] BY DEF Unread
  <2>2. QED BY <2>1 DEF Init, RunType, Gone
<1>3. IdentityType BY DEF Init, IdentityType
<1>4. PointerType BY DEF Init, PointerType
<1>5. ReviewType BY DEF Init, ReviewType
<1>6. ScanType /\ DiffType BY DEF Init, ScanType, DiffType
<1>7. BoundType BY DEF Init, BoundType
<1>8. QED BY <1>1, <1>2, <1>3, <1>4, <1>5, <1>6, <1>7 DEF TypeOK

LEMMA TypeStep == TypeOK /\ [Next]_vars => TypeOK'
<1> SUFFICES ASSUME TypeOK, [Next]_vars PROVE TypeOK'
  OBVIOUS
<1> USE DEF TypeOK
\* A group of variables that stays keeps its type.
<1>d. UNCHANGED driveVars => DriveType'
  BY DEF DriveType, driveVars
<1>r. UNCHANGED runVars => RunType'
  BY DEF RunType, runVars
<1>i. UNCHANGED identityVars => IdentityType'
  BY DEF IdentityType, identityVars
<1>p. UNCHANGED pointerVars => PointerType'
  BY DEF PointerType, pointerVars
<1>v. UNCHANGED reviewVars => ReviewType'
  BY DEF ReviewType, reviewVars
<1>s. UNCHANGED scanVars => ScanType'
  BY DEF ScanType, scanVars
<1>b. UNCHANGED <<plan, trouble>> => BoundType'
  BY DEF BoundType
<1>c. UNCHANGED <<pc, run, prior>> \/ pc' \in {"idle", "walk", "publish", "refresh"} => DiffType'
  BY DEF DiffType
<1>l. Leave => ScanType'
  BY InventoryAssumption DEF Leave, None, ScanType
<1>1. ASSUME NEW r \in Runs, Resume(r) PROVE TypeOK'
  <2>1. RunType' BY <1>1 DEF Resume, RunType
  <2>2. ScanType' BY <1>1 DEF Resume, ScanType, Runs
  <2>3. QED BY <1>1, <2>1, <2>2, <1>d, <1>i, <1>p, <1>v, <1>b, <1>c DEF Resume
<1>2. ASSUME NEW r \in Runs, NEW resume \in BOOLEAN, NEW incremental \in BOOLEAN,
             Start(r, resume, incremental)
      PROVE TypeOK'
  <2>1. RunType'
    <3>1. PICK q \in 0 .. MaxRuns : prior' = [prior EXCEPT ![r] = IF incremental THEN q ELSE None]
      BY <1>2 DEF Start
    <3>2. prior' \in [Runs -> 0 .. MaxRuns]
      BY <3>1, InventoryAssumption DEF RunType, None
    <3>3. QED BY <1>2, <3>2 DEF Start, RunType
  <2>2. ScanType' BY <1>2 DEF Start, ScanType, Runs
  <2>3. QED BY <1>2, <2>1, <2>2, <1>d, <1>i, <1>p, <1>v, <1>b, <1>c DEF Start
<1>3. ASSUME NEW p \in Paths, Record(p) PROVE TypeOK'
  <2>1. run \in Runs /\ <<run, p>> \in Entries /\ disk[p] \in 0 .. MaxVersion
    BY <1>3 DEF Record, ScanType, Entries, DriveType
  <2>2. RunType'
    <3>1. blurred' \subseteq Entries BY <1>3, <2>1 DEF Record, RunType
    <3>2. rows' \in [Runs -> [Paths -> Unread .. MaxVersion]]
      <4>1. PICK v \in Unread .. MaxVersion : rows' = rows \/ rows' = [rows EXCEPT ![run][p] = v]
        BY <1>3, <2>1, InventoryAssumption DEF Record, Unread
      <4>2. rows \in [Runs -> [Paths -> Unread .. MaxVersion]] BY DEF RunType
      <4>3. QED BY <4>1, <4>2, <2>1
    <3>3. QED BY <1>3, <3>1, <3>2 DEF Record, RunType
  <2>3. IdentityType' BY <1>3, <2>1 DEF Record, IdentityType
  <2>4. ScanType' BY <1>3 DEF Record, ScanType
  <2>5. QED BY <1>3, <2>2, <2>3, <2>4, <1>d, <1>p, <1>v, <1>b, <1>c DEF Record
<1>4. ASSUME NEW p \in Paths, Classify(p) PROVE TypeOK'
  <2>1. RunType' BY <1>4 DEF Classify, ChangeStatus, StatusIfRead, RunType
  <2>2. ScanType' BY <1>4 DEF Classify, ScanType
  <2>3. QED BY <1>4, <2>1, <2>2, <1>d, <1>i, <1>p, <1>v, <1>b, <1>c DEF Classify
<1>5. ASSUME NEW p \in Paths, CopyForward(p) PROVE TypeOK'
  <2>1. run \in Runs /\ <<run, p>> \in Entries
    BY <1>5 DEF CopyForward, ScanType, Entries
  <2>0. prior[run] \in Runs
    BY <1>5, <2>1, InventoryAssumption DEF CopyForward, DiffType, RunType, Runs, None
  <2>2. link[prior[run]][p] \in 0 .. MaxVersion
    BY <2>0 DEF IdentityType
  <2>3. IdentityType'
    <3>1. link' \in [Runs -> [Paths -> 0 .. MaxVersion]]
      <4>1. PICK v \in 0 .. MaxVersion : link' = link \/ link' = [link EXCEPT ![run][p] = v]
        BY <1>5, <2>2 DEF CopyForward
      <4>2. link \in [Runs -> [Paths -> 0 .. MaxVersion]] BY DEF IdentityType
      <4>3. QED BY <4>1, <4>2, <2>1
    <3>2. tainted' \subseteq Entries
      BY <1>5, <2>1 DEF CopyForward, IdentityType
    <3>3. origin' = origin BY <1>5 DEF CopyForward
    <3>4. QED BY <3>1, <3>2, <3>3 DEF IdentityType
  <2>4. ScanType' BY <1>5 DEF CopyForward, ScanType
  <2>5. DiffType' BY <1>5, <1>c DEF CopyForward, runVars
  <2>6. UNCHANGED <<driveVars, runVars, pointerVars, reviewVars, plan, trouble>>
    BY <1>5 DEF CopyForward
  <2>7. QED BY <2>3, <2>4, <2>5, <2>6, <1>d, <1>r, <1>p, <1>v, <1>b
<1>6. ASSUME NEW p \in Paths, FindMissing(p) PROVE TypeOK'
  <2>1. RunType' BY <1>6 DEF FindMissing, RunType
  <2>2. ScanType' BY <1>6 DEF FindMissing, ScanType
  <2>3. QED BY <1>6, <2>1, <2>2, <1>d, <1>i, <1>p, <1>v, <1>b, <1>c DEF FindMissing
<1>7. CASE EndWalk \/ EndStatement
  <2>1. RunType' BY <1>7 DEF EndWalk, EndStatement, To, RunType
  <2>2. ScanType' BY <1>7 DEF EndWalk, EndStatement, To, ScanType, RowsOf
  <2>3. DiffType' BY <1>7 DEF EndWalk, EndStatement, To, DiffType
  <2>4. QED BY <1>7, <2>1, <2>2, <2>3, <1>d, <1>i, <1>p, <1>v, <1>b, <1>c DEF EndWalk, EndStatement, To
<1>8. CASE MarkStale
  <2>1. ReviewType' BY <1>8 DEF MarkStale, ReviewType
  <2>2. ScanType' BY <1>8 DEF MarkStale, ScanType
  <2>3. QED BY <1>8, <2>1, <2>2, <1>d, <1>r, <1>i, <1>p, <1>b, <1>c DEF MarkStale
<1>9. CASE Publish
  <2>1. RunType' BY <1>9 DEF Publish, RunType
  <2>2. PointerType' BY <1>9 DEF Publish, PointerType, ScanType
  <2>3. ReviewType' BY <1>9 DEF Publish, ReviewType
  <2>4. ScanType' BY <1>9 DEF Publish, ScanType
  <2>5. QED BY <1>9, <2>1, <2>2, <2>3, <2>4, <1>d, <1>i, <1>b, <1>c DEF Publish
<1>10. CASE Refresh
  <2>1. PointerType' BY <1>10 DEF Refresh, PointerType, ScanType
  <2>2. QED BY <1>10, <2>1, <1>l, <1>d, <1>r, <1>i, <1>v, <1>b, <1>c DEF Refresh, Leave
<1>11. CASE Fail
  BY <1>11, <1>l, <1>d, <1>r, <1>i, <1>p, <1>v, <1>b, <1>c DEF Fail, Leave
<1>12. CASE Interrupt
  <2>1. RunType' BY <1>12 DEF Interrupt, RunType, ScanType
  <2>2. BoundType' BY <1>12, InventoryAssumption DEF Interrupt, BoundType
  <2>3. QED BY <1>12, <2>1, <2>2, <1>l, <1>d, <1>i, <1>p, <1>v, <1>c DEF Leave, Interrupt
<1>13. CASE Die
  <2>1. RunType' BY <1>13 DEF Die, RunType, ScanType
  <2>2. BoundType' BY <1>13, InventoryAssumption DEF Die, BoundType
  <2>3. QED BY <1>13, <2>1, <2>2, <1>l, <1>d, <1>i, <1>p, <1>v, <1>c DEF Leave, Die
<1>14. ASSUME NEW p \in Paths, Write(p) \/ Delete(p) PROVE TypeOK'
  <2>1. DriveType' BY <1>14, InventoryAssumption DEF Write, Delete, DriveType, None
  <2>2. QED BY <1>14, <2>1, <1>r, <1>i, <1>p, <1>v, <1>s, <1>b, <1>c DEF runVars, scanVars, Write, Delete
<1>15. ASSUME NEW p \in Paths, Identify(p) PROVE TypeOK'
  <2>1. latest \in Runs /\ disk[p] \in Versions
    BY <1>15 DEF Identify, PointerType, DriveType, Runs, Versions, None
  <2>2. disk[p] \in 0 .. MaxVersion BY DEF DriveType
  <2>3. link' \in [Runs -> [Paths -> 0 .. MaxVersion]] BY <1>15, <2>1, <2>2 DEF Identify, IdentityType
  <2>4. origin' \in [Paths -> [Versions -> 0 .. MaxRuns]]
    BY <1>15, <2>1 DEF Identify, IdentityType, PointerType
  <2>5. IdentityType' BY <1>15, <2>3, <2>4 DEF Identify, IdentityType
  <2>6. QED BY <1>15, <2>5, <1>d, <1>r, <1>p, <1>v, <1>s, <1>b, <1>c DEF runVars, scanVars, Identify
<1>16. ASSUME NEW r \in Runs, NEW p \in Paths, Decide(r, p) PROVE TypeOK'
  <2>1. <<r, p>> \in Entries BY DEF Entries
  <2>2. ReviewType' BY <1>16, <2>1 DEF Decide, ReviewType
  <2>3. QED BY <1>16, <2>2, <1>d, <1>r, <1>i, <1>p, <1>s, <1>b, <1>c DEF Decide, runVars, scanVars
<1>17. CASE PlanPrune
  <2>1. BoundType' BY <1>17 DEF PlanPrune, BoundType, Known
  <2>2. QED BY <1>17, <2>1, <1>d, <1>r, <1>i, <1>p, <1>v, <1>s, <1>c DEF PlanPrune, runVars, scanVars
<1>18. CASE Prune
  <2>1. BoundType' BY <1>18 DEF Prune, BoundType
  <2>2. NoRows \in [Paths -> 0 .. MaxVersion] /\ NoRows \in [Paths -> Unread .. MaxVersion]
    BY InventoryAssumption DEF NoRows, None, Unread
  <2>3. RunType'
    <3>1. CASE UNCHANGED runVars
      BY <3>1, <1>r
    <3>2. CASE ~UNCHANGED runVars
      <4>1. rows' \in [Runs -> [Paths -> Unread .. MaxVersion]]
        BY <1>18, <2>2, <3>2 DEF Prune, RunType
      <4>2. change' \in [Runs -> [Paths -> {"none", "ERROR", "NEW", "UNCHANGED", "CHANGED"}]]
        BY <1>18, <3>2 DEF Prune, RunType
      <4>3. /\ status' \in [Runs -> {Gone, "RUNNING", "INTERRUPTED", "COMPLETE"}]
            /\ saved' \in [Runs -> SUBSET Paths]
        BY <1>18, <3>2 DEF Prune, RunType
      <4>m. missing' \in [Runs -> SUBSET Paths]
        BY <1>18, <3>2 DEF Prune, RunType
      <4>4. prior' = prior /\ blurred' = {e \in blurred : e[1] \notin plan}
        BY <1>18, <3>2 DEF Prune
      <4>5. blurred' \subseteq Entries /\ prior' \in [Runs -> 0 .. MaxRuns]
        BY <4>4 DEF RunType
      <4>6. QED BY <4>1, <4>2, <4>3, <4>m, <4>5 DEF RunType
    <3>3. QED BY <3>1, <3>2
  <2>4. IdentityType'
    <3>1. CASE UNCHANGED <<link, tainted>>
      BY <1>18, <3>1 DEF Prune, IdentityType
    <3>2. CASE ~UNCHANGED <<link, tainted>>
      <4>1. link' \in [Runs -> [Paths -> 0 .. MaxVersion]]
        BY <1>18, <2>2, <3>2 DEF Prune, IdentityType
      <4>2. tainted' \subseteq Entries /\ origin' = origin
        BY <1>18, <3>2 DEF Prune, IdentityType
      <4>3. QED BY <4>1, <4>2 DEF IdentityType
    <3>3. QED BY <3>1, <3>2
  <2>5. QED BY <1>18, <2>1, <2>3, <2>4, <1>d, <1>p, <1>v, <1>s, <1>c DEF Prune, runVars, scanVars
<1>19. CASE Purge
  <2>1. NoRows \in [Paths -> 0 .. MaxVersion] /\ NoRows \in [Paths -> Unread .. MaxVersion]
    BY InventoryAssumption DEF NoRows, None, Unread
  <2>2. RunType' BY <1>19, <2>1 DEF Purge, RunType
  <2>3. IdentityType' BY <1>19, <2>1, InventoryAssumption DEF Purge, IdentityType, None
  <2>4. PointerType' /\ ReviewType'
    BY <1>19, InventoryAssumption DEF Purge, PointerType, ReviewType, None
  <2>5. BoundType' BY <1>19, InventoryAssumption DEF Purge, BoundType
  <2>6. QED BY <1>19, <2>2, <2>3, <2>4, <2>5, <1>d, <1>s, <1>c DEF Purge, scanVars
<1>20. CASE UNCHANGED vars
  BY <1>20, <1>d, <1>r, <1>i, <1>p, <1>v, <1>s, <1>b, <1>c DEF runVars, scanVars, vars
<1>21. QED
  BY <1>1, <1>2, <1>3, <1>4, <1>5, <1>6, <1>7, <1>8, <1>9, <1>10, <1>11, <1>12, <1>13,
     <1>14, <1>15, <1>16, <1>17, <1>18, <1>19, <1>20
  DEF Next, Scanner, Others

\* Every variable keeps the values the source can give it.
THEOREM TypeCorrect == Spec => []TypeOK
<1>1. TypeOK /\ [Next]_vars => TypeOK'
  BY TypeStep
<1>2. QED BY TypeInit, <1>1, PTL DEF Spec

---------------------------------------------------------------------------
(* The current inventory.  A run that is still at work is newer than every
   complete one: that is why publishing it moves the pointer forwards.      *)

AtWork == pc \notin {"idle", "refresh"}

CurrentInv ==
    /\ CurrentIsNewestComplete
    /\ AtWork => \A r \in Complete : r < run

\* What only needs the statuses, the pointer and the scanner's place.
LEMMA CurrentFrame ==
    ASSUME CurrentInv, UNCHANGED <<status, latest>>,
           AtWork' => AtWork /\ run' = run
    PROVE  CurrentInv'
<1>1. Complete' = Complete BY DEF Complete
<1>2. QED BY <1>1 DEF CurrentInv, CurrentIsNewestComplete, IsNewest

\* A prune that deletes leaves the current run.
LEMMA PruneKeepsCurrent ==
    ASSUME TypeOK, CurrentIsNewestComplete, Prune, latest # None
    PROVE  latest \in Complete /\ status'[latest] = status[latest] /\ rows'[latest] = rows[latest]
<1>1. latest \in Complete /\ latest \in Runs /\ latest \in Known
  BY DEF CurrentIsNewestComplete, IsNewest, Complete, Known, Gone
<1>2. CASE UNCHANGED <<status, rows>>
  BY <1>1, <1>2
<1>3. CASE ~UNCHANGED <<status, rows>>
  <2>1. latest \notin plan BY <1>1, <1>3 DEF Prune, Referenced, runVars
  <2>2. QED BY <1>1, <1>3, <2>1 DEF Prune, runVars
<1>4. QED BY <1>2, <1>3

LEMMA CurrentStep == TypeOK /\ CurrentInv /\ [Next]_vars => CurrentInv'
<1> SUFFICES ASSUME TypeOK, CurrentInv, [Next]_vars PROVE CurrentInv'
  OBVIOUS
<1>t. run \in 0 .. MaxRuns /\ latest \in 0 .. MaxRuns /\ (AtWork => run \in Runs)
  BY DEF TypeOK, ScanType, PointerType, AtWork
<1>s. status \in [Runs -> {Gone, "RUNNING", "INTERRUPTED", "COMPLETE"}]
  BY DEF TypeOK, RunType
<1>1. ASSUME NEW r \in Runs, Resume(r) PROVE CurrentInv'
  <2>1. Complete' = Complete /\ latest' = latest /\ run' = r
    BY <1>1 DEF Resume, Complete, pointerVars
  <2>2. ASSUME NEW s \in Complete PROVE s < r
    <3>1. s \in Known /\ s \in Runs /\ s # r
      BY <1>1 DEF Complete, Known, Gone, Resume
    <3>2. s <= r BY <1>1, <3>1 DEF Resume, IsNewest
    <3>3. QED BY <3>1, <3>2 DEF Runs
  <2>3. QED BY <2>1, <2>2 DEF CurrentInv, CurrentIsNewestComplete, IsNewest
<1>2. ASSUME NEW r \in Runs, NEW resume \in BOOLEAN, NEW incremental \in BOOLEAN,
             Start(r, resume, incremental)
      PROVE CurrentInv'
  <2>1. ASSUME NEW s \in Known PROVE s < r
    <3>1. s \in Runs BY DEF Known
    <3>2. s <= r - 1 BY <1>2 DEF Start, IsNewest
    <3>3. QED BY <3>1, <3>2 DEF Runs
  <2>2. Complete \subseteq Known BY DEF Complete, Known, Gone
  <2>3. r \notin Complete BY <2>1, <2>2 DEF Runs
  <2>4. Complete' = Complete
    BY <1>2, <1>s, <2>3 DEF Start, Complete
  <2>5. latest' = latest /\ run' = r BY <1>2 DEF Start, pointerVars
  <2>6. QED BY <2>1, <2>2, <2>4, <2>5 DEF CurrentInv, CurrentIsNewestComplete, IsNewest
<1>3. ASSUME NEW p \in Paths, Record(p) \/ Classify(p) \/ CopyForward(p) \/ FindMissing(p)
      PROVE CurrentInv'
  BY <1>3, CurrentFrame
  DEF Record, Classify, CopyForward, FindMissing, AtWork, pointerVars, runVars
<1>4. CASE EndWalk \/ EndStatement \/ MarkStale
  BY <1>4, CurrentFrame DEF EndWalk, EndStatement, To, MarkStale, AtWork, pointerVars, runVars
<1>5. CASE Publish
  <2>1. run \in Runs /\ AtWork BY <1>5, <1>t DEF Publish, AtWork
  <2>2. Complete' = Complete \cup {run} BY <1>5, <1>s, <2>1 DEF Publish, Complete
  <2>3. \A r \in Complete' : r <= run
    BY <2>1, <2>2 DEF CurrentInv, Runs, Complete
  <2>4. latest' = run /\ ~AtWork' BY <1>5 DEF Publish, AtWork
  <2>5. QED BY <2>2, <2>3, <2>4 DEF CurrentInv, CurrentIsNewestComplete, IsNewest
<1>6. CASE Refresh \/ Fail \/ Die
  BY <1>6, CurrentFrame DEF Refresh, Fail, Die, Leave, AtWork, pointerVars, runVars
<1>7. CASE Interrupt
  <2>1. AtWork /\ run \in Runs BY <1>7, <1>t DEF Interrupt, AtWork
  <2>2. run \notin Complete BY <2>1 DEF CurrentInv, Runs
  <2>3. Complete' = Complete BY <1>7, <1>s, <2>1, <2>2 DEF Interrupt, Complete
  <2>4. latest' = latest /\ ~AtWork' BY <1>7 DEF Interrupt, Leave, AtWork, pointerVars
  <2>5. QED BY <2>3, <2>4 DEF CurrentInv, CurrentIsNewestComplete, IsNewest
<1>8. ASSUME NEW p \in Paths, Write(p) \/ Delete(p) \/ Identify(p) PROVE CurrentInv'
  BY <1>8, CurrentFrame DEF Write, Delete, Identify, AtWork, pointerVars, runVars, scanVars
<1>9. ASSUME NEW r \in Runs, NEW p \in Paths, Decide(r, p) PROVE CurrentInv'
  BY <1>9, CurrentFrame DEF Decide, AtWork, pointerVars, runVars, scanVars
<1>10. CASE PlanPrune
  BY <1>10, CurrentFrame DEF PlanPrune, AtWork, pointerVars, runVars, scanVars
<1>11. CASE Prune
  <2>1. latest' = latest /\ pc' = pc /\ run' = run BY <1>11 DEF Prune, pointerVars, scanVars
  <2>2. Complete' \subseteq Complete
    BY <1>11, <1>s DEF Prune, Complete, Gone, runVars
  <2>3. latest # None => latest \in Complete'
    BY <1>11, PruneKeepsCurrent DEF CurrentInv, Complete
  <2>4. None \notin Complete BY DEF Complete, Runs, None
  <2>5. CurrentIsNewestComplete'
    BY <2>1, <2>2, <2>3, <2>4 DEF CurrentInv, CurrentIsNewestComplete, IsNewest
  <2>6. QED BY <2>1, <2>2, <2>5 DEF CurrentInv, AtWork
<1>12. CASE Purge
  <2>1. Complete' = {} /\ latest' = None
    BY <1>12 DEF Purge, Complete, Gone
  <2>2. QED BY <2>1 DEF CurrentInv, CurrentIsNewestComplete, IsNewest
<1>13. CASE UNCHANGED vars
  BY <1>13, CurrentFrame DEF vars, AtWork, pointerVars, runVars, scanVars
<1>14. QED
  BY <1>1, <1>2, <1>3, <1>4, <1>5, <1>6, <1>7, <1>8, <1>9, <1>10, <1>11, <1>12, <1>13
  DEF Next, Scanner, Others

LEMMA CurrentInit == Init => CurrentInv
BY DEF Init, CurrentInv, CurrentIsNewestComplete, IsNewest, Complete, Gone, AtWork

LEMMA CurrentAlways == Spec => [](TypeOK /\ CurrentInv)
<1>1. TypeOK /\ CurrentInv /\ [Next]_vars => TypeOK' /\ CurrentInv'
  BY TypeStep, CurrentStep
<1>2. QED BY TypeInit, CurrentInit, <1>1, PTL DEF Spec

\* The current inventory is the newest complete run at all times.
THEOREM NewestIsCurrent == Spec => []CurrentIsNewestComplete
<1>1. CurrentInv => CurrentIsNewestComplete BY DEF CurrentInv
<1>2. QED BY CurrentAlways, <1>1, PTL

\* A step that leaves another run current leaves its rows alone.
THEOREM CurrentStaysFrozen == Spec => CurrentIsFrozen
<1>1. TypeOK /\ CurrentInv /\ [Next]_vars =>
        [latest # None /\ latest' = latest => rows'[latest] = rows[latest]]_vars
  <2> SUFFICES ASSUME TypeOK, CurrentInv, [Next]_vars, latest # None, latest' = latest
               PROVE  rows'[latest] = rows[latest]
    OBVIOUS
  <2>1. ASSUME NEW p \in Paths, Record(p) PROVE rows'[latest] = rows[latest]
    <3>1. latest \in Complete
      BY DEF CurrentInv, CurrentIsNewestComplete, IsNewest
    <3>2. latest < run /\ run \in Runs /\ latest \in Runs
      BY <2>1, <3>1 DEF CurrentInv, AtWork, Record, TypeOK, ScanType, Complete
    <3>3. latest # run BY <3>2 DEF Runs
    <3>4. QED BY <2>1, <3>2, <3>3 DEF Record, TypeOK, RunType
  <2>2. CASE Prune
    BY <2>2, PruneKeepsCurrent DEF CurrentInv
  <2>3. CASE Purge
    BY <2>3 DEF Purge
  <2>4. CASE rows' = rows
    BY <2>4
  <2>5. QED
    <3>1. \/ rows' = rows \/ Prune \/ Purge \/ \E p \in Paths : Record(p)
      BY DEF Next, Scanner, Others, vars, runVars, driveVars, Resume, Start, EndWalk, EndStatement,
             To, Classify, CopyForward, FindMissing, MarkStale, Publish, Refresh, Fail, Interrupt,
             Die, Write, Delete, Identify, Decide, PlanPrune
    <3>2. QED BY <2>1, <2>2, <2>3, <2>4, <3>1
<1>2. QED BY CurrentAlways, <1>1, PTL DEF Spec, CurrentIsFrozen

---------------------------------------------------------------------------
(* Decisions.                                                               *)

\* A run that somebody's decision holds is not in a plan.
HeldInv ==
    \A d \in decided \ raced : rows[d[1]][d[2]] # None /\ d[1] \notin plan

LEMMA HeldStep == TypeOK /\ HeldInv /\ [Next]_vars => HeldInv'
<1> SUFFICES ASSUME TypeOK, HeldInv, [Next]_vars PROVE HeldInv'
  OBVIOUS
<1>1. ASSUME NEW p \in Paths, Record(p) PROVE HeldInv'
  <2>1. UNCHANGED <<decided, raced, plan>> BY <1>1 DEF Record, reviewVars
  <2>2. ASSUME NEW d \in decided \ raced PROVE rows'[d[1]][d[2]] # None
    <3>1. d \in Runs \X Paths BY DEF TypeOK, ReviewType, Entries
    <3>2. rows \in [Runs -> [Paths -> Unread .. MaxVersion]] BY DEF TypeOK, RunType
    <3>3. CASE rows' = rows
      BY <3>3 DEF HeldInv
    <3>4. CASE rows' # rows
      <4>1. PICK v \in {disk[p], Unread} : disk[p] # None /\ rows' = [rows EXCEPT ![run][p] = v]
        BY <1>1, <3>4 DEF Record
      <4>2. v # None BY <4>1 DEF Unread, None
      <4>3. rows[d[1]][d[2]] # None BY DEF HeldInv
      <4>4. QED BY <3>1, <3>2, <4>1, <4>2, <4>3
    <3>5. QED BY <3>3, <3>4
  <2>3. QED BY <2>1, <2>2 DEF HeldInv
<1>2. ASSUME NEW r \in Runs, NEW p \in Paths, Decide(r, p) PROVE HeldInv'
  <2>1. UNCHANGED <<rows, plan>> BY <1>2 DEF Decide, runVars
  <2>2. ASSUME NEW d \in decided' \ raced' PROVE rows[d[1]][d[2]] # None /\ d[1] \notin plan
    <3>1. CASE d = <<r, p>>
      BY <1>2, <3>1 DEF Decide
    <3>2. CASE d # <<r, p>>
      BY <1>2, <3>2 DEF Decide, HeldInv
    <3>3. QED BY <3>1, <3>2
  <2>3. QED BY <2>1, <2>2 DEF HeldInv
<1>3. CASE PlanPrune
  <2>1. \A d \in decided : d[1] \notin plan' BY <1>3 DEF PlanPrune, Held
  <2>2. UNCHANGED <<decided, raced, rows>> BY <1>3 DEF PlanPrune, reviewVars, runVars
  <2>3. QED BY <2>1, <2>2 DEF HeldInv
<1>4. CASE Prune
  <2>1. UNCHANGED <<decided, raced>> /\ plan' = {} BY <1>4 DEF Prune, reviewVars
  <2>2. ASSUME NEW d \in decided \ raced PROVE rows'[d[1]][d[2]] # None
    <3>1. d[1] \in Runs BY DEF TypeOK, ReviewType, Entries
    <3>2. d[1] \notin plan /\ rows[d[1]][d[2]] # None BY DEF HeldInv
    <3>3. rows'[d[1]] = rows[d[1]] BY <1>4, <3>1, <3>2 DEF Prune, runVars
    <3>4. QED BY <3>2, <3>3
  <2>3. QED BY <2>1, <2>2 DEF HeldInv
<1>5. CASE Purge
  BY <1>5 DEF Purge, HeldInv
<1>6. CASE UNCHANGED <<rows, decided, raced, plan>>
  BY <1>6 DEF HeldInv
<1>7. QED
  <2>1. \/ UNCHANGED <<rows, decided, raced, plan>> \/ PlanPrune \/ Prune \/ Purge
        \/ \E p \in Paths : Record(p)
        \/ \E r \in Runs, p \in Paths : Decide(r, p)
    BY DEF Next, Scanner, Others, vars, runVars, reviewVars, Resume, Start, EndWalk, EndStatement,
           To, Classify, CopyForward, FindMissing, MarkStale, Publish, Refresh, Fail, Interrupt,
           Die, Write, Delete, Identify
  <2>2. QED BY <1>1, <1>2, <1>3, <1>4, <1>5, <1>6, <2>1

\* Pruning never takes away an entry decided on before the prune was planned.
THEOREM DecidedStay == Spec => []DecidedEntriesStay
<1>1. Init => HeldInv BY DEF Init, HeldInv
<1>2. TypeOK /\ HeldInv /\ [Next]_vars => HeldInv' BY HeldStep
<1>3. HeldInv => DecidedEntriesStay BY DEF HeldInv, DecidedEntriesStay
<1>4. QED BY TypeCorrect, <1>1, <1>2, <1>3, PTL DEF Spec

---------------------------------------------------------------------------
(* Identity.  A file's versions only grow, and rows hold versions it had.   *)

VersionInv ==
    /\ \A p \in Paths : disk[p] \in {None, newest[p]}
    /\ \A r \in Runs, p \in Paths : rows[r][p] <= newest[p]

IdentityInv == VersionInv /\ IdentityIsNotOlder

LEMMA IdentityStep == TypeOK /\ IdentityInv /\ [Next]_vars => IdentityInv'
<1> SUFFICES ASSUME TypeOK, IdentityInv, [Next]_vars PROVE IdentityInv'
  OBVIOUS
<1>t. /\ disk \in [Paths -> 0 .. MaxVersion] /\ newest \in [Paths -> 0 .. MaxVersion]
      /\ rows \in [Runs -> [Paths -> Unread .. MaxVersion]]
      /\ link \in [Runs -> [Paths -> 0 .. MaxVersion]]
      /\ run \in 0 .. MaxRuns /\ (pc # "idle" => run \in Runs)
  BY DEF TypeOK, DriveType, RunType, IdentityType, ScanType
<1>n. \A r \in Runs, p \in Paths : rows[r][p] \in Int
  BY <1>t DEF Unread
<1>1. ASSUME NEW q \in Paths, Write(q) \/ Delete(q) PROVE IdentityInv'
  <2>1. UNCHANGED <<rows, link, tainted>> BY <1>1 DEF Write, Delete, runVars, identityVars
  <2>2. ASSUME NEW p \in Paths PROVE newest[p] <= newest'[p] /\ disk'[p] \in {None, newest'[p]}
    BY <1>1, <1>t DEF Write, Delete, IdentityInv, VersionInv
  <2>3. \A r \in Runs, p \in Paths : rows'[r][p] <= newest'[p]
    <3> TAKE r \in Runs, p \in Paths
    <3>1. rows[r][p] \in Int /\ newest[p] \in Nat BY <1>t, <1>n
    <3>2. newest'[p] \in Nat BY <1>1, <1>t DEF Write, Delete
    <3>3. rows[r][p] <= newest[p] /\ newest[p] <= newest'[p] BY <2>2 DEF IdentityInv, VersionInv
    <3>4. QED BY <2>1, <3>1, <3>2, <3>3
  <2>4. QED BY <2>1, <2>2, <2>3 DEF IdentityInv, VersionInv, IdentityIsNotOlder
<1>2. ASSUME NEW q \in Paths, Record(q) PROVE IdentityInv'
  <2>1. UNCHANGED <<disk, newest, link>> /\ run \in Runs BY <1>2, <1>t DEF Record, driveVars
  <2>2. CASE rows' = rows
    BY <1>2, <2>1, <2>2 DEF Record, IdentityInv, VersionInv, IdentityIsNotOlder
  <2>3. CASE rows' # rows
    <3>1. /\ link[run][q] # None => <<run, q>> \in tainted'
          /\ tainted \subseteq tainted'
          /\ disk[q] = newest[q]
      BY <1>2, <2>3 DEF Record, IdentityInv, VersionInv
    <3>f. PICK v \in {newest[q], Unread} : rows' = [rows EXCEPT ![run][q] = v]
      BY <1>2, <2>3, <3>1 DEF Record
    <3>2. ASSUME NEW r \in Runs, NEW p \in Paths
          PROVE  rows'[r][p] = IF r = run /\ p = q THEN v ELSE rows[r][p]
      BY <3>f, <2>1, <1>t
    <3>3. \A r \in Runs, p \in Paths : rows'[r][p] <= newest[p]
      <4> TAKE r \in Runs, p \in Paths
      <4>1. p = q => v <= newest[p] BY <1>t DEF Unread
      <4>2. rows[r][p] <= newest[p] BY DEF IdentityInv, VersionInv
      <4>3. QED BY <3>2, <4>1, <4>2
    <3>4. IdentityIsNotOlder'
      <4> SUFFICES ASSUME NEW r \in Runs, NEW p \in Paths,
                          link[r][p] # None, <<r, p>> \notin tainted'
                   PROVE  link[r][p] >= rows'[r][p]
        BY <2>1 DEF IdentityIsNotOlder
      <4>1. <<r, p>> \notin tainted /\ ~(r = run /\ p = q) BY <3>1
      <4>2. QED BY <3>2, <4>1 DEF IdentityInv, IdentityIsNotOlder
    <3>5. QED BY <2>1, <3>3, <3>4 DEF IdentityInv, VersionInv
  <2>4. QED BY <2>2, <2>3
<1>3. ASSUME NEW q \in Paths, CopyForward(q) PROVE IdentityInv'
  <2>1. UNCHANGED <<disk, newest, rows>> /\ run \in Runs
    BY <1>3, <1>t DEF CopyForward, driveVars, runVars
  <2>2. CASE UNCHANGED <<link, tainted>>
    BY <2>1, <2>2 DEF IdentityInv, VersionInv, IdentityIsNotOlder
  <2>3. CASE ~UNCHANGED <<link, tainted>>
    <3>1. prior[run] \in Runs
      BY <1>3, <2>1, InventoryAssumption DEF CopyForward, TypeOK, DiffType, RunType, Runs, None
    <3>2. /\ link' = [link EXCEPT ![run][q] = link[prior[run]][q]]
          /\ <<prior[run], q>> \in tainted => <<run, q>> \in tainted'
          /\ \A e \in tainted : e \in tainted' \/ e = <<run, q>>
          /\ rows[run][q] = rows[prior[run]][q]
      BY <1>3, <2>3 DEF CopyForward, Unchanged
    <3>3. ASSUME NEW r \in Runs, NEW p \in Paths
          PROVE  link'[r][p] = IF r = run /\ p = q THEN link[prior[run]][q] ELSE link[r][p]
      BY <3>2, <2>1, <1>t
    <3>4. IdentityIsNotOlder'
      <4> SUFFICES ASSUME NEW r \in Runs, NEW p \in Paths,
                          link'[r][p] # None, <<r, p>> \notin tainted'
                   PROVE  link'[r][p] >= rows[r][p]
        BY <2>1 DEF IdentityIsNotOlder
      <4>1. CASE r = run /\ p = q
        BY <3>1, <3>2, <3>3, <4>1 DEF IdentityInv, IdentityIsNotOlder
      <4>2. CASE ~(r = run /\ p = q)
        BY <3>2, <3>3, <4>2 DEF IdentityInv, IdentityIsNotOlder
      <4>3. QED BY <4>1, <4>2
    <3>5. QED BY <2>1, <3>4 DEF IdentityInv, VersionInv
  <2>4. QED BY <2>2, <2>3
<1>4. ASSUME NEW q \in Paths, Identify(q) PROVE IdentityInv'
  <2>1. UNCHANGED <<disk, newest, rows, tainted>> BY <1>4 DEF Identify, driveVars, runVars
  <2>2. latest \in Runs BY <1>4 DEF Identify, TypeOK, PointerType, Runs, None
  <2>3. ASSUME NEW r \in Runs, NEW p \in Paths
        PROVE  link'[r][p] = IF r = latest /\ p = q THEN newest[q] ELSE link[r][p]
    BY <1>4, <2>2, <1>t DEF Identify, IdentityInv, VersionInv
  <2>4. IdentityIsNotOlder'
    <3> SUFFICES ASSUME NEW r \in Runs, NEW p \in Paths,
                        link'[r][p] # None, <<r, p>> \notin tainted
                 PROVE  link'[r][p] >= rows[r][p]
      BY <2>1 DEF IdentityIsNotOlder
    <3>1. rows[r][p] <= newest[p] /\ rows[r][p] \in Int /\ newest[p] \in Nat
      BY <1>t, <1>n DEF IdentityInv, VersionInv
    <3>2. QED BY <2>3, <3>1 DEF IdentityInv, IdentityIsNotOlder
  <2>5. QED BY <2>1, <2>4 DEF IdentityInv, VersionInv
<1>5. CASE Prune
  <2>1. UNCHANGED <<disk, newest>> BY <1>5 DEF Prune, driveVars
  <2>2. CASE UNCHANGED <<rows, link, tainted>>
    BY <2>1, <2>2 DEF IdentityInv, VersionInv, IdentityIsNotOlder
  <2>3. CASE ~UNCHANGED <<rows, link, tainted>>
    <3>1. ASSUME NEW r \in Runs, NEW p \in Paths
          PROVE  /\ r \in plan => rows'[r][p] = 0 /\ link'[r][p] = 0
                 /\ r \notin plan => /\ rows'[r][p] = rows[r][p] /\ link'[r][p] = link[r][p]
                                     /\ <<r, p>> \in tainted' <=> <<r, p>> \in tainted
      BY <1>5, <2>3 DEF Prune, runVars, NoRows, None
    <3>2. \A r \in Runs, p \in Paths : rows'[r][p] <= newest[p]
      <4> TAKE r \in Runs, p \in Paths
      <4>1. rows[r][p] <= newest[p] /\ newest[p] \in Nat
        BY <1>t DEF IdentityInv, VersionInv
      <4>2. rows'[r][p] = 0 \/ rows'[r][p] = rows[r][p] BY <3>1
      <4>3. QED BY <4>1, <4>2
    <3>3. IdentityIsNotOlder'
      <4> SUFFICES ASSUME NEW r \in Runs, NEW p \in Paths,
                          link'[r][p] # None, <<r, p>> \notin tainted'
                   PROVE  link'[r][p] >= rows'[r][p]
        BY DEF IdentityIsNotOlder
      <4>1. r \notin plan BY <3>1 DEF None
      <4>2. QED BY <3>1, <4>1 DEF IdentityInv, IdentityIsNotOlder
    <3>4. QED BY <2>1, <3>2, <3>3 DEF IdentityInv, VersionInv
  <2>4. QED BY <2>2, <2>3
<1>6. CASE Purge
  <2>1. UNCHANGED <<disk, newest>> BY <1>6 DEF Purge, driveVars
  <2>2. \A r \in Runs, p \in Paths : rows'[r][p] = 0 /\ link'[r][p] = 0
    BY <1>6 DEF Purge, NoRows, None
  <2>3. QED BY <1>t, <2>1, <2>2 DEF IdentityInv, VersionInv, IdentityIsNotOlder, None
<1>7. CASE UNCHANGED <<disk, newest, rows, link, tainted>>
  BY <1>7 DEF IdentityInv, VersionInv, IdentityIsNotOlder
<1>8. QED
  <2>1. \/ UNCHANGED <<disk, newest, rows, link, tainted>> \/ Prune \/ Purge
        \/ \E p \in Paths : Write(p) \/ Delete(p) \/ Record(p) \/ CopyForward(p) \/ Identify(p)
    BY DEF Next, Scanner, Others, vars, driveVars, runVars, identityVars, Resume, Start, EndWalk,
           EndStatement, To, Classify, FindMissing, MarkStale, Publish, Refresh, Fail, Interrupt,
           Die, Decide, PlanPrune
  <2>2. QED BY <1>1, <1>2, <1>3, <1>4, <1>5, <1>6, <1>7, <2>1

\* An identity is older than its entry only where a resumed walk rewrote the
\* entry under it, or where it comes down from such an entry.
THEOREM IdentityNotOlder == Spec => []IdentityIsNotOlder
<1>1. Init => IdentityInv
  <2> SUFFICES ASSUME Init PROVE IdentityInv
    OBVIOUS
  <2>1. \A r \in Runs, p \in Paths : rows[r][p] = 0 /\ link[r][p] = 0
    BY DEF Init, NoRows, None
  <2>2. \A p \in Paths : disk[p] \in {None, newest[p]} /\ newest[p] \in Nat
    BY DEF Init, None
  <2>3. QED BY <2>1, <2>2 DEF IdentityInv, VersionInv, IdentityIsNotOlder, None
<1>2. TypeOK /\ IdentityInv /\ [Next]_vars => IdentityInv' BY IdentityStep
<1>3. IdentityInv => IdentityIsNotOlder BY DEF IdentityInv
<1>4. QED BY TypeCorrect, <1>1, <1>2, <1>3, PTL DEF Spec

---------------------------------------------------------------------------
(* Decisions on what a scan found changed or gone.  Unless it was deleted, a run
   at work is compared with the current inventory, whose entries do not change;
   before the stale decisions are marked every vanished path has its record.  *)

ComparedInv == AtWork /\ status[run] # Gone => prior[run] \in {None, latest}

MissingInv ==
    /\ pc = "stale" => todo = {}
    /\ pc \in {"missing", "stale"} /\ status[run] # Gone =>
         \A p \in Paths \ todo :
             rows[run][p] = None /\ rows[prior[run]][p] # None => p \in missing[run]

MarkedInv ==
    pc = "publish" /\ status[run] # Gone /\ prior[run] # None =>
        \A p \in Paths : <<prior[run], p>> \in decided \ (stale \cup late) =>
            rows[run][p] = rows[prior[run]][p]

MarkInv == ComparedInv /\ MissingInv /\ MarkedInv

\* The newest complete run is one.
LEMMA NewestUnique ==
    ASSUME TypeOK, CurrentInv, NEW q \in 0 .. MaxRuns, IsNewest(q, Complete)
    PROVE  q = latest
BY DEF CurrentInv, CurrentIsNewestComplete, IsNewest, TypeOK, PointerType, None

LEMMA MarkFrame ==
    ASSUME MarkInv,
           UNCHANGED <<status, prior, rows, missing, latest, decided, stale, late, pc, run, todo>>
    PROVE  MarkInv'
BY DEF MarkInv, ComparedInv, MissingInv, MarkedInv, AtWork

LEMMA MarkStep == TypeOK /\ CurrentInv /\ MarkInv /\ [Next]_vars => MarkInv'
<1> SUFFICES ASSUME TypeOK, CurrentInv, MarkInv, [Next]_vars PROVE MarkInv'
  OBVIOUS
<1>t. /\ status \in [Runs -> {Gone, "RUNNING", "INTERRUPTED", "COMPLETE"}]
      /\ prior \in [Runs -> 0 .. MaxRuns]
      /\ rows \in [Runs -> [Paths -> Unread .. MaxVersion]]
      /\ missing \in [Runs -> SUBSET Paths]
      /\ (AtWork => run \in Runs)
  BY DEF TypeOK, RunType, ScanType, AtWork
<1>1. ASSUME NEW r \in Runs, Resume(r) PROVE MarkInv'
  <2>1. PICK q \in 0 .. MaxRuns :
          IsNewest(q, Complete \ {r}) /\ prior' = [prior EXCEPT ![r] = q]
    BY <1>1 DEF Resume
  <2>2. Complete \ {r} = Complete BY <1>1 DEF Resume, Complete
  <2>3. q = latest BY <2>1, <2>2, NewestUnique
  <2>4. prior'[r] = latest BY <2>1, <2>3, <1>t
  <2>5. run' = r /\ pc' = "walk" /\ latest' = latest BY <1>1 DEF Resume, pointerVars
  <2>6. QED BY <2>4, <2>5 DEF MarkInv, ComparedInv, MissingInv, MarkedInv
<1>2. ASSUME NEW r \in Runs, NEW resume \in BOOLEAN, NEW incremental \in BOOLEAN,
             Start(r, resume, incremental)
      PROVE MarkInv'
  <2>1. PICK q \in 0 .. MaxRuns :
          /\ IsNewest(q, Complete)
          /\ prior' = [prior EXCEPT ![r] = IF incremental THEN q ELSE None]
    BY <1>2 DEF Start
  <2>2. q = latest BY <2>1, NewestUnique
  <2>3. prior'[r] \in {None, latest} BY <2>1, <2>2, <1>t
  <2>4. run' = r /\ pc' = "walk" /\ latest' = latest BY <1>2 DEF Start, pointerVars
  <2>5. QED BY <2>3, <2>4 DEF MarkInv, ComparedInv, MissingInv, MarkedInv
<1>3. ASSUME NEW q \in Paths, Record(q) \/ Classify(q) \/ CopyForward(q) PROVE MarkInv'
  <2>1. /\ pc \in {"walk", "classify", "copy"} /\ pc' = pc
        /\ UNCHANGED <<status, prior, latest, run>>
    BY <1>3 DEF Record, Classify, CopyForward, runVars, pointerVars
  <2>2. QED BY <2>1 DEF MarkInv, ComparedInv, MissingInv, MarkedInv, AtWork
<1>4. ASSUME NEW q \in Paths, FindMissing(q) PROVE MarkInv'
  <2>1. /\ pc = "missing" /\ pc' = pc /\ todo' = todo \ {q}
        /\ UNCHANGED <<status, prior, rows, latest, run>>
        /\ missing' = IF rows[run][q] = None /\ rows[prior[run]][q] # None
                      THEN [missing EXCEPT ![run] = @ \cup {q}] ELSE missing
    BY <1>4 DEF FindMissing, pointerVars
  <2>2. run \in Runs BY <1>t, <2>1 DEF AtWork
  <2>3. ASSUME NEW p \in Paths \ todo', status[run] # Gone,
               rows[run][p] = None, rows[prior[run]][p] # None
        PROVE  p \in missing'[run]
    <3>1. CASE p = q
      BY <1>t, <2>1, <2>2, <2>3, <3>1
    <3>2. CASE p # q
      <4>1. p \in missing[run] BY <2>1, <2>3, <3>2 DEF MarkInv, MissingInv
      <4>2. QED BY <1>t, <2>1, <2>2, <4>1
    <3>3. QED BY <3>1, <3>2
  <2>4. ComparedInv' /\ MarkedInv' BY <2>1 DEF MarkInv, ComparedInv, MarkedInv, AtWork
  <2>5. MissingInv' BY <2>1, <2>3 DEF MissingInv
  <2>6. QED BY <2>4, <2>5 DEF MarkInv
<1>5. CASE EndWalk
  <2>1. /\ pc = "walk" /\ UNCHANGED <<status, prior, latest, run>>
        /\ pc' = "classify" \/ (pc' = "publish" /\ prior[run] = None)
    BY <1>5 DEF EndWalk, To, pointerVars
  <2>2. QED BY <2>1 DEF MarkInv, ComparedInv, MissingInv, MarkedInv, AtWork
<1>6. CASE EndStatement
  <2>1. /\ AtWork /\ UNCHANGED <<status, prior, rows, missing, latest, run>>
        /\ \/ pc' = "copy"
           \/ pc' = "missing" /\ todo' = RowsOf(prior[run])
           \/ pc = "missing" /\ todo = {} /\ pc' = "stale" /\ todo' = {}
    BY <1>6 DEF EndStatement, To, pointerVars, AtWork
  <2>2. ComparedInv' /\ MarkedInv' BY <2>1 DEF MarkInv, ComparedInv, MarkedInv, AtWork
  <2>3. MissingInv' BY <2>1 DEF MarkInv, MissingInv, RowsOf
  <2>4. QED BY <2>2, <2>3 DEF MarkInv
<1>7. CASE MarkStale
  <2>1. /\ pc = "stale" /\ pc' = "publish" /\ todo = {} /\ late' = {}
        /\ UNCHANGED <<status, prior, rows, missing, latest, run, decided>>
        /\ stale' = stale \cup (decided \cap Outdated)
    BY <1>7 DEF MarkStale, MarkInv, MissingInv, runVars, pointerVars
  <2>2. ASSUME NEW p \in Paths, status[run] # Gone,
               <<prior[run], p>> \in decided \ stale'
        PROVE  rows[run][p] = rows[prior[run]][p]
    <3>1. <<prior[run], p>> \notin Outdated BY <2>1, <2>2
    <3>2. (p \notin RowsOf(run) \/ Unchanged(p)) /\ p \notin missing[run]
      BY <3>1 DEF Outdated
    <3>3. CASE p \notin RowsOf(run)
      BY <2>1, <2>2, <3>2, <3>3 DEF MarkInv, MissingInv, RowsOf
    <3>4. CASE Unchanged(p)
      BY <3>4 DEF Unchanged
    <3>5. QED BY <3>2, <3>3, <3>4
  <2>3. QED BY <2>1, <2>2 DEF MarkInv, ComparedInv, MissingInv, MarkedInv, AtWork
<1>8. CASE Publish
  BY <1>8 DEF Publish, MarkInv, ComparedInv, MissingInv, MarkedInv, AtWork
<1>9. CASE Refresh \/ Fail \/ Interrupt \/ Die
  BY <1>9 DEF Refresh, Fail, Interrupt, Die, Leave, MarkInv, ComparedInv, MissingInv, MarkedInv,
              AtWork
<1>10. ASSUME NEW p \in Paths, Write(p) \/ Delete(p) \/ Identify(p) PROVE MarkInv'
  BY <1>10, MarkFrame
  DEF Write, Delete, Identify, pointerVars, reviewVars, runVars, scanVars
<1>11. ASSUME NEW r \in Runs, NEW q \in Paths, Decide(r, q) PROVE MarkInv'
  <2>1. UNCHANGED <<status, prior, rows, missing, latest, pc, run, todo>>
    BY <1>11 DEF Decide, pointerVars, runVars, scanVars
  <2>2. pc = "publish" => decided' \ (stale' \cup late') \subseteq decided \ (stale \cup late)
    BY <1>11 DEF Decide
  <2>3. ComparedInv' /\ MissingInv' BY <2>1 DEF MarkInv, ComparedInv, MissingInv, AtWork
  <2>4. MarkedInv' BY <2>1, <2>2 DEF MarkInv, MarkedInv
  <2>5. QED BY <2>3, <2>4 DEF MarkInv
<1>12. CASE PlanPrune
  BY <1>12, MarkFrame DEF PlanPrune, pointerVars, reviewVars, runVars, scanVars
<1>13. CASE Prune
  <2>1. UNCHANGED <<latest, decided, stale, late, pc, run, todo, prior>>
    BY <1>13 DEF Prune, pointerVars, reviewVars, scanVars, runVars
  <2>2. CASE UNCHANGED <<status, rows, missing>>
    BY <2>1, <2>2, MarkFrame
  <2>3. CASE ~UNCHANGED <<status, rows, missing>> /\ AtWork /\ status'[run] # Gone
    <3>1. run \in Runs /\ run \notin plan BY <1>13, <1>t, <2>3 DEF Prune, runVars
    <3>2. status'[run] = status[run] /\ rows'[run] = rows[run]
      BY <1>13, <2>3, <3>1 DEF Prune, runVars
    <3>3. prior[run] \in {None, latest} BY <2>3, <3>2 DEF MarkInv, ComparedInv
    <3>4. ASSUME prior[run] # None
          PROVE  rows'[prior[run]] = rows[prior[run]] /\ missing'[run] = missing[run]
      <4>1. latest \in Complete /\ latest \in Known
        BY <3>3, <3>4
        DEF CurrentInv, CurrentIsNewestComplete, IsNewest, Complete, Known, Gone
      <4>2. latest \in Runs BY <4>1 DEF Complete
      <4>3. latest \notin plan BY <1>13, <2>3, <4>1 DEF Prune, Referenced, runVars
      <4>4. prior[run] = latest BY <3>3, <3>4
      <4>5. {run, prior[run]} \cap plan = {} BY <3>1, <4>3, <4>4
      <4>6. QED BY <1>13, <2>3, <3>1, <4>2, <4>3, <4>4, <4>5 DEF Prune, runVars
    <3>5. ComparedInv' BY <2>1, <3>3 DEF ComparedInv
    <3>6. MarkedInv' BY <2>1, <3>2, <3>4 DEF MarkInv, MarkedInv
    <3>7. pc \in {"missing", "stale"} => prior[run] # None BY DEF TypeOK, DiffType
    <3>8. MissingInv' BY <2>1, <3>2, <3>4, <3>7 DEF MarkInv, MissingInv
    <3>9. QED BY <3>5, <3>6, <3>8 DEF MarkInv
  <2>4. CASE ~AtWork \/ status'[run] = Gone
    BY <2>1, <2>4 DEF MarkInv, ComparedInv, MissingInv, MarkedInv, AtWork
  <2>5. QED BY <2>2, <2>3, <2>4
<1>14. CASE Purge
  <2>1. UNCHANGED <<pc, run, todo>> /\ (AtWork => status'[run] = Gone)
    BY <1>14, <1>t DEF Purge, scanVars
  <2>2. QED BY <2>1 DEF MarkInv, ComparedInv, MissingInv, MarkedInv, AtWork
<1>15. CASE UNCHANGED vars
  BY <1>15, MarkFrame DEF vars, pointerVars, reviewVars, runVars, scanVars
<1>16. QED
  BY <1>1, <1>2, <1>3, <1>4, <1>5, <1>6, <1>7, <1>8, <1>9, <1>10, <1>11, <1>12, <1>13,
     <1>14, <1>15
  DEF Next, Scanner, Others

\* A run becomes current with every decision on what it was compared with marked
\* stale where the file changed or vanished, those made after the marking apart.
THEOREM OutdatedAreStale == Spec => OutdatedDecisionsAreStale
<1>1. Init => MarkInv
  BY DEF Init, MarkInv, ComparedInv, MissingInv, MarkedInv, AtWork
<1>2. TypeOK /\ CurrentInv /\ MarkInv /\ [Next]_vars => MarkInv'
  BY MarkStep
<1>3. TypeOK /\ MarkInv /\ [Next]_vars =>
        [latest' # latest /\ latest' # None /\ prior[run] # None =>
           \A p \in Paths : <<prior[run], p>> \in decided \ (stale \cup late) =>
               rows[run][p] = rows[prior[run]][p]]_vars
  <2> SUFFICES ASSUME MarkInv, [Next]_vars, latest' # latest, latest' # None, prior[run] # None
               PROVE  \A p \in Paths : <<prior[run], p>> \in decided \ (stale \cup late) =>
                          rows[run][p] = rows[prior[run]][p]
    OBVIOUS
  <2>1. Publish
    BY DEF Next, Scanner, Others, vars, pointerVars, Resume, Start, Record, EndWalk, EndStatement,
           To, Classify, CopyForward, FindMissing, MarkStale, Refresh, Fail, Interrupt, Die,
           Write, Delete, Identify, Decide, PlanPrune, Prune, Purge
  <2>2. QED BY <2>1 DEF Publish, MarkInv, MarkedInv
<1>4. QED BY CurrentAlways, <1>1, <1>2, <1>3, PTL DEF Spec, OutdatedDecisionsAreStale

---------------------------------------------------------------------------
(* The records of changes.  They are made against the run that is current while
   the scan is at work, over several attempts if need be, and a run that is
   newer than every complete one is the only one an attempt goes on with.    *)

\* A deleted run has left nothing.
GoneInv == \A r \in Runs : status[r] = Gone =>
    \A p \in Paths : rows[r][p] = None /\ change[r][p] = "none" /\ p \notin missing[r]

\* The run at work is the newest there is; a complete run was compared with an older one.
NewestInv == AtWork /\ status[run] # Gone => \A r \in Known : r <= run
PriorInv == \A r \in Complete : prior[r] < r

\* What the diff says of a path that did not change after it.
What(old, new) ==
    IF new = Unread THEN "ERROR"
    ELSE IF old = None THEN "NEW" ELSE IF new = old THEN "UNCHANGED" ELSE "CHANGED"
Right(r, p) ==
    /\ change[r][p] # "none" => rows[r][p] # None /\ change[r][p] = What(rows[prior[r]][p], rows[r][p])
    /\ p \in missing[r] => rows[r][p] = None /\ rows[prior[r]][p] # None

\* A run that may still become complete: its records are right against the current run.
Live(r) == r \in Known /\ \A s \in Complete : s < r
LiveInv == \A r \in Runs : Live(r) => \A p \in Paths : Judged(r, p) =>
    prior[r] = latest /\ latest # None /\ (<<r, p>> \notin blurred => Right(r, p))

\* What the statements of the diff have reached so far.
Classified(p) == rows[run][p] # None => change[run][p] # "none"
Missed(p) == rows[run][p] = None /\ rows[prior[run]][p] # None => p \in missing[run]
SweepInv == AtWork /\ status[run] # Gone =>
    /\ pc = "classify" => \A p \in Paths \ todo : Classified(p)
    /\ pc \in {"copy", "missing", "stale"} => \A p \in Paths : Classified(p)
    /\ pc = "publish" /\ prior[run] # None => \A p \in Paths : Classified(p) /\ Missed(p)

\* A complete run's records are right and lack nothing.
Told(r, p) ==
    /\ Right(r, p)
    /\ rows[r][p] # None => change[r][p] # "none"
    /\ rows[r][p] = None /\ rows[prior[r]][p] # None => p \in missing[r]
ToldInv == \A r \in Complete : prior[r] \in Complete => \A p \in Paths : <<r, p>> \notin blurred => Told(r, p)

ChangeInv == GoneInv /\ NewestInv /\ PriorInv /\ LiveInv /\ SweepInv /\ ToldInv

LEMMA TypeFacts ==
    ASSUME TypeOK
    PROVE  /\ status \in [Runs -> {Gone, "RUNNING", "INTERRUPTED", "COMPLETE"}]
           /\ prior \in [Runs -> 0 .. MaxRuns]
           /\ rows \in [Runs -> [Paths -> Unread .. MaxVersion]]
           /\ change \in [Runs -> [Paths -> {"none", "ERROR", "NEW", "UNCHANGED", "CHANGED"}]]
           /\ missing \in [Runs -> SUBSET Paths]
           /\ (pc # "idle" => run \in Runs) /\ latest \in 0 .. MaxRuns
           /\ (pc \in {"classify", "copy", "missing", "stale"} => prior[run] # None)
BY DEF TypeOK, RunType, ScanType, PointerType, DiffType

\* What a deletion takes: a run and all it recorded, or nothing.
LEMMA Deletion ==
    ASSUME TypeOK, Prune \/ Purge, NEW r \in Runs
    PROVE  /\ pc' = pc /\ run' = run /\ todo' = todo /\ prior' = prior
           /\ \/ status'[r] = Gone /\ \A p \in Paths :
                    rows'[r][p] = None /\ change'[r][p] = "none" /\ p \notin missing'[r]
              \/ /\ status'[r] = status[r] /\ rows'[r] = rows[r] /\ change'[r] = change[r]
                 /\ \A p \in Paths : <<r, p>> \in blurred' <=> <<r, p>> \in blurred
                 /\ missing'[r] = missing[r]
                    \/ (missing'[r] = {} /\ prior[r] \in Runs /\ status'[prior[r]] = Gone)
<1>1. UNCHANGED <<pc, run, todo, prior>>
  BY DEF Prune, Purge, scanVars, runVars
<1>2. CASE Purge
  BY <1>1, <1>2 DEF Purge, NoRows
<1>3. CASE Prune /\ UNCHANGED runVars
  BY <1>1, <1>3 DEF runVars
<1>4. CASE Prune /\ ~UNCHANGED runVars
  <2>1. plan \subseteq Runs
    BY DEF TypeOK, BoundType
  <2>2. /\ status' = [s \in Runs |-> IF s \in plan THEN Gone ELSE status[s]]
        /\ rows' = [s \in Runs |-> IF s \in plan THEN NoRows ELSE rows[s]]
        /\ change' = [s \in Runs |-> IF s \in plan THEN [p \in Paths |-> "none"] ELSE change[s]]
        /\ missing' = [s \in Runs |-> IF {s, prior[s]} \cap plan # {} THEN {} ELSE missing[s]]
        /\ blurred' = {e \in blurred : e[1] \notin plan}
    BY <1>4 DEF Prune
  <2>3. CASE r \in plan
    BY <1>1, <2>2, <2>3 DEF NoRows
  <2>4. CASE r \notin plan
    <3>1. status'[r] = status[r] /\ rows'[r] = rows[r] /\ change'[r] = change[r]
      BY <2>2, <2>4
    <3>2. \A p \in Paths : <<r, p>> \in blurred' <=> <<r, p>> \in blurred
      BY <2>2, <2>4
    <3>3. missing'[r] = missing[r]
          \/ (missing'[r] = {} /\ prior[r] \in Runs /\ status'[prior[r]] = Gone)
      BY <2>1, <2>2, <2>4
    <3>4. QED BY <1>1, <3>1, <3>2, <3>3
  <2>5. QED BY <2>3, <2>4
<1>5. QED BY <1>2, <1>3, <1>4

LEMMA GoneStep == TypeOK /\ GoneInv /\ [Next]_vars => GoneInv'
<1> SUFFICES ASSUME TypeOK, GoneInv, [Next]_vars PROVE GoneInv'
  OBVIOUS
<1> USE TypeFacts
<1>1. CASE Prune \/ Purge
  BY <1>1, Deletion DEF GoneInv
<1>2. ASSUME NEW p \in Paths, Record(p) PROVE GoneInv'
  BY <1>2 DEF Record, GoneInv
<1>3. ASSUME NEW p \in Paths, Classify(p) PROVE GoneInv'
  BY <1>3 DEF Classify, GoneInv
<1>4. ASSUME NEW p \in Paths, FindMissing(p) PROVE GoneInv'
  BY <1>4 DEF FindMissing, GoneInv
<1>5. ASSUME NEW r \in Runs, NEW resume \in BOOLEAN, NEW incremental \in BOOLEAN,
             Start(r, resume, incremental)
      PROVE GoneInv'
  <2>1. UNCHANGED <<rows, change, missing>> /\ status' = [status EXCEPT ![r] = "RUNNING"]
    BY <1>5 DEF Start
  <2>2. QED BY <2>1 DEF GoneInv, Gone
<1>6. CASE Publish \/ Interrupt
  <2>1. UNCHANGED <<rows, change, missing>>
    BY <1>6 DEF Publish, Interrupt
  <2>2. \A r \in Runs : status'[r] = Gone => status[r] = Gone
    BY <1>6 DEF Publish, Interrupt, Gone
  <2>3. QED BY <2>1, <2>2 DEF GoneInv
<1>7. CASE UNCHANGED <<status, rows, change, missing>>
  BY <1>7 DEF GoneInv
<1>8. QED
  <2>1. \/ UNCHANGED <<status, rows, change, missing>> \/ Prune \/ Purge \/ Publish \/ Interrupt
        \/ \E p \in Paths : Record(p) \/ Classify(p) \/ FindMissing(p)
        \/ \E r \in Runs : \E resume, incremental \in BOOLEAN : Start(r, resume, incremental)
    BY DEF Next, Scanner, Others, vars, runVars, Resume, EndWalk, EndStatement, To, CopyForward,
           MarkStale, Refresh, Fail, Die, Write, Delete, Identify, Decide, PlanPrune
  <2>2. QED BY <1>1, <1>2, <1>3, <1>4, <1>5, <1>6, <1>7, <2>1

LEMMA NewestStep == TypeOK /\ NewestInv /\ [Next]_vars => NewestInv'
<1> SUFFICES ASSUME TypeOK, NewestInv, [Next]_vars PROVE NewestInv'
  OBVIOUS
<1> USE TypeFacts
<1>1. CASE Prune \/ Purge
  <2>1. pc' = pc /\ run' = run
    BY <1>1 DEF Prune, Purge, scanVars
  <2>2. \A r \in Runs : status'[r] # Gone => status[r] # Gone
    BY <1>1, Deletion
  <2>3. Known' \subseteq Known
    BY <2>2 DEF Known
  <2>4. AtWork => run \in Runs
    BY DEF AtWork
  <2>5. QED BY <2>1, <2>2, <2>3, <2>4 DEF NewestInv, AtWork
<1>2. ASSUME NEW r \in Runs, Resume(r) PROVE NewestInv'
  <2>1. run' = r /\ Known' = Known /\ IsNewest(r, Known)
    BY <1>2 DEF Resume, Known
  <2>2. \A s \in Known : s <= r
    BY <2>1 DEF IsNewest
  <2>3. QED BY <2>1, <2>2 DEF NewestInv
<1>3. ASSUME NEW r \in Runs, NEW resume \in BOOLEAN, NEW incremental \in BOOLEAN,
             Start(r, resume, incremental)
      PROVE NewestInv'
  <2>1. run' = r /\ Known' \subseteq Known \cup {r}
    BY <1>3 DEF Start, Known
  <2>2. \A s \in Known : s <= r
    <3>1. \A s \in Known : s <= r - 1 /\ s \in Runs
      BY <1>3 DEF Start, IsNewest, Known
    <3>2. QED BY <3>1 DEF Runs
  <2>3. QED BY <2>1, <2>2 DEF NewestInv, Runs
<1>4. CASE Publish \/ Interrupt
  <2>1. ~AtWork'
    BY <1>4 DEF Publish, Interrupt, Leave, AtWork
  <2>2. QED BY <2>1 DEF NewestInv
<1>5. CASE UNCHANGED status /\ (AtWork' => AtWork /\ run' = run)
  BY <1>5 DEF NewestInv, Known
<1>6. QED
  <2>1. \/ UNCHANGED status /\ (AtWork' => AtWork /\ run' = run)
        \/ Prune \/ Purge \/ Publish \/ Interrupt
        \/ \E r \in Runs : Resume(r) \/ \E resume, incremental \in BOOLEAN : Start(r, resume, incremental)
    BY DEF Next, Scanner, Others, vars, runVars, scanVars, Record, Classify, FindMissing, EndWalk,
           EndStatement, To, CopyForward, MarkStale, Refresh, Fail, Die, Leave, Write, Delete, Identify,
           Decide, PlanPrune, AtWork
  <2>2. QED BY <1>1, <1>2, <1>3, <1>4, <1>5, <2>1

LEMMA PriorStep == TypeOK /\ CurrentInv /\ MarkInv /\ PriorInv /\ [Next]_vars => PriorInv'
<1> SUFFICES ASSUME TypeOK, CurrentInv, MarkInv, PriorInv, [Next]_vars PROVE PriorInv'
  OBVIOUS
<1> USE TypeFacts
<1>1. CASE Prune \/ Purge
  <2>1. Complete' \subseteq Complete /\ prior' = prior
    BY <1>1, Deletion DEF Complete, Gone, Prune, Purge, runVars
  <2>2. QED BY <2>1 DEF PriorInv
<1>2. ASSUME NEW r \in Runs, Resume(r) PROVE PriorInv'
  <2>1. Complete' = Complete /\ r \notin Complete /\ \A s \in Runs \ {r} : prior'[s] = prior[s]
    BY <1>2 DEF Resume, Complete
  <2>2. QED BY <2>1 DEF PriorInv, Complete
<1>3. ASSUME NEW r \in Runs, NEW resume \in BOOLEAN, NEW incremental \in BOOLEAN,
             Start(r, resume, incremental)
      PROVE PriorInv'
  <2>1. Complete' \subseteq Complete \ {r} /\ \A s \in Runs \ {r} : prior'[s] = prior[s]
    BY <1>3 DEF Start, Complete
  <2>2. QED BY <2>1 DEF PriorInv, Complete
<1>4. CASE Publish
  <2>1. Complete' \subseteq Complete \cup {run} /\ prior' = prior /\ run \in Runs
    BY <1>4 DEF Publish, Complete
  <2>2. prior[run] < run
    <3>1. prior[run] \in {None, latest} /\ AtWork
      BY <1>4 DEF Publish, MarkInv, ComparedInv, AtWork
    <3>2. latest # None => latest \in Complete
      BY DEF CurrentInv, CurrentIsNewestComplete, IsNewest
    <3>3. latest < run
      BY <2>1, <3>1, <3>2 DEF CurrentInv, None, Runs
    <3>4. QED BY <2>1, <3>1, <3>3 DEF None, Runs
  <2>3. QED BY <2>1, <2>2 DEF PriorInv
<1>5. CASE Interrupt
  <2>1. Complete' \subseteq Complete /\ prior' = prior
    BY <1>5 DEF Interrupt, Complete
  <2>2. QED BY <2>1 DEF PriorInv
<1>6. CASE UNCHANGED <<status, prior>>
  BY <1>6 DEF PriorInv, Complete
<1>7. QED
  <2>1. \/ UNCHANGED <<status, prior>> \/ Prune \/ Purge \/ Publish \/ Interrupt
        \/ \E r \in Runs : Resume(r) \/ \E resume, incremental \in BOOLEAN : Start(r, resume, incremental)
    BY DEF Next, Scanner, Others, vars, runVars, Record, Classify, FindMissing, EndWalk,
           EndStatement, To, CopyForward, MarkStale, Refresh, Fail, Die, Write, Delete, Identify,
           Decide, PlanPrune
  <2>2. QED BY <1>1, <1>2, <1>3, <1>4, <1>5, <1>6, <2>1

\* The run a scan at work is compared with outlives a deletion that spares a run.
LEMMA CurrentOutlives ==
    ASSUME TypeOK, CurrentInv, Prune \/ Purge, NEW r \in Runs, status'[r] # Gone, latest # None
    PROVE  /\ latest \in Complete /\ latest' = latest /\ latest \in Runs
           /\ status'[latest] = status[latest] /\ rows'[latest] = rows[latest]
<1>1. Prune
  BY DEF Purge
<1>2. latest' = latest
  BY <1>1 DEF Prune, pointerVars
<1>3. QED BY <1>1, <1>2, PruneKeepsCurrent DEF CurrentInv, Complete

LEMMA SweepStep ==
    TypeOK /\ CurrentInv /\ MarkInv /\ SweepInv /\ [Next]_vars => SweepInv'
<1> SUFFICES ASSUME TypeOK, CurrentInv, MarkInv, SweepInv, [Next]_vars PROVE SweepInv'
  OBVIOUS
<1>t. /\ change \in [Runs -> [Paths -> {"none", "ERROR", "NEW", "UNCHANGED", "CHANGED"}]]
      /\ (AtWork => run \in Runs)
  BY TypeFacts DEF AtWork
<1>1. CASE pc' \in {"idle", "walk", "refresh"}
  BY <1>1 DEF SweepInv, AtWork
<1>2. ASSUME NEW q \in Paths, Classify(q) PROVE SweepInv'
  <2>1. /\ pc = "classify" /\ pc' = pc /\ todo' = todo \ {q} /\ AtWork
        /\ UNCHANGED <<status, prior, rows, missing, run>>
        /\ change' = change \/ change' = [change EXCEPT ![run][q] = What(rows[prior[run]][q], rows[run][q])]
        /\ rows[run][q] # None => change[run][q] # "none"
             \/ change' = [change EXCEPT ![run][q] = What(rows[prior[run]][q], rows[run][q])]
    BY <1>2 DEF Classify, ChangeStatus, StatusIfRead, Unchanged, What, AtWork
  <2>2. What(rows[prior[run]][q], rows[run][q]) # "none"
    BY DEF What
  <2>3. \A p \in Paths : change[run][p] # "none" => change'[run][p] # "none"
    BY <1>t, <2>1, <2>2
  <2>4. rows[run][q] # None => change'[run][q] # "none"
    BY <1>t, <2>1, <2>2
  <2>5. QED BY <2>1, <2>3, <2>4 DEF SweepInv, Classified
<1>3. ASSUME NEW q \in Paths, CopyForward(q) \/ FindMissing(q) PROVE SweepInv'
  <2>1. pc \in {"copy", "missing"} /\ pc' = pc /\ UNCHANGED <<status, prior, rows, change, run>>
    BY <1>3 DEF CopyForward, FindMissing, runVars
  <2>2. QED BY <2>1 DEF SweepInv, Classified, AtWork
<1>4. CASE EndWalk
  <2>1. /\ UNCHANGED <<status, prior, rows, change, run>>
        /\ (pc' = "classify" /\ todo' = RowsOf(run)) \/ (pc' = "publish" /\ prior[run] = None)
    BY <1>4 DEF EndWalk, To
  <2>2. QED BY <2>1 DEF SweepInv, Classified, RowsOf
<1>5. CASE EndStatement
  <2>1. /\ UNCHANGED <<status, prior, rows, change, run>> /\ todo = {}
        /\ pc \in {"classify", "copy", "missing"} /\ pc' \in {"copy", "missing", "stale"}
    BY <1>5 DEF EndStatement, To
  <2>2. QED BY <2>1 DEF SweepInv, Classified, AtWork
<1>6. CASE MarkStale
  <2>1. UNCHANGED <<status, prior, rows, change, missing, run>> /\ pc = "stale" /\ pc' = "publish"
    BY <1>6 DEF MarkStale, runVars
  <2>2. status[run] # Gone => todo = {} /\ \A p \in Paths : Classified(p) /\ Missed(p)
    BY <2>1 DEF SweepInv, MarkInv, MissingInv, Missed, AtWork
  <2>3. QED BY <2>1, <2>2 DEF SweepInv, Classified, Missed
<1>7. CASE Prune \/ Purge
  <2>1. pc' = pc /\ run' = run /\ todo' = todo /\ prior' = prior
    BY <1>7 DEF Prune, Purge, scanVars, runVars
  <2>2. SUFFICES ASSUME AtWork, status'[run] # Gone PROVE SweepInv'
    BY <2>1 DEF SweepInv, AtWork
  <2>3. /\ status'[run] = status[run] /\ rows'[run] = rows[run] /\ change'[run] = change[run]
        /\ missing'[run] = missing[run] \/ (prior[run] \in Runs /\ status'[prior[run]] = Gone)
    BY <1>7, <1>t, <2>2, Deletion
  <2>4. prior[run] # None => rows'[prior[run]] = rows[prior[run]] /\ missing'[run] = missing[run]
    <3>1. SUFFICES ASSUME prior[run] # None
                   PROVE  rows'[prior[run]] = rows[prior[run]] /\ missing'[run] = missing[run]
      OBVIOUS
    <3>2. prior[run] = latest /\ latest # None
      BY <2>2, <2>3, <3>1 DEF MarkInv, ComparedInv
    <3>3. latest \in Complete /\ status'[latest] = status[latest] /\ rows'[latest] = rows[latest]
      BY <1>7, <1>t, <2>2, <3>2, CurrentOutlives
    <3>4. status[latest] = "COMPLETE"
      BY <3>3 DEF Complete
    <3>5. QED BY <2>3, <3>2, <3>3, <3>4 DEF Gone
  <2>5. QED BY <2>1, <2>2, <2>3, <2>4 DEF SweepInv, Classified, Missed
<1>8. CASE UNCHANGED <<status, prior, rows, change, missing, pc, run, todo>>
  BY <1>8 DEF SweepInv, Classified, Missed, AtWork
<1>9. QED
  <2>1. \/ UNCHANGED <<status, prior, rows, change, missing, pc, run, todo>>
        \/ pc' \in {"idle", "walk", "refresh"} \/ Prune \/ Purge \/ EndWalk \/ EndStatement \/ MarkStale
        \/ \E p \in Paths : Classify(p) \/ CopyForward(p) \/ FindMissing(p)
    BY DEF Next, Scanner, Others, vars, runVars, scanVars, Resume, Start, Record, Publish, Interrupt,
           Refresh, Fail, Die, Leave, Write, Delete, Identify, Decide, PlanPrune
  <2>2. QED BY <1>1, <1>2, <1>3, <1>4, <1>5, <1>6, <1>7, <1>8, <2>1

LEMMA RightStays ==
    ASSUME NEW r, NEW p, Right(r, p), prior'[r] = prior[r], rows'[r][p] = rows[r][p],
           change'[r][p] = change[r][p], p \in missing'[r] => p \in missing[r],
           rows'[prior[r]][p] = rows[prior[r]][p]
    PROVE  Right(r, p)'
BY DEF Right

\* A scan at work writes about its own run only, which is none of the complete ones.
LEMMA WritesOwn ==
    ASSUME TypeOK, CurrentInv, NEW q \in Paths, Record(q) \/ Classify(q) \/ FindMissing(q)
    PROVE  /\ AtWork /\ run \in Runs /\ run \notin Complete /\ run # latest
           /\ UNCHANGED <<status, prior, latest>>
           /\ \A r \in Runs \ {run} : /\ rows'[r] = rows[r] /\ change'[r] = change[r] /\ missing'[r] = missing[r]
                                      /\ \A p \in Paths : <<r, p>> \in blurred' <=> <<r, p>> \in blurred
           /\ \A p \in Paths \ {q} : /\ rows'[run][p] = rows[run][p] /\ change'[run][p] = change[run][p]
                                     /\ p \in missing'[run] <=> p \in missing[run]
                                     /\ <<run, p>> \in blurred' <=> <<run, p>> \in blurred
<1>1. AtWork /\ run \in Runs
  BY TypeFacts DEF AtWork, Record, Classify, FindMissing
<1>2. run \notin Complete
  BY <1>1 DEF CurrentInv, Runs
<1>3. run # latest
  BY <1>1, <1>2 DEF CurrentInv, CurrentIsNewestComplete, IsNewest, Runs, None
<1>4. UNCHANGED <<status, prior, latest>>
  BY DEF Record, Classify, FindMissing, pointerVars
<1>5. blurred' \in {blurred, blurred \cup {<<run, q>>}}
  BY DEF Record, Classify, FindMissing
<1>6. rows' = rows \/ \E v : rows' = [rows EXCEPT ![run][q] = v]
  BY DEF Record, Classify, FindMissing
<1>7. change' = change \/ \E c : change' = [change EXCEPT ![run][q] = c]
  BY DEF Record, Classify, FindMissing
<1>8. missing' = missing \/ missing' = [missing EXCEPT ![run] = @ \cup {q}]
  BY DEF Record, Classify, FindMissing
<1>9. \A r \in Runs \ {run} : rows'[r] = rows[r] /\ change'[r] = change[r] /\ missing'[r] = missing[r]
  BY <1>1, <1>6, <1>7, <1>8, TypeFacts
<1>10. \A p \in Paths \ {q} : /\ rows'[run][p] = rows[run][p] /\ change'[run][p] = change[run][p]
                              /\ p \in missing'[run] <=> p \in missing[run]
  BY <1>1, <1>6, <1>7, <1>8, TypeFacts
<1>11. QED BY <1>1, <1>2, <1>3, <1>4, <1>5, <1>9, <1>10

LEMMA LiveFrame ==
    ASSUME TypeOK, LiveInv, latest' = latest, NEW r \in Runs, Live(r)' => Live(r),
           rows'[r] = rows[r], change'[r] = change[r], missing'[r] = missing[r],
           \A p \in Paths : <<r, p>> \in blurred' <=> <<r, p>> \in blurred,
           prior'[r] = prior[r] \/ prior'[r] = latest,
           latest # None => rows'[latest] = rows[latest]
    PROVE  Live(r)' => \A p \in Paths : Judged(r, p)' =>
               prior'[r] = latest' /\ latest' # None /\ (<<r, p>> \notin blurred' => Right(r, p)')
<1> SUFFICES ASSUME Live(r)', NEW p \in Paths, Judged(r, p)'
             PROVE  prior'[r] = latest' /\ latest' # None /\ (<<r, p>> \notin blurred' => Right(r, p)')
  OBVIOUS
<1>1. Judged(r, p)
  BY DEF Judged
<1>2. prior[r] = latest /\ latest # None /\ (<<r, p>> \notin blurred => Right(r, p))
  BY <1>1 DEF LiveInv
<1>3. prior'[r] = prior[r] /\ rows'[prior[r]][p] = rows[prior[r]][p]
  BY <1>2
<1>4. QED BY <1>2, <1>3, RightStays

LEMMA LiveStep ==
    TypeOK /\ CurrentInv /\ MarkInv /\ GoneInv /\ NewestInv /\ LiveInv /\ [Next]_vars => LiveInv'
<1> SUFFICES ASSUME TypeOK, CurrentInv, MarkInv, GoneInv, NewestInv, LiveInv, [Next]_vars PROVE LiveInv'
  OBVIOUS
<1>t. /\ status \in [Runs -> {Gone, "RUNNING", "INTERRUPTED", "COMPLETE"}]
      /\ prior \in [Runs -> 0 .. MaxRuns] /\ rows \in [Runs -> [Paths -> Unread .. MaxVersion]]
      /\ change \in [Runs -> [Paths -> {"none", "ERROR", "NEW", "UNCHANGED", "CHANGED"}]]
      /\ missing \in [Runs -> SUBSET Paths]
  BY TypeFacts
<1>l. latest # None => latest \in Complete /\ latest \in Runs
  BY DEF CurrentInv, CurrentIsNewestComplete, IsNewest, Complete
<1>1. ASSUME NEW q \in Paths, Record(q) \/ Classify(q) \/ FindMissing(q) PROVE LiveInv'
  <2>1. /\ AtWork /\ run \in Runs /\ run \notin Complete /\ run # latest
        /\ UNCHANGED <<status, prior, latest>>
        /\ \A r \in Runs \ {run} : /\ rows'[r] = rows[r] /\ change'[r] = change[r] /\ missing'[r] = missing[r]
                                   /\ \A p \in Paths : <<r, p>> \in blurred' <=> <<r, p>> \in blurred
        /\ \A p \in Paths \ {q} : /\ rows'[run][p] = rows[run][p] /\ change'[run][p] = change[run][p]
                                  /\ p \in missing'[run] <=> p \in missing[run]
                                  /\ <<run, p>> \in blurred' <=> <<run, p>> \in blurred
    BY <1>1, WritesOwn
  <2>2. Complete' = Complete /\ Known' = Known /\ (latest # None => rows'[latest] = rows[latest])
    BY <1>l, <2>1 DEF Complete, Known
  <2>3. \A r \in Runs : Live(r)' => Live(r)
    BY <2>2 DEF Live
  <2>4. ASSUME NEW r \in Runs, Live(r)', NEW p \in Paths, Judged(r, p)'
        PROVE  prior'[r] = latest' /\ latest' # None /\ (<<r, p>> \notin blurred' => Right(r, p)')
    <3>1. CASE r # run
      BY <2>1, <2>2, <2>3, <2>4, <3>1, LiveFrame
    <3>2. CASE r = run /\ p # q
      <4>1. Judged(r, p)
        BY <2>1, <2>4, <3>2 DEF Judged
      <4>2. prior[r] = latest /\ latest # None /\ (<<r, p>> \notin blurred => Right(r, p))
        BY <2>3, <2>4, <4>1 DEF LiveInv
      <4>3. rows'[prior[r]][p] = rows[prior[r]][p] /\ prior'[r] = prior[r] /\ latest' = latest
        BY <2>1, <2>2, <4>2
      <4>4. QED BY <2>1, <3>2, <4>2, <4>3, RightStays
    <3>3. CASE r = run /\ p = q /\ Record(q)
      <4>1. UNCHANGED <<change, missing>>
        BY <3>3 DEF Record
      <4>2. Judged(r, p)
        BY <2>4, <4>1 DEF Judged
      <4>3. prior[r] = latest /\ latest # None /\ (<<r, p>> \notin blurred => Right(r, p))
        BY <2>3, <2>4, <4>2 DEF LiveInv
      <4>4. <<r, p>> \notin blurred' => rows' = rows /\ <<r, p>> \notin blurred
        BY <3>3, <4>2 DEF Record
      <4>5. QED BY <2>1, <4>1, <4>3, <4>4, RightStays
    <3>4. CASE r = run /\ p = q /\ Classify(q)
      <4>1. UNCHANGED <<rows, missing, blurred>> /\ status[run] # Gone /\ pc = "classify"
        BY <2>1, <2>3, <2>4, <3>4 DEF Classify, Live, Known
      <4>2. prior[run] # None /\ prior[run] = latest
        BY <2>1, <4>1, TypeFacts DEF MarkInv, ComparedInv
      <4>3. CASE change' = change
        <5>1. Judged(r, p)
          BY <2>4, <4>1, <4>3 DEF Judged
        <5>2. prior[r] = latest /\ latest # None /\ (<<r, p>> \notin blurred => Right(r, p))
          BY <2>3, <2>4, <5>1 DEF LiveInv
        <5>3. QED BY <2>1, <4>1, <4>3, <5>2, RightStays
      <4>4. CASE change' # change
        <5>1. /\ change[run][q] = "none" /\ rows[run][q] # None
              /\ change' = [change EXCEPT ![run][q] = What(rows[prior[run]][q], rows[run][q])]
          BY <3>4, <4>4 DEF Classify, ChangeStatus, StatusIfRead, Unchanged, What
        <5>2. change'[r][p] = What(rows[prior[run]][q], rows[run][q])
          BY <1>t, <2>1, <3>4, <5>1
        <5>3. <<r, p>> \notin blurred => p \notin missing[r]
          <6>1. p \in missing[r] => Judged(r, p)
            BY DEF Judged
          <6>2. p \in missing[r] /\ <<r, p>> \notin blurred => Right(r, p)
            BY <2>3, <2>4, <6>1 DEF LiveInv
          <6>3. QED BY <3>4, <5>1, <6>2 DEF Right
        <5>4. <<r, p>> \notin blurred' => Right(r, p)'
          BY <2>1, <3>4, <4>1, <5>1, <5>2, <5>3 DEF Right
        <5>5. QED BY <2>1, <3>4, <4>2, <5>4
      <4>5. QED BY <4>3, <4>4
    <3>5. CASE r = run /\ p = q /\ FindMissing(q)
      <4>1. UNCHANGED <<rows, change, blurred>> /\ status[run] # Gone /\ pc = "missing"
        BY <2>1, <2>3, <2>4, <3>5 DEF FindMissing, Live, Known
      <4>2. prior[run] # None /\ prior[run] = latest
        BY <2>1, <4>1, TypeFacts DEF MarkInv, ComparedInv
      <4>3. CASE missing' = missing
        <5>1. Judged(r, p)
          BY <2>4, <4>1, <4>3 DEF Judged
        <5>2. prior[r] = latest /\ latest # None /\ (<<r, p>> \notin blurred => Right(r, p))
          BY <2>3, <2>4, <5>1 DEF LiveInv
        <5>3. QED BY <2>1, <4>1, <4>3, <5>2, RightStays
      <4>4. CASE missing' # missing
        <5>1. rows[run][q] = None /\ rows[prior[run]][q] # None
          BY <3>5, <4>4 DEF FindMissing
        <5>2. <<r, p>> \notin blurred => change[r][p] = "none"
          <6>1. change[r][p] # "none" => Judged(r, p)
            BY DEF Judged
          <6>2. change[r][p] # "none" /\ <<r, p>> \notin blurred => Right(r, p)
            BY <2>3, <2>4, <6>1 DEF LiveInv
          <6>3. QED BY <3>5, <5>1, <6>2 DEF Right
        <5>3. <<r, p>> \notin blurred' => Right(r, p)'
          BY <2>1, <3>5, <4>1, <5>1, <5>2 DEF Right
        <5>4. QED BY <2>1, <3>5, <4>2, <5>3
      <4>5. QED BY <4>3, <4>4
    <3>6. QED BY <1>1, <3>1, <3>2, <3>3, <3>4, <3>5
  <2>5. QED BY <2>4 DEF LiveInv
<1>2. ASSUME NEW s \in Runs, Resume(s) PROVE LiveInv'
  <2>1. /\ UNCHANGED <<status, rows, change, missing, blurred, latest>>
        /\ \A r \in Runs : prior'[r] = prior[r] \/ prior'[r] = latest
    <3>1. PICK q \in 0 .. MaxRuns : IsNewest(q, Complete \ {s}) /\ prior' = [prior EXCEPT ![s] = q]
      BY <1>2 DEF Resume
    <3>2. Complete \ {s} = Complete
      BY <1>2 DEF Resume, Complete
    <3>3. q = latest
      BY <3>1, <3>2, NewestUnique
    <3>4. QED BY <1>2, <1>t, <3>1, <3>3 DEF Resume, pointerVars
  <2>2. \A r \in Runs : Live(r)' => Live(r)
    BY <2>1 DEF Live, Known, Complete
  <2>3. QED BY <2>1, <2>2, LiveFrame DEF LiveInv
<1>3. ASSUME NEW s \in Runs, NEW resume \in BOOLEAN, NEW incremental \in BOOLEAN,
             Start(s, resume, incremental)
      PROVE LiveInv'
  <2>1. /\ UNCHANGED <<rows, change, missing, blurred, latest>> /\ status' = [status EXCEPT ![s] = "RUNNING"]
        /\ \A r \in Runs \ {s} : prior'[r] = prior[r]
    BY <1>3, <1>t DEF Start, pointerVars
  <2>2. s \notin Known
    BY <1>3 DEF Start, IsNewest, Known, Runs, None
  <2>3. s \notin Complete /\ status[s] = Gone
    BY <2>2 DEF Complete, Known, Gone
  <2>4. Complete' = Complete
    BY <1>t, <2>1, <2>3 DEF Complete
  <2>5. \A r \in Runs \ {s} : Live(r)' => Live(r)
    BY <1>t, <2>1, <2>4 DEF Live, Known
  <2>6. \A p \in Paths : ~Judged(s, p)'
    BY <2>1, <2>3 DEF GoneInv, Judged
  <2>7. ASSUME NEW r \in Runs, r # s
        PROVE  Live(r)' => \A p \in Paths : Judged(r, p)' =>
                  prior'[r] = latest' /\ latest' # None /\ (<<r, p>> \notin blurred' => Right(r, p)')
    BY <2>1, <2>5, <2>7, LiveFrame
  <2>8. QED BY <2>6, <2>7 DEF LiveInv
<1>4. CASE Publish
  <2>1. run \in Runs /\ status[run] # Gone /\ status' = [status EXCEPT ![run] = "COMPLETE"] /\ AtWork
    BY <1>4, TypeFacts DEF Publish, AtWork
  <2>2. run \in Complete' /\ Known' \subseteq Known
    BY <1>t, <2>1 DEF Complete, Known, Gone
  <2>3. ASSUME NEW r \in Runs PROVE ~Live(r)'
    <3>1. SUFFICES ASSUME Live(r)' PROVE FALSE
      OBVIOUS
    <3>2. r \in Known /\ run < r
      BY <2>2, <3>1 DEF Live
    <3>3. r <= run
      BY <2>1, <3>2 DEF NewestInv
    <3>4. QED BY <2>1, <3>2, <3>3 DEF Runs
  <2>4. QED BY <2>3 DEF LiveInv
<1>5. CASE Interrupt
  <2>1. UNCHANGED <<rows, change, missing, blurred, latest, prior>>
    BY <1>5 DEF Interrupt, pointerVars
  <2>2. run \in Runs /\ run \notin Complete
    BY <1>5, TypeFacts DEF Interrupt, CurrentInv, AtWork, Runs
  <2>3. Complete' = Complete /\ Known' \subseteq Known
    BY <1>5, <1>t, <2>2 DEF Interrupt, Complete, Known, Gone
  <2>4. \A r \in Runs : Live(r)' => Live(r)
    BY <2>3 DEF Live
  <2>5. QED BY <2>1, <2>4, LiveFrame DEF LiveInv
<1>6. CASE Prune \/ Purge
  <2>1. ASSUME NEW r \in Runs, Live(r)', NEW p \in Paths, Judged(r, p)'
        PROVE  prior'[r] = latest' /\ latest' # None /\ (<<r, p>> \notin blurred' => Right(r, p)')
    <3>1. status'[r] # Gone
      BY <2>1 DEF Live, Known
    <3>2. /\ status'[r] = status[r] /\ rows'[r] = rows[r] /\ change'[r] = change[r] /\ prior' = prior
          /\ \A x \in Paths : <<r, x>> \in blurred' <=> <<r, x>> \in blurred
          /\ missing'[r] = missing[r]
             \/ (missing'[r] = {} /\ prior[r] \in Runs /\ status'[prior[r]] = Gone)
      BY <1>6, <3>1, Deletion
    <3>3. latest # None => /\ latest \in Complete /\ latest' = latest /\ latest \in Runs
                           /\ status'[latest] = status[latest] /\ rows'[latest] = rows[latest]
      BY <1>6, <3>1, CurrentOutlives
    <3>4. Live(r)
      <4>1. r \in Known
        BY <3>1, <3>2 DEF Known
      <4>2. ASSUME NEW s \in Complete PROVE s < r
        <5>0. latest \in Complete /\ s <= latest
          BY DEF CurrentInv, CurrentIsNewestComplete, IsNewest
        <5>1. latest # None /\ s <= latest
          BY <5>0 DEF Complete, Runs, None
        <5>2. latest \in Complete' /\ latest \in Runs
          BY <3>3, <5>1 DEF Complete
        <5>3. latest < r
          BY <2>1, <5>2 DEF Live
        <5>4. QED BY <5>1, <5>2, <5>3 DEF Complete, Runs
      <4>3. QED BY <4>1, <4>2 DEF Live
    <3>5. Judged(r, p)
      BY <2>1, <3>2 DEF Judged
    <3>6. prior[r] = latest /\ latest # None /\ (<<r, p>> \notin blurred => Right(r, p))
      BY <3>4, <3>5 DEF LiveInv
    <3>7. p \in missing'[r] => p \in missing[r]
      BY <3>2
    <3>8. QED BY <3>2, <3>3, <3>6, <3>7, RightStays
  <2>2. QED BY <2>1 DEF LiveInv
<1>7. CASE UNCHANGED <<status, prior, rows, change, missing, blurred, latest>>
  BY <1>7 DEF LiveInv, Live, Known, Complete, Judged, Right
<1>8. QED
  <2>1. \/ UNCHANGED <<status, prior, rows, change, missing, blurred, latest>>
        \/ Prune \/ Purge \/ Publish \/ Interrupt
        \/ \E p \in Paths : Record(p) \/ Classify(p) \/ FindMissing(p)
        \/ \E r \in Runs : Resume(r) \/ \E resume, incremental \in BOOLEAN : Start(r, resume, incremental)
    BY DEF Next, Scanner, Others, vars, runVars, pointerVars, EndWalk, EndStatement, To, CopyForward,
           MarkStale, Refresh, Fail, Die, Write, Delete, Identify, Decide, PlanPrune
  <2>2. QED BY <1>1, <1>2, <1>3, <1>4, <1>5, <1>6, <1>7, <2>1

LEMMA ToldStays ==
    ASSUME NEW r, NEW p, Told(r, p), prior'[r] = prior[r], rows'[r][p] = rows[r][p],
           change'[r][p] = change[r][p], p \in missing'[r] <=> p \in missing[r],
           rows'[prior[r]][p] = rows[prior[r]][p]
    PROVE  Told(r, p)'
BY DEF Told, Right

LEMMA ToldFrame ==
    ASSUME ToldInv, NEW r \in Runs, r \in Complete, prior[r] \in Complete, prior'[r] = prior[r],
           rows'[r] = rows[r], change'[r] = change[r], missing'[r] = missing[r],
           rows'[prior[r]] = rows[prior[r]],
           \A p \in Paths : <<r, p>> \in blurred' <=> <<r, p>> \in blurred
    PROVE  \A p \in Paths : <<r, p>> \notin blurred' => Told(r, p)'
<1> SUFFICES ASSUME NEW p \in Paths, <<r, p>> \notin blurred' PROVE Told(r, p)'
  OBVIOUS
<1>1. Told(r, p)
  BY DEF ToldInv
<1>2. QED BY <1>1, ToldStays

LEMMA ToldStep ==
    TypeOK /\ CurrentInv /\ MarkInv /\ PriorInv /\ LiveInv /\ SweepInv /\ ToldInv /\ [Next]_vars => ToldInv'
<1> SUFFICES ASSUME TypeOK, CurrentInv, MarkInv, PriorInv, LiveInv, SweepInv, ToldInv, [Next]_vars,
                    NEW r \in Runs, r \in Complete', prior'[r] \in Complete'
             PROVE  \A p \in Paths : <<r, p>> \notin blurred' => Told(r, p)'
  BY DEF ToldInv, Complete
<1>t. status \in [Runs -> {Gone, "RUNNING", "INTERRUPTED", "COMPLETE"}] /\ prior \in [Runs -> 0 .. MaxRuns]
  BY TypeFacts
<1>1. ASSUME NEW q \in Paths, Record(q) \/ Classify(q) \/ FindMissing(q)
      PROVE  \A p \in Paths : <<r, p>> \notin blurred' => Told(r, p)'
  <2>1. /\ run \notin Complete /\ UNCHANGED <<status, prior>>
        /\ \A s \in Runs \ {run} : /\ rows'[s] = rows[s] /\ change'[s] = change[s] /\ missing'[s] = missing[s]
                                   /\ \A p \in Paths : <<s, p>> \in blurred' <=> <<s, p>> \in blurred
    BY <1>1, WritesOwn
  <2>2. r \in Complete /\ prior[r] \in Complete
    BY <2>1 DEF Complete
  <2>3. r \in Runs \ {run} /\ prior[r] \in Runs \ {run}
    BY <2>1, <2>2 DEF Complete
  <2>4. QED BY <2>1, <2>2, <2>3, ToldFrame
<1>2. ASSUME NEW s \in Runs, Resume(s)
      PROVE  \A p \in Paths : <<r, p>> \notin blurred' => Told(r, p)'
  <2>1. /\ UNCHANGED <<status, rows, change, missing, blurred>> /\ s \notin Complete
        /\ \A q \in Runs \ {s} : prior'[q] = prior[q]
    BY <1>2, <1>t DEF Resume, Complete
  <2>2. r \in Complete /\ prior'[r] = prior[r] /\ prior[r] \in Complete
    BY <2>1 DEF Complete
  <2>3. QED BY <2>1, <2>2, ToldFrame
<1>3. ASSUME NEW s \in Runs, NEW resume \in BOOLEAN, NEW incremental \in BOOLEAN,
             Start(s, resume, incremental)
      PROVE  \A p \in Paths : <<r, p>> \notin blurred' => Told(r, p)'
  <2>1. /\ UNCHANGED <<rows, change, missing, blurred>> /\ status' = [status EXCEPT ![s] = "RUNNING"]
        /\ \A q \in Runs \ {s} : prior'[q] = prior[q]
    BY <1>3, <1>t DEF Start
  <2>2. Complete' \subseteq Complete \ {s}
    BY <1>t, <2>1 DEF Complete
  <2>3. r \in Complete /\ prior'[r] = prior[r] /\ prior[r] \in Complete
    BY <2>1, <2>2
  <2>4. QED BY <2>1, <2>3, ToldFrame
<1>4. CASE Publish
  <2>1. /\ UNCHANGED <<prior, rows, change, missing, blurred>> /\ status' = [status EXCEPT ![run] = "COMPLETE"]
        /\ pc = "publish" /\ run \in Runs /\ status[run] # Gone /\ AtWork
    BY <1>4, TypeFacts DEF Publish, AtWork
  <2>2. Complete' = Complete \cup {run} /\ run \notin Complete /\ \A s \in Complete : s < run
    BY <1>t, <2>1 DEF Complete, CurrentInv, Runs
  <2>3. CASE r # run
    <3>1. r \in Complete /\ prior[r] < r /\ r < run
      BY <2>2, <2>3 DEF PriorInv
    <3>2. prior[r] \in Complete
      BY <2>1, <2>2, <3>1 DEF Runs
    <3>3. QED BY <2>1, <3>1, <3>2, ToldFrame
  <2>4. CASE r = run
    <3>1. Live(run) /\ prior[run] # None
      BY <2>1, <2>2, <2>4 DEF Live, Known, Complete, Runs, None
    <3>2. ASSUME NEW p \in Paths, <<run, p>> \notin blurred PROVE Right(run, p)
      BY <2>1, <3>1, <3>2 DEF LiveInv, Judged, Right
    <3>3. \A p \in Paths : Classified(p) /\ Missed(p)
      BY <2>1, <3>1 DEF SweepInv
    <3>4. ASSUME NEW p \in Paths, <<run, p>> \notin blurred PROVE Told(run, p)
      BY <3>2, <3>3, <3>4 DEF Told, Classified, Missed
    <3>5. QED BY <2>1, <2>4, <3>4, ToldStays
  <2>5. QED BY <2>3, <2>4
<1>5. CASE Interrupt
  <2>1. UNCHANGED <<prior, rows, change, missing, blurred>>
    BY <1>5 DEF Interrupt
  <2>2. \A s \in Runs : status'[s] = "COMPLETE" => status[s] = "COMPLETE"
    BY <1>5, <1>t DEF Interrupt
  <2>3. r \in Complete /\ prior[r] \in Complete
    BY <2>1, <2>2 DEF Complete
  <2>4. QED BY <2>1, <2>3, ToldFrame
<1>6. CASE Prune \/ Purge
  <2>1. /\ prior' = prior /\ status'[r] # Gone /\ prior[r] \in Runs /\ status'[prior[r]] # Gone
    BY <1>6, Deletion DEF Complete, Gone
  <2>2. /\ status'[r] = status[r] /\ rows'[r] = rows[r] /\ change'[r] = change[r] /\ missing'[r] = missing[r]
        /\ \A p \in Paths : <<r, p>> \in blurred' <=> <<r, p>> \in blurred
    BY <1>6, <2>1, Deletion
  <2>3. status'[prior[r]] = status[prior[r]] /\ rows'[prior[r]] = rows[prior[r]]
    BY <1>6, <2>1, Deletion
  <2>4. r \in Complete /\ prior[r] \in Complete
    BY <2>1, <2>2, <2>3 DEF Complete
  <2>5. QED BY <2>1, <2>2, <2>3, <2>4, ToldFrame
<1>7. CASE UNCHANGED <<status, prior, rows, change, missing, blurred>>
  BY <1>7, ToldFrame DEF Complete
<1>8. QED
  <2>1. \/ UNCHANGED <<status, prior, rows, change, missing, blurred>>
        \/ Prune \/ Purge \/ Publish \/ Interrupt
        \/ \E p \in Paths : Record(p) \/ Classify(p) \/ FindMissing(p)
        \/ \E s \in Runs : Resume(s) \/ \E resume, incremental \in BOOLEAN : Start(s, resume, incremental)
    BY DEF Next, Scanner, Others, vars, runVars, EndWalk, EndStatement, To, CopyForward,
           MarkStale, Refresh, Fail, Die, Write, Delete, Identify, Decide, PlanPrune
  <2>2. QED BY <1>1, <1>2, <1>3, <1>4, <1>5, <1>6, <1>7, <2>1

\* A complete run says of every path what became of it since the run it names
\* as the one before it - new, unchanged, changed, missing or not to be read,
\* once - however many attempts the scan took and whatever failed between the statements of
\* the diff, other than for a path seen to change after it was judged.
THEOREM RecordsAreTrue == Spec => []ChangesAreTrue
<1>1. Init => MarkInv /\ ChangeInv
  BY DEF Init, MarkInv, ComparedInv, MissingInv, MarkedInv, ChangeInv, GoneInv, NewestInv,
         PriorInv, LiveInv, Live, SweepInv, ToldInv, Known, Complete, NoRows, AtWork, Gone
<1>2. TypeOK /\ CurrentInv /\ MarkInv /\ ChangeInv /\ [Next]_vars => MarkInv' /\ ChangeInv'
  BY MarkStep, GoneStep, NewestStep, PriorStep, LiveStep, SweepStep, ToldStep DEF ChangeInv
<1>3. TypeOK /\ ToldInv => ChangesAreTrue
  BY TypeFacts DEF ToldInv, Told, Right, What, ChangesAreTrue, Complete
<1>4. QED BY <1>1, <1>2, <1>3, CurrentAlways, PTL DEF Spec, ChangeInv
=============================================================================
