------------------------- MODULE JobControlProofs -------------------------
(* Theorems about JobControl for every number of stages, processes and
   clickers, and every choice of what the users do.                         *)
EXTENDS JobControl, TLAPS

---------------------------------------------------------------------------
(* The variables keep their types.                                          *)

LEMMA TypeInit == Init => TypeOK
<1> SUFFICES ASSUME Init PROVE TypeOK
  OBVIOUS
<1>1. Root \in Jobs
  BY NStagesAssumption DEF Jobs, Root
<1>2. PICK p \in Procs : wproc = p /\ owner = [j \in Jobs |-> p]
  BY DEF Init
<1>3. owner \in [Jobs -> Procs] /\ wproc \in Procs
  BY <1>2
<1>4. status \in [Jobs -> JOB_STATES \cup {None}]
  BY DEF Init
<1>5. creq \in [Clickers -> REQUESTS] /\ target \in TERMINAL \cup {"PAUSED"}
  BY DEF Init, REQUESTS, TERMINAL
<1>6. QED BY <1>1, <1>3, <1>4, <1>5 DEF Init, TypeOK, PCS

LEMMA StopSeenType ==
    ASSUME NEW j, StopSeen(j) # ""
    PROVE  StopSeen(j) \in {"CANCELLED", "PAUSED"}
BY DEF StopSeen

LEMMA TypeStep == TypeOK /\ [Next]_vars => TypeOK'
<1> SUFFICES ASSUME TypeOK, [Next]_vars PROVE TypeOK'
  OBVIOUS
<1> Root \in Jobs
  BY NStagesAssumption DEF Jobs, Root
<1> USE DEF TypeOK, REQUESTS, JOB_STATES, TERMINAL, ACTIVE, PCS, None
<1>1. CASE Worker
  <2>1. CASE \E p \in Procs : Begin(p)
    BY <2>1 DEF Begin
  <2>2. CASE CreateJob
    BY <2>2 DEF CreateJob
  <2>3. CASE DropLeftover
    BY <2>3 DEF DropLeftover
  <2>4. CASE StartJob
    BY <2>4 DEF StartJob
  <2>5. CASE EntryCheck \/ Poll \/ ExitCheck
    <3>1. CASE Honour
      BY <3>1, StopSeenType DEF Honour
    <3>2. CASE ~Honour
      BY <2>5, <3>2 DEF EntryCheck, Poll, ExitCheck
    <3>3. QED BY <3>1, <3>2
  <2>6. CASE Work
    BY <2>6 DEF Work, workerVars
  <2>7. CASE BeginStage
    BY <2>7 DEF BeginStage, Unstarted
  <2>8. CASE BodyEnd
    BY <2>8 DEF BodyEnd
  <2>9. CASE BodyFails
    BY <2>9 DEF BodyFails, Propagate
  <2>9a. CASE ErrorStorm
    BY <2>9a DEF ErrorStorm
  <2>10. CASE Interrupt
    BY <2>10 DEF Interrupt, Propagate
  <2>11. CASE WriteRow
    BY <2>11 DEF WriteRow
  <2>12. CASE ClearFile
    BY <2>12 DEF ClearFile, Propagate
  <2>13. QED
    BY <1>1, <2>1, <2>2, <2>3, <2>4, <2>5, <2>6, <2>7, <2>8, <2>9, <2>9a, <2>10, <2>11,
       <2>12
       DEF Worker, Proceed
<1>2. ASSUME NEW c \in Clickers, Clicker(c) PROVE TypeOK'
  <2>1. CASE \E r \in REQUESTS : Click(c, r)
    <3>1. PICK r \in REQUESTS : Click(c, r)
      BY <2>1
    <3>2. \E at \in {"check", "file", "finalize"} : cpc' = [cpc EXCEPT ![c] = at]
      BY <3>1 DEF Click, SetClicker
    <3>3. /\ creq' = [creq EXCEPT ![c] = r]
          /\ UNCHANGED <<status, file, owner, alive, wproc, pc, cur, target, phase, txn, reap>>
      BY <3>1 DEF Click, workerVars
    <3>4. QED BY <3>1, <3>2, <3>3
  <2>2. CASE CheckFile(c) \/ WriteFile(c) \/ Undo(c) \/ Busy(c)
    BY <2>2 DEF CheckFile, WriteFile, Undo, Busy, SetClicker, workerVars
  <2>3. CASE UpdateRow(c) \/ Finalize(c)
    BY <2>3 DEF UpdateRow, Finalize, SetClicker, workerVars
  <2>4. QED BY <1>2, <2>1, <2>2, <2>3 DEF Clicker
<1>3. CASE Reaper
  BY <1>3 DEF Reaper, Judge, Reap, workerVars
<1>4. CASE \E p \in Procs : ResumeJob(p) \/ Crash(p)
  BY <1>4 DEF ResumeJob, Crash
<1>5. CASE UNCHANGED vars
  BY <1>5 DEF vars, workerVars
<1>6. QED BY <1>1, <1>2, <1>3, <1>4, <1>5 DEF Next

\* Every variable of the control plane keeps its type.
THEOREM TypeCorrect == Spec => []TypeOK
<1>1. Init => TypeOK BY TypeInit
<1>2. TypeOK /\ [Next]_vars => TypeOK' BY TypeStep
<1>3. QED BY <1>1, <1>2, PTL DEF Spec

---------------------------------------------------------------------------
(* StageHasWorker needs to know who owns the stage the worker is in, that a
   stage about to be inserted has no live row, and that a stage the worker is
   about to leave has been settled.                                         *)

Stages == Jobs \ {Root}
Live == ACTIVE \cup {"PENDING"}

StageInv ==
    /\ TypeOK
    /\ StageHasWorker
    /\ pc = "insert" /\ cur # Root => status[cur] \notin Live
    /\ pc \notin {"idle", "insert"} /\ cur # Root => owner[cur] = wproc
    /\ pc = "clear" /\ cur # Root => status[cur] \notin Live

LEMMA StageInit == Init => StageInv
BY TypeInit DEF Init, StageInv, StageHasWorker, Live, ACTIVE, None

LEMMA StageStep == StageInv /\ [Next]_vars => StageInv'
<1> SUFFICES ASSUME StageInv, [Next]_vars PROVE StageInv'
  OBVIOUS
<1>0. TypeOK /\ TypeOK'
  BY TypeStep DEF StageInv
<1> Root \in Jobs
  BY NStagesAssumption DEF Jobs, Root
<1> USE <1>0 DEF TypeOK, StageInv, StageHasWorker, Live, ACTIVE
<1>1. CASE Worker
  <2>1. CASE \E p \in Procs : Begin(p)
    BY <2>1 DEF Begin
  <2>2. CASE CreateJob
    BY <2>2 DEF CreateJob
  <2>3. CASE DropLeftover
    BY <2>3 DEF DropLeftover
  <2>4. CASE StartJob
    BY <2>4 DEF StartJob
  <2>5. CASE EntryCheck \/ Poll \/ ExitCheck
    <3>1. CASE Honour
      BY <2>5, <3>1 DEF Honour, EntryCheck, Poll, ExitCheck
    <3>2. CASE ~Honour
      BY <2>5, <3>2 DEF EntryCheck, Poll, ExitCheck
    <3>3. QED BY <3>1, <3>2
  <2>6. CASE Work
    BY <2>6 DEF Work, workerVars
  <2>7. CASE BeginStage
    BY <2>7 DEF BeginStage, Unstarted, None
  <2>8. CASE BodyEnd
    BY <2>8 DEF BodyEnd
  <2>9. CASE BodyFails
    BY <2>9 DEF BodyFails, Propagate
  <2>9a. CASE ErrorStorm
    BY <2>9a DEF ErrorStorm
  <2>10. CASE Interrupt
    BY <2>10 DEF Interrupt, Propagate
  <2>11. CASE WriteRow
    BY <2>11 DEF WriteRow, TERMINAL
  <2>12. CASE ClearFile
    BY <2>12 DEF ClearFile, Propagate
  <2>13. QED
    BY <1>1, <2>1, <2>2, <2>3, <2>4, <2>5, <2>6, <2>7, <2>8, <2>9, <2>9a, <2>10, <2>11,
       <2>12
       DEF Worker, Proceed
<1>2. ASSUME NEW c \in Clickers, Clicker(c) PROVE StageInv'
  \* A control request writes no row but the root's.
  <2>1. /\ UNCHANGED <<owner, alive, wproc, pc, cur>>
        /\ \A j \in Stages : status'[j] = status[j]
    BY <1>2 DEF Clicker, Click, CheckFile, WriteFile, UpdateRow, Busy, Undo, Finalize,
                workerVars, Stages
  <2>2. QED BY <2>1 DEF Stages
<1>3. ASSUME NEW j \in Jobs, Judge(j) \/ Reap(j) PROVE StageInv'
  <2>1. CASE Judge(j)
    BY <2>1 DEF Judge, workerVars
  <2>2. CASE Reap(j)
    <3>1. \A k \in Jobs : status'[k] \in Live => status'[k] = status[k]
      BY <2>2 DEF Reap
    <3>2. UNCHANGED <<owner, alive, wproc, pc, cur>>
      BY <2>2 DEF Reap, workerVars
    <3>3. QED BY <3>1, <3>2
  <2>3. QED BY <1>3, <2>1, <2>2
<1>4. CASE \E p \in Procs : ResumeJob(p) \/ Crash(p)
  <2>1. CASE \E p \in Procs : ResumeJob(p)
    BY <2>1 DEF ResumeJob
  <2>2. CASE \E p \in Procs : Crash(p)
    BY <2>2 DEF Crash
  <2>3. QED BY <1>4, <2>1, <2>2
<1>5. CASE UNCHANGED vars
  BY <1>5 DEF vars, workerVars
<1>6. QED BY <1>1, <1>2, <1>3, <1>4, <1>5 DEF Next, Reaper

\* A tracked stage is never left pending or active by a live process that has
\* moved on: failure, pause, cancel, Ctrl-C and process death included.
THEOREM StagesAreSettled == Spec => []StageHasWorker
<1>1. Init => StageInv BY StageInit
<1>2. StageInv /\ [Next]_vars => StageInv' BY StageStep
<1>3. StageInv => StageHasWorker BY DEF StageInv
<1>4. QED BY <1>1, <1>2, <1>3, PTL DEF Spec

---------------------------------------------------------------------------
(* No stage starts once the root row is settled.  Whatever settles the row or is
   about to settle it -- the worker's handler, a cancel that has read PAUSED,
   a reaper's verdict -- finds the worker gone or on its way out of the root. *)

Leaving == status[Root] # None /\ (pc = "idle" \/ (cur = Root /\ pc \in {"write", "clear"}))

Settling ==
    \/ status[Root] \in TERMINAL \cup {"PAUSED"}
    \/ \E c \in Clickers : cpc[c] = "finalize"
    \/ Root \in reap

EndInv ==
    /\ TypeOK
    /\ pc # "idle" => wproc \in alive
    /\ pc = "insert" /\ cur = Root => status[Root] = None
    /\ pc # "idle" /\ ~(pc = "insert" /\ cur = Root) =>
          status[Root] # None /\ owner[Root] = wproc
    /\ \A c \in Clickers : cpc[c] # "idle" => status[Root] # None
    /\ Settling => Leaving

LEMMA EndInit == Init => EndInv
<1> SUFFICES ASSUME Init PROVE EndInv
  OBVIOUS
<1>1. TypeOK BY TypeInit
<1>2. Root \in Jobs BY NStagesAssumption DEF Jobs, Root
<1>3. ~Settling BY <1>2 DEF Init, Settling, TERMINAL, None
<1>4. QED BY <1>1, <1>2, <1>3 DEF Init, EndInv

\* What one step of a control request does to the root and to the clicker.
LEMMA ClickerEffect ==
    ASSUME TypeOK, NEW c \in Clickers, Clicker(c)
    PROVE  /\ UNCHANGED <<owner, alive, wproc, pc, cur, reap>>
           /\ \A d \in Clickers : d # c => cpc'[d] = cpc[d]
           /\ cpc'[c] = "finalize" => status[Root] = "PAUSED"
           /\ cpc'[c] # "idle" => cpc[c] # "idle" \/ status[Root] # None
           /\ \/ status'[Root] = status[Root]
              \/ cpc[c] = "row" /\ status'[Root] \in REQUESTS
              \/ cpc[c] = "finalize" /\ status'[Root] = "CANCELLED"
<1> Root \in Jobs
  BY NStagesAssumption DEF Jobs, Root
<1> USE DEF TypeOK, SetClicker, workerVars
<1>1. CASE \E r \in REQUESTS : Click(c, r)
  BY <1>1 DEF Click, None
<1>2. CASE CheckFile(c)
  BY <1>2 DEF CheckFile
<1>3. CASE WriteFile(c)
  BY <1>3 DEF WriteFile
<1>4. CASE UpdateRow(c)
  BY <1>4 DEF UpdateRow
<1>5. CASE Busy(c)
  BY <1>5 DEF Busy
<1>6. CASE Undo(c)
  BY <1>6 DEF Undo
<1>7. CASE Finalize(c)
  BY <1>7 DEF Finalize
<1>8. QED BY <1>1, <1>2, <1>3, <1>4, <1>5, <1>6, <1>7 DEF Clicker

\* A scan that is resumed runs again under its old row; what it meets there is
\* set aside here.
NoScanResumed == Root \notin Scans \/ "RESUME" \notin UserOps

LEMMA EndStep == NoScanResumed /\ EndInv /\ [Next]_vars => EndInv'
<1> SUFFICES ASSUME NoScanResumed, EndInv, [Next]_vars PROVE EndInv'
  OBVIOUS
<1>0. TypeOK /\ TypeOK'
  BY TypeStep DEF EndInv
<1> Root \in Jobs
  BY NStagesAssumption DEF Jobs, Root
<1> USE <1>0 DEF TypeOK, EndInv, Leaving, Settling, TERMINAL, ACTIVE, None
<1>1. CASE Worker
  <2>1. CASE \E p \in Procs : Begin(p)
    BY <2>1 DEF Begin
  <2>2. CASE CreateJob
    BY <2>2 DEF CreateJob
  <2>3. CASE DropLeftover
    BY <2>3 DEF DropLeftover
  <2>4. CASE StartJob
    <3>1. ~Settling
      BY <2>4 DEF StartJob
    <3>2. status'[Root] \in {status[Root], "RUNNING"} /\ UNCHANGED <<cpc, reap>>
      BY <2>4 DEF StartJob
    <3>3. ~Settling'
      BY <3>1, <3>2
    <3>4. QED BY <2>4, <3>3 DEF StartJob
  <2>5. CASE EntryCheck \/ Poll \/ ExitCheck
    <3>1. CASE Honour
      BY <2>5, <3>1 DEF Honour, EntryCheck, Poll, ExitCheck
    <3>2. CASE ~Honour
      BY <2>5, <3>2 DEF EntryCheck, Poll, ExitCheck
    <3>3. QED BY <3>1, <3>2
  <2>6. CASE Work
    BY <2>6 DEF Work, workerVars
  <2>7. CASE BeginStage
    BY <2>7 DEF BeginStage, Unstarted
  <2>8. CASE BodyEnd
    BY <2>8 DEF BodyEnd
  <2>9. CASE BodyFails
    BY <2>9 DEF BodyFails, Propagate
  <2>9a. CASE ErrorStorm
    BY <2>9a DEF ErrorStorm
  <2>10. CASE Interrupt
    <3>1. ~Settling
      BY <2>10 DEF Interrupt
    <3>2. status'[Root] \in {status[Root], "CANCELLING"} /\ UNCHANGED <<cpc, reap>>
      BY <2>10 DEF Interrupt
    <3>3. ~Settling'
      BY <3>1, <3>2
    <3>4. QED BY <2>10, <3>3 DEF Interrupt, Propagate
  <2>11. CASE WriteRow
    <3>1. CASE cur = Root
      <4>1. Leaving'
        BY <2>11, <3>1 DEF WriteRow
      <4>2. QED BY <2>11, <3>1, <4>1 DEF WriteRow
    <3>2. CASE cur # Root
      <4>1. ~Settling' /\ status'[Root] = status[Root]
        BY <2>11, <3>2 DEF WriteRow
      <4>2. QED BY <2>11, <3>2, <4>1 DEF WriteRow
    <3>3. QED BY <3>1, <3>2
  <2>12. CASE ClearFile
    BY <2>12 DEF ClearFile, Propagate
  <2>13. QED
    BY <1>1, <2>1, <2>2, <2>3, <2>4, <2>5, <2>6, <2>7, <2>8, <2>9, <2>9a, <2>10, <2>11,
       <2>12
       DEF Worker, Proceed
<1>2. ASSUME NEW c \in Clickers, Clicker(c) PROVE EndInv'
  <2>1. Settling' => Settling \/ status[Root] = "PAUSED"
    <3>1. /\ \A d \in Clickers : cpc'[d] = "finalize" => cpc[d] = "finalize" \/ status[Root] = "PAUSED"
          /\ reap' = reap
      BY <1>2, ClickerEffect
    <3>2. status'[Root] = status[Root] \/ status'[Root] \in REQUESTS \/ cpc[c] = "finalize"
      BY <1>2, ClickerEffect
    <3>3. QED BY <3>1, <3>2 DEF REQUESTS
  <2>2. status[Root] # None => status'[Root] # None
    BY <1>2, ClickerEffect DEF REQUESTS
  <2>3. status[Root] = None => status'[Root] = None
    BY <1>2, ClickerEffect
  <2>4. \A d \in Clickers : cpc'[d] # "idle" => status'[Root] # None
    BY <1>2, <2>2, ClickerEffect
  <2>5. UNCHANGED <<owner, alive, wproc, pc, cur>>
    BY <1>2, ClickerEffect
  <2>6. QED BY <2>1, <2>2, <2>3, <2>4, <2>5
<1>3. ASSUME NEW j \in Jobs, Judge(j) \/ Reap(j) PROVE EndInv'
  <2>1. CASE Judge(j)
    <3>1. UNCHANGED <<status, owner, alive, wproc, pc, cur, cpc>>
      BY <2>1 DEF Judge, workerVars
    <3>2. j = Root => status[Root] # None /\ owner[Root] \notin alive
      BY <2>1 DEF Judge
    <3>3. Settling' => Settling \/ j = Root
      BY <2>1, <3>1 DEF Judge
    <3>4. QED BY <3>1, <3>2, <3>3
  <2>2. CASE Reap(j)
    BY <2>2 DEF Reap, workerVars
  <2>3. QED BY <1>3, <2>1, <2>2
<1>4. CASE \E p \in Procs : ResumeJob(p)
  BY <1>4 DEF ResumeJob, NoScanResumed
<1>5. CASE \E p \in Procs : Crash(p)
  BY <1>5 DEF Crash
<1>6. CASE UNCHANGED vars
  BY <1>6 DEF vars, workerVars
<1>7. QED BY <1>1, <1>2, <1>3, <1>4, <1>5, <1>6 DEF Next, Reaper

LEMMA SettledStartsNothing ==
    ASSUME EndInv, [Next]_vars, NEW j \in Stages,
           status[Root] \in TERMINAL \cup {"PAUSED"}, status'[j] = "RUNNING"
    PROVE  status[j] = "RUNNING"
<1> Root \in Jobs /\ j \in Jobs /\ j # Root /\ TypeOK
  BY NStagesAssumption DEF Jobs, Root, Stages, EndInv
<1> USE DEF TypeOK
<1>1. Leaving
  BY DEF EndInv, Settling
<1>2. CASE Worker
  <2>1. CASE WriteRow
    BY <1>1, <2>1 DEF WriteRow, TERMINAL
  <2>2. CASE ~WriteRow
    <3>1. CASE CreateJob \/ StartJob \/ Interrupt
      BY <1>1, <3>1 DEF CreateJob, StartJob, Interrupt, Leaving
    <3>2. CASE ~(CreateJob \/ StartJob \/ Interrupt)
      <4>1. UNCHANGED status
        BY <1>2, <2>2, <3>2
           DEF Worker, Proceed, Begin, DropLeftover, EntryCheck, Poll, ExitCheck, Honour,
               Work, BeginStage, BodyEnd, BodyFails, ErrorStorm, ClearFile
      <4>2. QED BY <4>1
    <3>3. QED BY <3>1, <3>2
  <2>3. QED BY <2>1, <2>2
<1>3. ASSUME NEW c \in Clickers, Clicker(c) PROVE status[j] = "RUNNING"
  <2>1. status'[j] = status[j]
    BY <1>3 DEF Clicker, Click, CheckFile, WriteFile, UpdateRow, Busy, Undo, Finalize
  <2>2. QED BY <2>1
<1>4. CASE Reaper
  BY <1>4 DEF Reaper, Judge, Reap
<1>5. CASE \E p \in Procs : ResumeJob(p) \/ Crash(p)
  BY <1>5 DEF ResumeJob, Crash
<1>6. CASE UNCHANGED vars
  BY <1>6 DEF vars
<1>7. QED BY <1>2, <1>3, <1>4, <1>5, <1>6 DEF Next

\* Once the root row is settled no stage of the run starts, whoever settled it.
THEOREM SettledRunStartsNoStage == Spec => NoStageAfterRootSettles
<1>1. CASE Root \notin Scans
  <2>1. EndInv /\ [Next]_vars =>
          [\A j \in Jobs \ {Root} :
             status[Root] \in TERMINAL \cup {"PAUSED"} /\ status'[j] = "RUNNING"
                 => status[j] = "RUNNING"]_vars
    BY SettledStartsNothing DEF Stages
  <2>2. Init => EndInv
    BY EndInit
  <2>3. EndInv /\ [Next]_vars => EndInv'
    BY <1>1, EndStep DEF NoScanResumed
  <2>4. QED BY <2>1, <2>2, <2>3, PTL DEF Spec, NoStageAfterRootSettles
<1>2. CASE Root \in Scans
  \* A standalone scan has no stages.
  <2>1. Jobs \ {Root} = {}
    BY <1>2, ScansAssumption DEF Jobs, Root
  <2>2. [\A j \in Jobs \ {Root} :
           status[Root] \in TERMINAL \cup {"PAUSED"} /\ status'[j] = "RUNNING"
               => status[j] = "RUNNING"]_vars
    BY <2>1
  <2>3. QED BY <2>2, PTL DEF NoStageAfterRootSettles
<1>3. QED BY <1>1, <1>2

---------------------------------------------------------------------------
(* No request is left behind a finished run.  The worker removes the file with
   the root's row, a request that comes too late removes its own, and a request
   turned away by the worker's lock is left to the worker.                   *)

\* The worker never lets go of the run inside a transaction.
LockInv == txn => pc \in {"insert", "body", "write"}

LeftInv == EndInv /\ LockInv /\ NoLeftoverRequest

LEMMA LockStep == LockInv /\ [Next]_vars => LockInv'
<1> SUFFICES ASSUME LockInv, [Next]_vars PROVE LockInv'
  OBVIOUS
<1>1. CASE Worker
  BY <1>1 DEF LockInv, Worker, Proceed, Begin, CreateJob, DropLeftover, StartJob, EntryCheck, Honour,
              Work, Poll, BeginStage, BodyEnd, ExitCheck, BodyFails, ErrorStorm, Interrupt, WriteRow, ClearFile,
              Propagate, workerVars
<1>2. CASE \E p \in Procs : ResumeJob(p) \/ Crash(p)
  BY <1>2 DEF LockInv, ResumeJob, Crash
<1>3. CASE UNCHANGED <<txn, pc>>
  BY <1>3 DEF LockInv
<1>4. QED
  <2>1. Worker \/ (\E p \in Procs : ResumeJob(p) \/ Crash(p)) \/ UNCHANGED <<txn, pc>>
    BY DEF Next, Reaper, Judge, Reap, Clicker, Click, CheckFile, WriteFile, UpdateRow, Busy, Undo,
           Finalize, workerVars, vars
  <2>2. QED BY <1>1, <1>2, <1>3, <2>1

LEMMA LeftStep == NoScanResumed /\ LeftInv /\ [Next]_vars => NoLeftoverRequest'
<1> SUFFICES ASSUME NoScanResumed, LeftInv, [Next]_vars,
                    status'[Root] \in TERMINAL, pc' = "idle", owner'[Root] \in alive',
                    \A c \in Clickers : cpc'[c] \notin {"file", "row", "undo"}
             PROVE  file'[Root] = ""
  BY DEF NoLeftoverRequest
<1>r. Root \in Jobs /\ TypeOK
  BY NStagesAssumption DEF Jobs, Root, LeftInv, EndInv
<1> USE <1>r
<1>f. UNCHANGED <<status, file, pc, owner, cpc>> /\ alive' \subseteq alive => file'[Root] = ""
  BY DEF LeftInv, NoLeftoverRequest
<1>1. CASE Worker
  <2>1. CASE ClearFile
    BY <2>1 DEF ClearFile, Propagate, TypeOK
  <2>2. CASE BodyFails \/ Interrupt
    \* Only a scan that is the root itself leaves its row alone.
    <3>1. pc \in {"entry", "body", "exit"} /\ cur = Root /\ Root \in Scans /\ UNCHANGED status
      BY <2>2 DEF BodyFails, Interrupt, Propagate
    <3>2. QED BY <3>1 DEF LeftInv, EndInv, Settling, Leaving
  <2>3. QED
    BY <1>1, <2>1, <2>2
       DEF Worker, Proceed, Begin, CreateJob, DropLeftover, StartJob, EntryCheck, Honour, Work, Poll,
           BeginStage, BodyEnd, ErrorStorm, ExitCheck, WriteRow, workerVars, LeftInv, LockInv
<1>2. ASSUME NEW c \in Clickers, Clicker(c) PROVE file'[Root] = ""
  <2>1. UNCHANGED <<owner, alive, pc>> /\ ~txn
    BY <1>2, ClickerEffect DEF LeftInv, LockInv
  <2>2. \A d \in Clickers : d # c => cpc'[d] = cpc[d]
    BY <1>2, ClickerEffect
  <2>3. CASE cpc[c] \notin {"file", "row", "undo"} /\ UNCHANGED <<status, file>>
    <3>1. \A d \in Clickers : cpc[d] \notin {"file", "row", "undo"}
      BY <2>2, <2>3
    <3>2. QED BY <2>1, <2>3, <3>1 DEF LeftInv, NoLeftoverRequest
  <2>4. CASE Undo(c)
    BY <2>4 DEF Undo, TypeOK
  <2>5. cpc[c] \in {"file", "row"} => FALSE
    <3>1. SUFFICES ASSUME WriteFile(c) \/ UpdateRow(c) PROVE FALSE
      BY <1>2, <2>1 DEF Clicker, Click, CheckFile, Busy, Undo, Finalize
    <3>2. cpc'[c] \in {"row", "undo"} \/ status'[Root] \in REQUESTS
      BY <3>1 DEF WriteFile, UpdateRow, SetClicker, TypeOK
    <3>3. QED BY <3>2 DEF TERMINAL, REQUESTS
  <2>6. ~Finalize(c)
    BY DEF Finalize, SetClicker, TypeOK
  <2>7. QED
    BY <1>2, <2>3, <2>4, <2>5, <2>6 DEF Clicker, Click, CheckFile, WriteFile, UpdateRow, Busy
<1>3. ASSUME NEW j \in Jobs, Judge(j) \/ Reap(j) PROVE file'[Root] = ""
  <2>1. CASE Reap(j) /\ j = Root
    BY <2>1 DEF Reap, TypeOK
  <2>2. CASE Reap(j) /\ j # Root
    <3>1. /\ status'[Root] = status[Root] /\ file'[Root] = file[Root]
          /\ UNCHANGED <<owner, alive, pc, cpc>>
      BY <2>2 DEF Reap, workerVars, TypeOK
    <3>2. QED BY <3>1 DEF LeftInv, NoLeftoverRequest
  <2>3. CASE Judge(j)
    BY <1>f, <2>3 DEF Judge, workerVars
  <2>4. QED BY <1>3, <2>1, <2>2, <2>3
<1>4. ASSUME NEW p \in Procs, ResumeJob(p) PROVE file'[Root] = ""
  BY <1>4 DEF ResumeJob, TERMINAL, TypeOK
<1>5. ASSUME NEW p \in Procs, Crash(p) PROVE file'[Root] = ""
  <2>1. UNCHANGED <<status, file, owner, cpc>> /\ alive' \subseteq alive
    BY <1>5 DEF Crash
  <2>2. pc' # pc => wproc \notin alive'
    BY <1>5 DEF Crash
  <2>3. pc = "idle"
    <3>1. SUFFICES ASSUME pc # "idle" PROVE FALSE
      OBVIOUS
    <3>2. ~(pc = "insert" /\ cur = Root)
      BY <2>1 DEF LeftInv, EndInv, None, TERMINAL
    <3>3. owner[Root] = wproc
      BY <3>1, <3>2 DEF LeftInv, EndInv
    <3>4. QED BY <2>1, <2>2, <3>1, <3>3
  <2>4. QED BY <1>f, <2>1, <2>3
<1>6. CASE UNCHANGED vars
  BY <1>6, <1>f DEF vars, workerVars
<1>7. QED BY <1>1, <1>2, <1>3, <1>4, <1>5, <1>6 DEF Next, Reaper

\* No stop file outlives the run it was meant for: when the row is terminal, its
\* process lives, the worker has let go and no request is half-way, there is none.
THEOREM NoRequestIsLeft ==
    ASSUME NoScanResumed
    PROVE  Spec => []NoLeftoverRequest
<1>1. Init => LeftInv
  <2> SUFFICES ASSUME Init PROVE LeftInv
    OBVIOUS
  <2>1. Root \in Jobs
    BY NStagesAssumption DEF Jobs, Root
  <2>2. status[Root] = None
    BY <2>1 DEF Init
  <2>3. QED BY <2>2, EndInit DEF Init, LeftInv, LockInv, NoLeftoverRequest, TERMINAL, None
<1>2. LeftInv /\ [Next]_vars => LeftInv'
  BY EndStep, LockStep, LeftStep DEF LeftInv
<1>3. LeftInv => NoLeftoverRequest
  BY DEF LeftInv
<1>4. QED BY <1>1, <1>2, <1>3, PTL DEF Spec

---------------------------------------------------------------------------
(* The rows of stages, whatever the users do.  A request writes the root's row
   only, so a stage's row has two writers: the worker in it, and the reaper once
   the worker's process is dead.                                            *)

StageRowInv ==
    /\ \A j \in reap \cap Stages : status[j] \in ACTIVE /\ owner[j] \notin alive
    /\ pc # "idle" => wproc \in alive
    /\ cur # Root =>
         /\ pc = "insert" => status[cur] = None
         /\ pc \notin {"idle", "insert"} => owner[cur] = wproc
         /\ pc \in {"fresh", "start", "entry", "body", "exit"} => status[cur] \notin TERMINAL \cup {None}
         /\ pc = "write" => status[cur] # None /\ (status[cur] \in TERMINAL => status[cur] = target)
         /\ pc = "clear" => status[cur] = target

\* A control request writes no row but the root's.
LEMMA ClickerSparesStages ==
    ASSUME NEW c \in Clickers, Clicker(c), TypeOK
    PROVE  /\ UNCHANGED <<owner, alive, workerVars, reap>>
           /\ \A j \in Stages : status'[j] = status[j]
BY DEF Clicker, Click, CheckFile, WriteFile, UpdateRow, Busy, Undo, Finalize, workerVars, Stages, TypeOK

LEMMA StageRowStep == TypeOK /\ StageRowInv /\ [Next]_vars => StageRowInv'
<1> SUFFICES ASSUME TypeOK, StageRowInv, [Next]_vars PROVE StageRowInv'
  OBVIOUS
<1>r. Root \in Jobs
  BY NStagesAssumption DEF Jobs, Root
<1>c. cur \in Jobs /\ (cur # Root => cur \in Stages)
  BY DEF TypeOK, Stages
<1>w. pc # "idle" /\ cur # Root => cur \notin reap
  BY <1>c DEF StageRowInv, ACTIVE, None
<1> USE <1>r, <1>c DEF TypeOK, StageRowInv, ACTIVE, TERMINAL, None, Stages
<1>1. CASE Worker
  <2>1. CASE \E p \in Procs : Begin(p)
    BY <2>1 DEF Begin
  <2>2. CASE CreateJob
    BY <1>w, <2>2 DEF CreateJob
  <2>3. CASE DropLeftover
    BY <2>3 DEF DropLeftover
  <2>4. CASE StartJob
    BY <1>w, <2>4 DEF StartJob
  <2>5. CASE EntryCheck \/ Poll \/ ExitCheck
    <3>1. CASE Honour
      BY <2>5, <3>1 DEF Honour, EntryCheck, Poll, ExitCheck
    <3>2. CASE ~Honour
      BY <2>5, <3>2 DEF EntryCheck, Poll, ExitCheck
    <3>3. QED BY <3>1, <3>2
  <2>6. CASE Work
    BY <2>6 DEF Work, workerVars
  <2>7. CASE BeginStage
    BY <2>7 DEF BeginStage, Unstarted
  <2>8. CASE BodyEnd
    BY <2>8 DEF BodyEnd
  <2>9. CASE BodyFails
    BY <2>9 DEF BodyFails, Propagate
  <2>9a. CASE ErrorStorm
    BY <2>9a DEF ErrorStorm
  <2>10. CASE Interrupt
    <3>1. \A j \in Stages : status'[j] = status[j]
      BY <2>10 DEF Interrupt
    <3>2. UNCHANGED <<owner, alive, wproc, reap>> /\ pc \in {"entry", "body", "exit"} /\ pc' \in {"write", "idle"}
      BY <2>10 DEF Interrupt, Propagate
    <3>3. cur' # Root => cur' = cur
      BY <2>10 DEF Interrupt, Propagate
    <3>4. QED BY <3>1, <3>2, <3>3
  <2>11. CASE WriteRow
    BY <1>w, <2>11 DEF WriteRow
  <2>12. CASE ClearFile
    BY <2>12 DEF ClearFile, Propagate
  <2>13. QED
    BY <1>1, <2>1, <2>2, <2>3, <2>4, <2>5, <2>6, <2>7, <2>8, <2>9, <2>9a, <2>10, <2>11,
       <2>12
       DEF Worker, Proceed
<1>2. ASSUME NEW c \in Clickers, Clicker(c) PROVE StageRowInv'
  <2>1. /\ UNCHANGED <<owner, alive, wproc, pc, cur, target, reap>>
        /\ \A j \in Stages : status'[j] = status[j]
    BY <1>2, ClickerSparesStages DEF workerVars
  <2>2. QED BY <2>1
<1>3. ASSUME NEW j \in Jobs, Judge(j) \/ Reap(j) PROVE StageRowInv'
  <2>1. CASE Judge(j)
    BY <2>1 DEF Judge, workerVars
  <2>2. CASE Reap(j)
    <3>1. UNCHANGED <<owner, alive, wproc, pc, cur, target>> /\ reap' = reap \ {j} /\ j \in reap
      BY <2>2 DEF Reap, workerVars
    <3>2. \A k \in Jobs : k # j => status'[k] = status[k]
      BY <2>2 DEF Reap
    <3>3. QED BY <1>w, <3>1, <3>2
  <2>3. QED BY <1>3, <2>1, <2>2
<1>4. ASSUME NEW p \in Procs, ResumeJob(p) PROVE StageRowInv'
  <2>1. pc = "idle" /\ UNCHANGED <<owner, alive, reap>> /\ \A j \in Stages : status'[j] = status[j]
    BY <1>4 DEF ResumeJob
  <2>2. pc' = "idle" \/ (cur' = Root /\ wproc' \in alive')
    BY <1>4 DEF ResumeJob
  <2>3. QED BY <2>1, <2>2
<1>5. ASSUME NEW p \in Procs, Crash(p) PROVE StageRowInv'
  BY <1>5 DEF Crash
<1>6. CASE UNCHANGED vars
  BY <1>6 DEF vars, workerVars
<1>7. QED BY <1>1, <1>2, <1>3, <1>4, <1>5, <1>6 DEF Next, Reaper

\* A stage that is over stays as it ended, with cancels, pauses, resumes and Ctrl-C
\* in any mix, and whatever worker, second handler or reaper was under way.
THEOREM TerminalStageRowsStay ==
    Spec => [][\A j \in Stages : status[j] \in TERMINAL => status'[j] = status[j]]_vars
<1>1. Init => StageRowInv
  BY DEF Init, StageRowInv, Root
<1>2. TypeOK /\ StageRowInv /\ [Next]_vars =>
        [\A j \in Stages : status[j] \in TERMINAL => status'[j] = status[j]]_vars
  <2> SUFFICES ASSUME TypeOK, StageRowInv, [Next]_vars, NEW j \in Stages, status[j] \in TERMINAL
               PROVE  status'[j] = status[j]
    OBVIOUS
  <2>j. j \in Jobs /\ j # Root /\ Root \in Jobs
    BY NStagesAssumption DEF Stages, Jobs, Root
  <2> USE <2>j DEF TypeOK, StageRowInv, TERMINAL, ACTIVE, None
  <2>1. CASE CreateJob
    BY <2>1 DEF CreateJob
  <2>2. CASE StartJob
    BY <2>2 DEF StartJob
  <2>3. CASE WriteRow
    BY <2>3 DEF WriteRow
  <2>4. CASE Interrupt \/ \E p \in Procs : ResumeJob(p)
    BY <2>4 DEF Interrupt, ResumeJob
  <2>5. ASSUME NEW c \in Clickers, Clicker(c) PROVE status'[j] = status[j]
    BY <2>5, ClickerSparesStages
  <2>6. ASSUME NEW k \in Jobs, Reap(k) PROVE status'[j] = status[j]
    BY <2>6 DEF Reap
  <2>7. CASE UNCHANGED status
    BY <2>7
  <2>8. QED
    <3>1. \/ CreateJob \/ StartJob \/ WriteRow \/ Interrupt \/ UNCHANGED status
          \/ (\E p \in Procs : ResumeJob(p))
          \/ (\E c \in Clickers : Clicker(c)) \/ (\E k \in Jobs : Reap(k))
      BY DEF Next, Worker, Proceed, Begin, DropLeftover, EntryCheck, Honour, Work, Poll, BeginStage,
             BodyEnd, ExitCheck, BodyFails, ErrorStorm, ClearFile, Reaper, Judge, Crash, workerVars, vars
    <3>2. QED BY <2>1, <2>2, <2>3, <2>4, <2>5, <2>6, <2>7, <3>1
<1>3. QED BY <1>1, <1>2, StageRowStep, TypeCorrect, PTL DEF Spec

---------------------------------------------------------------------------
(* Runs that are cancelled and interrupted but neither paused nor resumed, as in
   StopContract: no user asks for a pause, and no scan parks itself because its
   drive has stopped answering.  Nothing then leaves a terminal state: the
   request that comes too late finds the row terminal, the reaper writes only
   rows of the dead, and a handler that settles a row once more writes what it
   holds.                                                                    *)

StopsOnly == UserOps \subseteq {"CANCELLING", "CTRL_C"} /\ (Breaker => Scans = {})

\* The scan's own pause is then out of the question.
LEMMA NoStorm == StopsOnly => ~ErrorStorm
BY DEF StopsOnly, ErrorStorm

\* Nothing pauses: no row, no request, and no file that the worker can see.
QuietInv ==
    /\ \A j \in Jobs : status[j] \notin {"PAUSED", "PAUSING"}
    /\ target # "PAUSED"
    /\ \A c \in Clickers : creq[c] = "CANCELLING" /\ cpc[c] \notin {"check", "finalize"}
    /\ pc \notin {"idle", "insert", "fresh"} => file[cur] # "PAUSING"
    /\ pc # "idle" /\ cur # Root => file[Root] # "PAUSING"

\* Whose row it is that the worker writes, and what the row holds by then.
FinalInv ==
    /\ \A j \in reap : status[j] \in ACTIVE /\ owner[j] \notin alive
    /\ pc = "insert" => status[cur] = None
    /\ pc \notin {"idle", "insert"} => owner[cur] = wproc
    /\ pc \in {"fresh", "start", "entry", "body", "exit"} => status[cur] \notin TERMINAL \cup {None}
    /\ pc = "write" => status[cur] # None /\ (status[cur] \in TERMINAL => status[cur] = target)
    /\ pc = "clear" => status[cur] = target

StopInv == EndInv /\ QuietInv /\ FinalInv

LEMMA QuietStop ==
    ASSUME QuietInv, TypeOK, pc \in {"entry", "body", "exit"}, Honour
    PROVE  StopSeen(cur) = "CANCELLED"
<1>0. Root \in Jobs
  BY NStagesAssumption DEF Jobs, Root
<1>1. Root \in Jobs /\ cur \in Jobs
  BY <1>0 DEF TypeOK
<1>2. file[cur] # "PAUSING" /\ file[Root] # "PAUSING" /\ file[cur] # "PAUSED" /\ file[Root] # "PAUSED"
  BY <1>1 DEF QuietInv, TypeOK, REQUESTS
<1>3. LineageStatuses(cur) \cap {"PAUSING", "PAUSED"} = {}
  BY <1>1, <1>2 DEF LineageStatuses, Lineage, QuietInv
<1>4. QED BY <1>3 DEF Honour, StopSeen

LEMMA QuietStep == StopsOnly /\ TypeOK /\ QuietInv /\ [Next]_vars => QuietInv'
<1> SUFFICES ASSUME StopsOnly, TypeOK, QuietInv, [Next]_vars PROVE QuietInv'
  OBVIOUS
<1> Root \in Jobs
  BY NStagesAssumption DEF Jobs, Root
<1> USE DEF TypeOK, QuietInv
<1>1. CASE Worker
  <2>1. CASE \E p \in Procs : Begin(p)
    BY <2>1 DEF Begin
  <2>2. CASE CreateJob
    BY <2>2 DEF CreateJob
  <2>3. CASE DropLeftover
    BY <2>3 DEF DropLeftover
  <2>4. CASE StartJob
    BY <2>4 DEF StartJob
  <2>5. CASE EntryCheck \/ Poll \/ ExitCheck
    <3>1. CASE Honour
      <4>1. target' = "CANCELLED" /\ pc \notin {"idle", "insert", "fresh"}
        BY <2>5, <3>1, QuietStop DEF Honour, EntryCheck, Poll, ExitCheck
      <4>2. QED BY <3>1, <4>1 DEF Honour
    <3>2. CASE ~Honour
      BY <2>5, <3>2 DEF EntryCheck, Poll, ExitCheck
    <3>3. QED BY <3>1, <3>2
  <2>6. CASE Work
    BY <2>6 DEF Work, workerVars
  <2>7. CASE BeginStage
    BY <2>7 DEF BeginStage, Unstarted
  <2>8. CASE BodyEnd
    BY <2>8 DEF BodyEnd
  <2>9. CASE BodyFails
    BY <2>9 DEF BodyFails, Propagate
  <2>9a. CASE ErrorStorm
    BY <2>9a, NoStorm
  <2>10. CASE Interrupt
    <3>1. \A j \in Jobs : status'[j] \in {status[j], "CANCELLING"} /\ file'[j] \in {file[j], "CANCELLING"}
      BY <2>10 DEF Interrupt
    <3>2. target' = "CANCELLED" /\ UNCHANGED <<creq, cpc>>
      BY <2>10 DEF Interrupt
    <3>3. pc \in {"entry", "body", "exit"} /\ cur' \in {cur, Root} /\ (cur' # Root => cur' = cur)
      BY <2>10 DEF Interrupt, Propagate
    <3>4. QED BY <3>1, <3>2, <3>3
  <2>11. CASE WriteRow
    BY <2>11 DEF WriteRow, TERMINAL
  <2>12. CASE ClearFile
    BY <2>12 DEF ClearFile, Propagate
  <2>13. QED
    BY <1>1, <2>1, <2>2, <2>3, <2>4, <2>5, <2>6, <2>7, <2>8, <2>9, <2>9a, <2>10, <2>11,
       <2>12
       DEF Worker, Proceed
<1>2. ASSUME NEW c \in Clickers, Clicker(c) PROVE QuietInv'
  <2> USE DEF SetClicker, workerVars
  <2>1. CASE \E r \in REQUESTS : Click(c, r)
    <3>1. Click(c, "CANCELLING")
      BY <2>1 DEF Click, StopsOnly, REQUESTS
    <3>2. cpc' = [cpc EXCEPT ![c] = "file"] /\ creq' = [creq EXCEPT ![c] = "CANCELLING"]
      BY <3>1 DEF Click
    <3>3. UNCHANGED <<status, file, pc, cur, target>>
      BY <3>1 DEF Click
    <3>4. QED BY <3>2, <3>3
  <2>2. CASE CheckFile(c)
    BY <2>2 DEF CheckFile
  <2>3. CASE WriteFile(c)
    BY <2>3 DEF WriteFile
  <2>4. CASE UpdateRow(c)
    BY <2>4 DEF UpdateRow
  <2>5. CASE Busy(c)
    BY <2>5 DEF Busy
  <2>6. CASE Undo(c)
    BY <2>6 DEF Undo
  <2>7. CASE Finalize(c)
    BY <2>7 DEF Finalize
  <2>8. QED BY <1>2, <2>1, <2>2, <2>3, <2>4, <2>5, <2>6, <2>7 DEF Clicker
<1>3. ASSUME NEW j \in Jobs, Judge(j) \/ Reap(j) PROVE QuietInv'
  <2>1. \A k \in Jobs : status'[k] \in {status[k], "INTERRUPTED"} /\ file'[k] \in {file[k], ""}
    BY <1>3 DEF Judge, Reap
  <2>2. UNCHANGED <<target, creq, cpc, pc, cur>>
    BY <1>3 DEF Judge, Reap, workerVars
  <2>3. QED BY <2>1, <2>2
<1>4. CASE \E p \in Procs : ResumeJob(p) \/ Crash(p)
  BY <1>4 DEF ResumeJob, Crash, StopsOnly
<1>5. CASE UNCHANGED vars
  BY <1>5 DEF vars, workerVars
<1>6. QED BY <1>1, <1>2, <1>3, <1>4, <1>5 DEF Next, Reaper

\* What a cancel request does to the rows.
LEMMA CancelEffect ==
    ASSUME TypeOK, QuietInv, StopsOnly, NEW c \in Clickers, Clicker(c)
    PROVE  /\ UNCHANGED <<owner, alive, workerVars, reap>>
           /\ \A j \in Jobs : j # Root => status'[j] = status[j]
           /\ status'[Root] = status[Root]
              \/ (cpc[c] = "row" /\ status[Root] \notin TERMINAL /\ status'[Root] = "CANCELLING")
<1> Root \in Jobs
  BY NStagesAssumption DEF Jobs, Root
<1>1. CASE UpdateRow(c)
  BY <1>1 DEF UpdateRow, TypeOK, QuietInv
<1>2. CASE ~UpdateRow(c)
  <2>1. ~Finalize(c)
    BY DEF Finalize, QuietInv
  <2>2. UNCHANGED <<status, owner, alive, workerVars, reap>>
    BY <1>2, <2>1 DEF Clicker, Click, CheckFile, WriteFile, Busy, Undo
  <2>3. QED BY <2>2
<1>3. QED BY <1>1, <1>2

LEMMA FinalStep == StopsOnly /\ StopInv /\ [Next]_vars => FinalInv'
<1> SUFFICES ASSUME StopsOnly, StopInv, [Next]_vars PROVE FinalInv'
  OBVIOUS
<1>e. EndInv /\ QuietInv /\ FinalInv /\ TypeOK
  BY DEF StopInv, EndInv
<1>z. Root \in Jobs
  BY NStagesAssumption DEF Jobs, Root
<1>r. Root \in Jobs /\ cur \in Jobs
  BY <1>e, <1>z DEF TypeOK
<1>w. pc # "idle" => wproc \in alive /\ cur \notin reap
  BY <1>e, <1>r DEF EndInv, FinalInv, ACTIVE, None
<1>o. pc # "idle" /\ cur # Root => status[Root] \notin TERMINAL \cup {None} /\ owner[Root] = wproc
  BY <1>e, <1>r DEF EndInv, Settling, Leaving
<1> USE <1>e, <1>r DEF TypeOK, FinalInv, ACTIVE, TERMINAL, None
<1>1. CASE Worker
  <2>1. CASE \E p \in Procs : Begin(p)
    BY <2>1 DEF Begin
  <2>2. CASE CreateJob
    BY <1>w, <2>2 DEF CreateJob
  <2>3. CASE DropLeftover
    BY <2>3 DEF DropLeftover
  <2>4. CASE StartJob
    BY <1>w, <2>4 DEF StartJob
  <2>5. CASE EntryCheck \/ Poll \/ ExitCheck
    <3>1. CASE Honour
      BY <2>5, <3>1 DEF Honour, EntryCheck, Poll, ExitCheck
    <3>2. CASE ~Honour
      BY <2>5, <3>2 DEF EntryCheck, Poll, ExitCheck
    <3>3. QED BY <3>1, <3>2
  <2>6. CASE Work
    BY <2>6 DEF Work, workerVars
  <2>7. CASE BeginStage
    BY <2>7 DEF BeginStage, Unstarted
  <2>8. CASE BodyEnd
    BY <2>8 DEF BodyEnd
  <2>9. CASE BodyFails
    BY <1>o, <2>9 DEF BodyFails, Propagate
  <2>9a. CASE ErrorStorm
    BY <2>9a, NoStorm
  <2>10. CASE Interrupt
    <3>1. status'[cur] \notin TERMINAL \cup {None} /\ status'[Root] \notin TERMINAL \cup {None}
      BY <1>o, <2>10 DEF Interrupt
    <3>2. \A j \in reap : status'[j] \in ACTIVE
      BY <2>10 DEF Interrupt
    <3>3. QED BY <1>o, <2>10, <3>1, <3>2 DEF Interrupt, Propagate
  <2>11. CASE WriteRow
    BY <1>w, <2>11 DEF WriteRow
  <2>12. CASE ClearFile
    BY <1>o, <2>12 DEF ClearFile, Propagate
  <2>13. QED
    BY <1>1, <2>1, <2>2, <2>3, <2>4, <2>5, <2>6, <2>7, <2>8, <2>9, <2>9a, <2>10, <2>11,
       <2>12
       DEF Worker, Proceed
<1>2. ASSUME NEW c \in Clickers, Clicker(c) PROVE FinalInv'
  <2>1. /\ UNCHANGED <<owner, alive, wproc, pc, cur, target, reap>>
        /\ \A j \in Jobs : j # Root => status'[j] = status[j]
        /\ status'[Root] = status[Root]
           \/ (cpc[c] = "row" /\ status[Root] \notin TERMINAL /\ status'[Root] = "CANCELLING")
    BY <1>2, CancelEffect DEF workerVars
  <2>2. cpc[c] = "row" => status[Root] # None
    BY DEF EndInv
  <2>3. \A j \in Jobs : status'[j] = status[j]
          \/ (status[j] \notin TERMINAL \cup {None} /\ status'[j] = "CANCELLING")
    BY <2>1, <2>2
  <2>4. pc = "clear" => status[cur] \in TERMINAL
    BY DEF QuietInv
  <2>5. QED BY <2>1, <2>3, <2>4
<1>3. ASSUME NEW j \in Jobs, Judge(j) \/ Reap(j) PROVE FinalInv'
  <2>1. CASE Judge(j)
    BY <2>1 DEF Judge, workerVars
  <2>2. CASE Reap(j)
    <3>1. UNCHANGED <<owner, alive, wproc, pc, cur, target>> /\ reap' = reap \ {j} /\ j \in reap
      BY <2>2 DEF Reap, workerVars
    <3>2. \A k \in Jobs : k # j => status'[k] = status[k]
      BY <2>2 DEF Reap
    <3>3. pc # "idle" => cur # j
      BY <1>w, <3>1
    <3>4. QED BY <3>1, <3>2, <3>3
  <2>3. QED BY <1>3, <2>1, <2>2
<1>4. ASSUME NEW p \in Procs, Crash(p) PROVE FinalInv'
  BY <1>4 DEF Crash
<1>5. CASE UNCHANGED vars
  BY <1>5 DEF vars, workerVars
<1>6. QED
  <2>1. \A p \in Procs : ~ResumeJob(p)
    BY DEF ResumeJob, StopsOnly
  <2>2. QED BY <1>1, <1>2, <1>3, <1>4, <1>5, <2>1 DEF Next, Reaper

LEMMA StopAlways == StopsOnly /\ Spec => []StopInv
<1> SUFFICES ASSUME StopsOnly PROVE Spec => []StopInv
  OBVIOUS
<1>1. Init => StopInv
  <2> SUFFICES ASSUME Init PROVE StopInv
    OBVIOUS
  <2>1. EndInv
    BY EndInit
  <2>2. QuietInv /\ FinalInv
    BY DEF Init, QuietInv, FinalInv, None
  <2>3. QED BY <2>1, <2>2 DEF StopInv
<1>2. StopInv /\ [Next]_vars => StopInv'
  <2>1. NoScanResumed
    BY DEF NoScanResumed, StopsOnly
  <2>2. QED BY <2>1, EndStep, QuietStep, FinalStep DEF StopInv, EndInv
<1>3. QED BY <1>1, <1>2, PTL DEF Spec

LEMMA TerminalStays ==
    ASSUME StopsOnly, StopInv, [Next]_vars, NEW j \in Jobs, status[j] \in TERMINAL
    PROVE  status'[j] = status[j]
<1>e. EndInv /\ QuietInv /\ FinalInv /\ TypeOK /\ Root \in Jobs
  BY NStagesAssumption DEF Jobs, Root, StopInv, EndInv
<1> USE <1>e DEF TypeOK, TERMINAL, ACTIVE, None
<1>1. CASE CreateJob
  BY <1>1 DEF CreateJob, FinalInv
<1>2. CASE StartJob
  BY <1>2 DEF StartJob, FinalInv
<1>3. CASE WriteRow
  BY <1>3 DEF WriteRow, FinalInv
<1>4. CASE Interrupt
  BY <1>4 DEF Interrupt
<1>5. ASSUME NEW c \in Clickers, Clicker(c) PROVE status'[j] = status[j]
  BY <1>5, CancelEffect
<1>6. ASSUME NEW k \in Jobs, Reap(k) PROVE status'[j] = status[j]
  BY <1>6 DEF Reap, FinalInv
<1>7. CASE UNCHANGED status
  BY <1>7
<1>8. QED
  <2>1. \/ CreateJob \/ StartJob \/ WriteRow \/ Interrupt \/ UNCHANGED status
        \/ (\E c \in Clickers : Clicker(c)) \/ (\E k \in Jobs : Reap(k))
    BY DEF Next, Worker, Proceed, Begin, DropLeftover, EntryCheck, Honour, Work, Poll, BeginStage,
           BodyEnd, ExitCheck, BodyFails, ErrorStorm, ClearFile, Reaper, Judge, ResumeJob, Crash, StopsOnly,
           workerVars, vars
  <2>2. QED BY <1>1, <1>2, <1>3, <1>4, <1>5, <1>6, <1>7, <2>1

\* A job that is over stays as it ended, whatever request, worker, second
\* handler or reaper was under way when it got there.
THEOREM TerminalRowsStay ==
    ASSUME StopsOnly
    PROVE  Spec => TerminalIsFinal
<1>1. StopInv /\ [Next]_vars =>
        [\A j \in Jobs : status[j] \in TERMINAL => status'[j] = status[j]]_vars
  BY TerminalStays
<1>2. Spec => []StopInv
  BY StopAlways
<1>3. QED BY <1>1, <1>2, PTL DEF Spec, TerminalIsFinal

\* When the worker is gone the root's row is settled, or its process is dead and
\* the reaper may settle it.
HeldInv == pc = "idle" => status[Root] \in TERMINAL \cup {None} \/ owner[Root] \notin alive

LEMMA HeldStep ==
    Root \notin Scans /\ StopsOnly /\ StopInv /\ HeldInv /\ [Next]_vars => HeldInv'
<1> SUFFICES ASSUME Root \notin Scans, StopsOnly, StopInv, HeldInv, [Next]_vars, pc' = "idle",
                    status'[Root] \notin TERMINAL \cup {None}
             PROVE  owner'[Root] \notin alive'
  BY DEF HeldInv
<1>e. EndInv /\ QuietInv /\ FinalInv /\ TypeOK /\ Root \in Jobs
  BY NStagesAssumption DEF Jobs, Root, StopInv, EndInv
<1> USE <1>e
<1>1. CASE Worker
  <2>1. CASE ClearFile
    <3>1. cur = Root /\ pc = "clear" /\ UNCHANGED status
      BY <2>1 DEF ClearFile, Propagate
    <3>2. QED BY <3>1 DEF FinalInv, QuietInv, TypeOK
  <2>2. CASE BodyFails \/ Interrupt
    BY <2>2 DEF BodyFails, Interrupt, Propagate
  <2>3. QED
    BY <1>1, <2>1, <2>2
       DEF Worker, Proceed, Begin, CreateJob, DropLeftover, StartJob, EntryCheck, Honour, Work, Poll,
           BeginStage, BodyEnd, ErrorStorm, ExitCheck, WriteRow, workerVars
<1>2. ASSUME NEW c \in Clickers, Clicker(c) PROVE owner'[Root] \notin alive'
  <2>1. /\ UNCHANGED <<owner, alive, pc>>
        /\ status'[Root] = status[Root]
           \/ (cpc[c] = "row" /\ status[Root] \notin TERMINAL /\ status'[Root] = "CANCELLING")
    BY <1>2, CancelEffect DEF workerVars
  <2>2. cpc[c] = "row" => status[Root] # None
    BY <1>2 DEF EndInv
  <2>3. QED BY <2>1, <2>2 DEF HeldInv
<1>3. ASSUME NEW j \in Jobs, Judge(j) \/ Reap(j) PROVE owner'[Root] \notin alive'
  <2>1. UNCHANGED <<owner, alive, pc>>
    BY <1>3 DEF Judge, Reap, workerVars
  <2>2. status'[Root] \in {status[Root], "INTERRUPTED"}
    BY <1>3 DEF Judge, Reap, TypeOK
  <2>3. QED BY <2>1, <2>2 DEF HeldInv, TERMINAL
<1>4. ASSUME NEW p \in Procs, Crash(p) PROVE owner'[Root] \notin alive'
  <2>1. UNCHANGED <<status, owner>> /\ alive' \subseteq alive /\ (pc # "idle" => wproc \notin alive')
    BY <1>4 DEF Crash
  <2>2. CASE pc = "idle"
    BY <2>1, <2>2 DEF HeldInv
  <2>3. CASE pc # "idle"
    BY <2>1, <2>3 DEF EndInv
  <2>4. QED BY <2>2, <2>3
<1>5. CASE UNCHANGED vars
  BY <1>5 DEF vars, workerVars, HeldInv
<1>6. QED
  <2>1. \A p \in Procs : ~ResumeJob(p)
    BY DEF ResumeJob, StopsOnly
  <2>2. QED BY <1>1, <1>2, <1>3, <1>4, <1>5, <2>1 DEF Next, Reaper

\* No run is shown as active with neither a worker in it nor a dead process the
\* reaper would find.  A standalone scan is set aside: one that fails leaves its
\* row RUNNING.
THEOREM ActiveRunsAreHeld ==
    ASSUME StopsOnly, Root \notin Scans
    PROVE  Spec => []NoPhantomRun
<1>1. Init => HeldInv
  <2> SUFFICES ASSUME Init PROVE HeldInv
    OBVIOUS
  <2>1. Root \in Jobs
    BY NStagesAssumption DEF Jobs, Root
  <2>2. QED BY <2>1 DEF Init, HeldInv
<1>2. StopInv /\ HeldInv /\ [Next]_vars => HeldInv'
  BY HeldStep
<1>3. HeldInv => NoPhantomRun
  BY DEF HeldInv, NoPhantomRun, ACTIVE, TERMINAL, None
<1>4. Spec => []StopInv
  BY StopAlways
<1>5. QED BY <1>1, <1>2, <1>3, <1>4, PTL DEF Spec

---------------------------------------------------------------------------
(* The refinement of StopContract.  Seen by its user the run only goes on from
   new to going to over, and an ask that is recorded stays until it is over.  *)

\* The worker past the start of the run leaves its row active until it settles
\* it, and only a finished run has a request undone.
ViewInv ==
    /\ pc # "idle" /\ ~Starting => status[Root] \in ACTIVE \cup TERMINAL
    /\ \A c \in Clickers : cpc[c] = "undo" => status[Root] \in TERMINAL

LEMMA ViewStep == StopsOnly /\ StopInv /\ ViewInv /\ [Next]_vars => ViewInv'
<1> SUFFICES ASSUME StopsOnly, StopInv, ViewInv, [Next]_vars PROVE ViewInv'
  OBVIOUS
<1>e. EndInv /\ QuietInv /\ FinalInv /\ TypeOK /\ Root \in Jobs
  BY NStagesAssumption DEF Jobs, Root, StopInv, EndInv
<1>s. status[Root] \in TERMINAL => status'[Root] = status[Root]
  BY <1>e, TerminalStays
<1> USE <1>e DEF TypeOK, ACTIVE, TERMINAL
<1>1. CASE Worker
  <2>1. UNCHANGED cpc
    BY <1>1 DEF Worker, Proceed, Begin, CreateJob, DropLeftover, StartJob, EntryCheck, Honour, Work,
                Poll, BeginStage, BodyEnd, ExitCheck, BodyFails, ErrorStorm, Interrupt, WriteRow, ClearFile
  <2>2. pc' # "idle" /\ ~Starting' => status'[Root] \in ACTIVE \cup TERMINAL
    <3>1. CASE (\E p \in Procs : Begin(p)) \/ DropLeftover
      BY <3>1 DEF Begin, DropLeftover, Starting, ViewInv
    <3>2. CASE CreateJob \/ StartJob
      <4>1. cur' = cur /\ pc # "idle" /\ (cur = Root /\ CreateJob => Starting')
        BY <3>2 DEF CreateJob, StartJob, Starting
      <4>2. cur # Root => status'[Root] = status[Root] /\ ~Starting
        BY <3>2 DEF CreateJob, StartJob, Starting
      <4>3. cur = Root /\ StartJob => status'[Root] = "RUNNING"
        BY DEF StartJob
      <4>4. QED BY <3>2, <4>1, <4>2, <4>3 DEF ViewInv
    <3>3. CASE WriteRow
      BY <3>3 DEF WriteRow, Starting, ViewInv, QuietInv
    <3>4. CASE Interrupt
      BY <3>4 DEF Interrupt, Starting, ViewInv
    <3>5. CASE pc \in {"entry", "body", "exit", "clear"} /\ UNCHANGED status
      BY <3>5 DEF Starting, ViewInv
    <3>6. QED
      BY <1>1, <3>1, <3>2, <3>3, <3>4, <3>5
         DEF Worker, Proceed, EntryCheck, Honour, Work, Poll, BeginStage, BodyEnd, ExitCheck,
             BodyFails, ErrorStorm, ClearFile
  <2>3. QED BY <1>s, <2>1, <2>2 DEF ViewInv
<1>2. ASSUME NEW c \in Clickers, Clicker(c) PROVE ViewInv'
  <2>1. /\ UNCHANGED <<pc, cur>>
        /\ \A d \in Clickers : d # c => cpc'[d] = cpc[d]
        /\ status'[Root] = status[Root] \/ status'[Root] = "CANCELLING"
    BY <1>2, CancelEffect, ClickerEffect
  <2>2. cpc'[c] = "undo" => status[Root] \in TERMINAL
    BY <1>2 DEF Clicker, Click, CheckFile, WriteFile, UpdateRow, Busy, Undo, Finalize, SetClicker,
                QuietInv
  <2>3. QED BY <1>s, <2>1, <2>2 DEF ViewInv, Starting
<1>3. ASSUME NEW j \in Jobs, Judge(j) \/ Reap(j) PROVE ViewInv'
  <2>1. status'[Root] \in {status[Root], "INTERRUPTED"} /\ UNCHANGED <<pc, cur, cpc>>
    BY <1>3 DEF Judge, Reap, workerVars
  <2>2. QED BY <1>s, <2>1 DEF ViewInv, Starting
<1>4. ASSUME NEW p \in Procs, Crash(p) PROVE ViewInv'
  BY <1>4 DEF Crash, ViewInv, Starting
<1>5. CASE UNCHANGED vars
  BY <1>5 DEF vars, workerVars, ViewInv, Starting
<1>6. QED
  <2>1. \A p \in Procs : ~ResumeJob(p)
    BY DEF ResumeJob, StopsOnly
  <2>2. QED BY <1>1, <1>2, <1>3, <1>4, <1>5, <2>1 DEF Next, Reaper

\* The root only moves on, and nothing but its end drops a recorded cancel.
LEMMA Onward ==
    ASSUME StopsOnly, StopInv, ViewInv, [Next]_vars
    PROVE  /\ Starting' => Starting \/ status[Root] = None
           /\ status'[Root] \in {None, "PENDING"} => status[Root] \in {None, "PENDING"}
           /\ status'[Root] \in TERMINAL => status[Root] \in ACTIVE \cup TERMINAL /\ ~Starting
           /\ status[Root] \in ACTIVE /\ ~Starting /\ status'[Root] \notin TERMINAL
                => /\ status[Root] = "CANCELLING" => status'[Root] = "CANCELLING"
                   /\ file[Root] = "CANCELLING" => file'[Root] = "CANCELLING"
<1>e. EndInv /\ QuietInv /\ FinalInv /\ TypeOK /\ Root \in Jobs
  BY NStagesAssumption DEF Jobs, Root, StopInv, EndInv
<1> DEFINE Goal ==
        /\ Starting' => Starting \/ status[Root] = None
        /\ status'[Root] \in {None, "PENDING"} => status[Root] \in {None, "PENDING"}
        /\ status'[Root] \in TERMINAL => status[Root] \in ACTIVE \cup TERMINAL /\ ~Starting
        /\ status[Root] \in ACTIVE /\ ~Starting /\ status'[Root] \notin TERMINAL
             => /\ status[Root] = "CANCELLING" => status'[Root] = "CANCELLING"
                /\ file[Root] = "CANCELLING" => file'[Root] = "CANCELLING"
<1>t. Starting => status[Root] \notin TERMINAL
  BY <1>e DEF FinalInv, Starting, None, TERMINAL
<1>k. status'[Root] = status[Root] /\ file'[Root] = file[Root]
        /\ (Starting' => Starting \/ status[Root] = None) => Goal
  BY <1>t DEF ACTIVE, TERMINAL, None
<1> USE <1>e DEF TypeOK, ACTIVE, TERMINAL, None
<1>1. CASE Worker
  <2>1. CASE \E p \in Procs : Begin(p)
    BY <1>k, <2>1 DEF Begin
  <2>2. CASE CreateJob
    BY <1>k, <2>2 DEF CreateJob, Starting, FinalInv
  <2>3. CASE DropLeftover
    BY <1>t, <2>3 DEF DropLeftover, Starting
  <2>4. CASE StartJob
    <3>1. CASE cur = Root
      BY <2>4, <3>1 DEF StartJob, Starting
    <3>2. CASE cur # Root
      BY <1>k, <2>4, <3>2 DEF StartJob, Starting
    <3>3. QED BY <3>1, <3>2
  <2>5. CASE Interrupt
    BY <1>t, <2>5 DEF Interrupt, Starting, Propagate
  <2>6. CASE WriteRow
    <3>1. status'[Root] = status[Root] \/ (cur = Root /\ status'[Root] = target)
      BY <2>6 DEF WriteRow
    <3>2. UNCHANGED file /\ ~Starting' /\ ~Starting /\ pc # "idle" /\ target \in TERMINAL
      BY <2>6 DEF WriteRow, Starting, QuietInv
    <3>3. QED BY <3>1, <3>2 DEF ViewInv
  <2>7. CASE ClearFile
    <3>1. UNCHANGED status /\ pc = "clear" /\ ~Starting'
      BY <2>7 DEF ClearFile, Propagate, Starting
    <3>2. cur = Root => status[Root] \in TERMINAL
      BY <3>1 DEF FinalInv, QuietInv
    <3>3. cur # Root => file'[Root] = file[Root]
      BY <2>7 DEF ClearFile
    <3>4. QED BY <1>t, <3>1, <3>2, <3>3
  <2>8. CASE pc \in {"entry", "body", "exit"} /\ UNCHANGED <<status, file>> /\ ~Starting'
    BY <1>k, <2>8
  <2>9. QED
    <3>1. CASE EntryCheck \/ Poll \/ ExitCheck \/ Work \/ BodyEnd
      BY <2>8, <3>1 DEF EntryCheck, Poll, ExitCheck, Honour, Work, BodyEnd, Starting, workerVars
    <3>2. CASE BeginStage \/ BodyFails \/ ErrorStorm
      BY <2>8, <3>2 DEF BeginStage, BodyFails, ErrorStorm, Propagate, Starting, Unstarted
    <3>3. QED
      BY <1>1, <2>1, <2>2, <2>3, <2>4, <2>5, <2>6, <2>7, <3>1, <3>2 DEF Worker, Proceed
<1>2. ASSUME NEW c \in Clickers, Clicker(c) PROVE Goal
  <2>1. /\ UNCHANGED <<pc, cur>>
        /\ status'[Root] = status[Root]
           \/ (cpc[c] = "row" /\ status[Root] \notin TERMINAL /\ status'[Root] = "CANCELLING")
    BY <1>2, CancelEffect DEF workerVars
  <2>2. cpc[c] = "row" => status[Root] # None
    BY DEF EndInv
  <2>3. file'[Root] \in {file[Root], "CANCELLING"} \/ (cpc[c] = "undo" /\ status[Root] \in TERMINAL)
    BY <1>2 DEF Clicker, Click, CheckFile, WriteFile, UpdateRow, Busy, Undo, Finalize, QuietInv, ViewInv
  <2>4. QED BY <1>t, <2>1, <2>2, <2>3 DEF Starting
<1>3. ASSUME NEW j \in Jobs, Judge(j) \/ Reap(j) PROVE Goal
  <2>1. CASE Reap(j) /\ j = Root
    <3>1. status'[Root] = "INTERRUPTED" /\ status[Root] \in ACTIVE /\ UNCHANGED <<pc, cur>>
      BY <2>1 DEF Reap, FinalInv, workerVars
    <3>2. ~Starting
      BY <2>1, <3>1 DEF Reap, EndInv, Settling, Leaving, Starting
    <3>3. QED BY <3>1, <3>2 DEF Starting
  <2>2. CASE Judge(j) \/ (Reap(j) /\ j # Root)
    <3>1. status'[Root] = status[Root] /\ file'[Root] = file[Root] /\ UNCHANGED <<pc, cur>>
      BY <2>2 DEF Judge, Reap, workerVars
    <3>2. QED BY <1>k, <3>1 DEF Starting
  <2>3. QED BY <1>3, <2>1, <2>2
<1>4. ASSUME NEW p \in Procs, Crash(p) PROVE Goal
  BY <1>4, <1>k DEF Crash, Starting
<1>5. CASE UNCHANGED vars
  BY <1>5, <1>k DEF vars, workerVars, Starting
<1>6. QED
  <2>1. \A p \in Procs : ~ResumeJob(p)
    BY DEF ResumeJob, StopsOnly
  <2>2. QED BY <1>1, <1>2, <1>3, <1>4, <1>5, <2>1 DEF Next, Reaper

\* A step of the contract, told by where the run is before and after it.
LEMMA ContractStep ==
    ASSUME runView = "new" => runView' \in {"new", "going"},
           runView = "going" => runView' = "over" \/ (runView' = "going" /\ (askedView => askedView')),
           runView = "over" => runView' = "over"
    PROVE  [Contract!Next]_(Contract!cvars)
<1>1. /\ runView \in {"new", "going", "over"} /\ askedView \in BOOLEAN /\ askedView' \in BOOLEAN
      /\ askedView => runView = "going"
      /\ askedView' => runView' = "going"
  BY DEF runView, askedView
<1>2. CASE runView = "new"
  BY <1>1, <1>2 DEF Contract!Next, Contract!Start, Contract!cvars
<1>3. CASE runView = "going"
  BY <1>1, <1>3 DEF Contract!Next, Contract!Ask, Contract!End, Contract!cvars
<1>4. CASE runView = "over"
  BY <1>1, <1>4 DEF Contract!cvars
<1>5. QED BY <1>1, <1>2, <1>3, <1>4

\* Every run of the control plane that is cancelled or interrupted is, seen by
\* its user, a run of StopContract but for the promise that it ends: it is over
\* once, and a recorded cancel is never dropped before that.
THEOREM StopContractIsKept ==
    ASSUME StopsOnly
    PROVE  Spec => Contract!Init /\ [][Contract!Next]_(Contract!cvars)
<1>1. Init => Contract!Init /\ ViewInv
  <2> SUFFICES ASSUME Init PROVE Contract!Init /\ ViewInv
    OBVIOUS
  <2>1. status[Root] = None
    <3>1. Root \in Jobs
      BY NStagesAssumption DEF Jobs, Root
    <3>2. QED BY <3>1 DEF Init
  <2>2. runView = "new"
    BY <2>1 DEF runView, None, TERMINAL
  <2>3. QED BY <2>2 DEF Init, Contract!Init, askedView, ViewInv
<1>2. StopInv /\ ViewInv /\ [Next]_vars => ViewInv' /\ [Contract!Next]_(Contract!cvars)
  <2> SUFFICES ASSUME StopInv, ViewInv, [Next]_vars PROVE [Contract!Next]_(Contract!cvars)
    BY ViewStep
  <2>1. \A j \in Jobs : status[j] # "PAUSED" /\ status'[j] # "PAUSED"
    BY QuietStep DEF StopInv, EndInv, QuietInv
  <2> DEFINE Fresh == status[Root] \in {None, "PENDING"} \/ Starting
  <2>r. Root \in Jobs
    BY NStagesAssumption DEF Jobs, Root
  <2>2. status[Root] # "PAUSED" /\ status'[Root] # "PAUSED"
    BY <2>1, <2>r
  <2>f. (Starting => status[Root] \notin TERMINAL) /\ (Starting' => status'[Root] \notin TERMINAL)
    BY FinalStep DEF StopInv, FinalInv, Starting, None, TERMINAL
  <2>3. /\ runView = "new" <=> Fresh
        /\ runView = "over" <=> ~Fresh /\ status[Root] \in TERMINAL
        /\ runView = "going" <=> ~Fresh /\ status[Root] \notin TERMINAL
    BY <2>2, <2>f DEF runView, None, TERMINAL
  <2>4. /\ runView' = "new" <=> Fresh'
        /\ runView' = "over" <=> ~Fresh' /\ status'[Root] \in TERMINAL
        /\ runView' = "going" <=> ~Fresh' /\ status'[Root] \notin TERMINAL
    BY <2>2, <2>f DEF runView, None, TERMINAL
  <2>5. ~Fresh => ~Fresh'
    BY Onward DEF None
  <2>6. status'[Root] \in TERMINAL => ~Fresh
    BY Onward DEF ACTIVE, TERMINAL, None
  <2>7. status[Root] \in TERMINAL => status'[Root] = status[Root]
    BY <2>r, TerminalStays
  <2>8. ~Fresh /\ status[Root] \notin TERMINAL => status[Root] \in ACTIVE
    BY <2>2, <2>r DEF StopInv, EndInv, TypeOK, JOB_STATES
  <2>9. runView = "going" /\ runView' = "going" /\ askedView => askedView'
    BY <2>3, <2>4, <2>8, Onward DEF askedView
  <2>10. runView = "new" => runView' \in {"new", "going"}
    BY <2>3, <2>4, <2>6
  <2>11. runView = "going" => runView' \in {"going", "over"}
    BY <2>3, <2>4, <2>5
  <2>12. runView = "over" => runView' = "over"
    BY <2>3, <2>4, <2>5, <2>7
  <2>13. QED BY <2>9, <2>10, <2>11, <2>12, ContractStep
<1>3. Spec => []StopInv
  BY StopAlways
<1>4. QED BY <1>1, <1>2, <1>3, PTL DEF Spec
=============================================================================
