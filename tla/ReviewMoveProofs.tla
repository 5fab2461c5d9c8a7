------------------------- MODULE ReviewMoveProofs -------------------------
(* Theorems about ReviewMove for every set of files, snapshots and contents and
   any number of commands, run one after the other.                         *)
EXTENDS ReviewMove, TLAPS

\* Commands do not overlap.
OneAtATime == \A a, b \in Operators : a = b

---------------------------------------------------------------------------
(* The inductive invariant.  NothingLost alone does not say that what a command
   is about to overwrite or remove is not the last copy of another file.     *)

Moving(o) == pc[o] \in {"copy", "copying", "copied", "unlink"}

\* The other files with the same place are on their drives.
OthersInPlace ==
    \A o \in Operators : Moving(o) =>
        \A f \in Files : Unchanged(f) /\ f # File(o) /\ Place[f] = Place[File(o)] =>
            disk[f] = Holds[f]

\* The one copy under the review root is never that of two twins.
OneAway ==
    \A f, g \in Files : g \in Twins(f) /\ g # f /\ Unchanged(f) =>
        disk[f] = Holds[f] \/ disk[g] = Holds[g]

\* Until its copy is verified a file is where it was; from then on, where it goes.
InHand ==
    \A o \in Operators : Moving(o) /\ File(o) \notin touched =>
        disk[IF pc[o] = "unlink" THEN To(o) ELSE From(o)] = Holds[File(o)]

Safe == OthersInPlace /\ OneAway /\ InHand /\ NothingLost
IInv == TypeOK /\ Safe

LEMMA InitInv == Init => IInv
<1> SUFFICES ASSUME Init PROVE IInv
  OBVIOUS
<1>1. TypeOK
  BY ReviewAssumption DEF Init, TypeOK, Paths, Contents, Steps
<1>2. OthersInPlace /\ InHand
  BY DEF Init, OthersInPlace, InHand, Moving
<1>3. NothingLost /\ OneAway
  BY DEF Init, NothingLost, OneAway, Paths
<1>4. QED BY <1>1, <1>2, <1>3 DEF IInv, Safe

---------------------------------------------------------------------------
(* Type correctness.                                                        *)

LEMMA FileType ==
    ASSUME TypeOK, NEW o \in Operators, pc[o] \notin {"idle", "next"}
    PROVE  /\ File(o) \in Files /\ From(o) \in Paths /\ To(o) \in Paths
           /\ cmd[o] \in {"move", "restore"}
BY DEF TypeOK, File, From, To, Paths, Entries

LEMMA StopType ==
    ASSUME TypeOK, NEW o \in Operators, Stop(o),
           disk' = disk, started' = started, touched' = touched,
           trouble' \in Nat, log' \in [Transactions -> SUBSET Entries]
    PROVE  TypeOK'
BY DEF TypeOK, Stop, Go, Steps

LEMMA FailType ==
    ASSUME TypeOK, NEW o \in Operators, Fail(o), pc[o] \notin {"idle", "next"},
           disk' = disk, started' = started, touched' = touched, trouble' \in Nat
    PROVE  TypeOK'
<1>1. CASE cmd[o] = "move"
  BY <1>1 DEF TypeOK, Fail, Go, command, Steps
<1>2. CASE cmd[o] # "move"
  BY <1>2, StopType DEF Fail, TypeOK
<1>3. QED BY <1>1, <1>2

LEMMA KeepType ==
    ASSUME TypeOK, NEW o \in Operators, NEW records \in SUBSET Entries, Keep(o, records)
    PROVE  log' \in [Transactions -> SUBSET Entries]
BY DEF TypeOK, Keep

LEMMA TypeStep == TypeOK /\ [Next]_vars => TypeOK'
<1> SUFFICES ASSUME TypeOK, [Next]_vars PROVE TypeOK'
  OBVIOUS
<1>1. ASSUME NEW o \in Operators, NEW t \in Transactions,
             NEW approved \in SUBSET Entries, Move(o, t, approved)
      PROVE  TypeOK'
  BY <1>1 DEF Move, At, Go, TypeOK, Steps
<1>2. ASSUME NEW o \in Operators, NEW t \in Transactions, Restore(o, t) PROVE TypeOK'
  BY <1>2 DEF Restore, At, Go, TypeOK, Steps
<1>3. ASSUME NEW o \in Operators, NEW e \in Entries, Take(o, e) PROVE TypeOK'
  BY <1>3 DEF Take, At, Go, TypeOK, Steps
<1>4. ASSUME NEW o \in Operators, CopyBegin(o) PROVE TypeOK'
  <2>1. CASE disk[From(o)] = Absent
    BY <1>4, <2>1, FailType DEF CopyBegin, At, TypeOK
  <2>2. CASE disk[From(o)] # Absent
    BY <1>4, <2>2, FileType DEF CopyBegin, At, Go, TypeOK, Steps
  <2>3. QED BY <2>1, <2>2
<1>5. ASSUME NEW o \in Operators, CopyEnd(o) PROVE TypeOK'
  BY <1>5, FileType DEF CopyEnd, At, Go, command, TypeOK, Steps
<1>6. ASSUME NEW o \in Operators, CopyFails(o) PROVE TypeOK'
  BY <1>6, FailType DEF CopyFails, At, Trouble, TypeOK
<1>7. ASSUME NEW o \in Operators, CopyCorrupted(o) PROVE TypeOK'
  BY <1>7 DEF CopyCorrupted, At, Go, Trouble, command, TypeOK, Steps
<1>8. ASSUME NEW o \in Operators, VerifyCopy(o) PROVE TypeOK'
  BY <1>8, FileType DEF VerifyCopy, At, Go, command, TypeOK, Steps
<1>9. ASSUME NEW o \in Operators, Unlink(o) PROVE TypeOK'
  <2>1. CASE disk[From(o)] = Absent
    BY <1>9, <2>1, FailType DEF Unlink, At, TypeOK
  <2>2. CASE disk[From(o)] # Absent
    BY <1>9, <2>2, FileType DEF Unlink, At, Go, command, TypeOK, Steps
  <2>3. QED BY <2>1, <2>2
<1>10. ASSUME NEW o \in Operators, Record(o) PROVE TypeOK'
  BY <1>10 DEF Record, At, Go, TypeOK, Steps
<1>11. ASSUME NEW o \in Operators, RecordFails(o) \/ End(o) PROVE TypeOK'
  <2>1. log' \in [Transactions -> SUBSET Entries]
    BY <1>11, KeepType DEF RecordFails, End, TypeOK
  <2>2. QED BY <1>11, <2>1, StopType DEF RecordFails, End, Trouble, TypeOK
<1>12. ASSUME NEW o \in Operators, Crash(o) PROVE TypeOK'
  <2>1. buffer[o] \subseteq Entries
    BY DEF TypeOK
  <2>2. log' \in [Transactions -> SUBSET Entries]
    BY <1>12, <2>1, KeepType DEF Crash
  <2>3. QED BY <1>12, <2>2, StopType DEF Crash, Trouble, TypeOK
<1>13. ASSUME NEW p \in Paths, Edit(p) PROVE TypeOK'
  BY <1>13 DEF Edit, Trouble, command, TypeOK
<1>14. CASE UNCHANGED vars
  BY <1>14 DEF vars, command, TypeOK
<1>15. QED BY <1>1, <1>2, <1>3, <1>4, <1>5, <1>6, <1>7, <1>8, <1>9, <1>10, <1>11,
              <1>12, <1>13, <1>14 DEF Next

---------------------------------------------------------------------------
(* Safety.                                                                  *)

\* A step that writes one path of the file in hand keeps the rest of the disk.
Writes(o, p) == \A q \in Paths : q # p => disk'[q] = disk[q]

\* A destination is the file in hand, or no file at all.
LEMMA WritesItsOwn ==
    ASSUME TypeOK, NEW o \in Operators, Moving(o), Writes(o, To(o))
    PROVE  \A f \in Files : f # File(o) => disk'[f] = disk[f]
BY FileType, ReviewAssumption DEF Moving, Writes, To, Paths

\* What an operator that is not working on a file leaves to be shown.
LEMMA AtRest ==
    ASSUME OneAtATime, NEW o \in Operators, pc'[o] \notin {"copy", "copying", "copied", "unlink"}
    PROVE  OthersInPlace' /\ InHand'
BY DEF OneAtATime, OthersInPlace, InHand, Moving

\* A working operator that stays with its file.
LEMMA StaysAtWork ==
    ASSUME OneAtATime, TypeOK, NEW o \in Operators,
           entry' = entry, touched' = touched, cmd' = cmd, Moving(o),
           OthersInPlace, Writes(o, To(o)),
           File(o) \notin touched =>
               disk'[IF pc'[o] = "unlink" THEN To(o) ELSE From(o)] = Holds[File(o)]
    PROVE  OthersInPlace' /\ InHand'
<1>1. File(o)' = File(o) /\ From(o)' = From(o) /\ To(o)' = To(o)
  BY DEF File, From, To
<1>2. File(o) \in Files
  BY FileType DEF Moving
<1>3. ASSUME NEW f \in Files, Unchanged(f), f # File(o), Place[f] = Place[File(o)]
      PROVE  disk'[f] = Holds[f]
  <2>1. disk[f] = Holds[f]
    BY <1>3 DEF OthersInPlace
  <2>2. f # To(o) /\ f \in Paths
    BY <1>2, <1>3, ReviewAssumption DEF To, Paths
  <2>3. QED BY <2>1, <2>2 DEF Writes
<1>4. QED BY <1>1, <1>3 DEF OneAtATime, OthersInPlace, InHand, Unchanged

\* Writing the destination loses nothing while the source holds the content.
LEMMA WriteKeeps ==
    ASSUME TypeOK, NEW o \in Operators, Moving(o), Writes(o, To(o)), touched' = touched,
           OthersInPlace, NothingLost,
           File(o) \notin touched => disk[From(o)] = Holds[File(o)]
    PROVE  NothingLost'
<1>1. File(o) \in Files /\ cmd[o] \in {"move", "restore"}
  BY FileType DEF Moving
<1> SUFFICES ASSUME NEW f \in Files, Unchanged(f)
             PROVE  Holds[f] \in {disk'[f], disk'[Place[f]]}
  BY DEF NothingLost, Unchanged
<1>7. f \notin touched
  BY DEF Unchanged, Twins
<1>2. f \in Paths /\ Place[f] \in Paths /\ f # Place[f]
  BY ReviewAssumption DEF Paths
<1>3. CASE f = File(o)
  BY <1>2, <1>3, <1>7 DEF Writes, From, To
<1>4. CASE f # File(o) /\ Place[f] = Place[File(o)]
  <2>1. disk[f] = Holds[f]
    BY <1>4 DEF OthersInPlace
  <2>2. f # To(o)
    BY <1>1, <1>4, ReviewAssumption DEF To
  <2>3. QED BY <1>2, <2>1, <2>2 DEF Writes
<1>5. CASE f # File(o) /\ Place[f] # Place[File(o)]
  <2>1. f # To(o) /\ Place[f] # To(o)
    BY <1>1, <1>5, ReviewAssumption DEF To
  <2>2. QED BY <1>2, <2>1 DEF Writes, NothingLost
<1>6. QED BY <1>3, <1>4, <1>5

\* The disk stays as it is.
LEMMA SameDisk ==
    ASSUME NothingLost, OneAway, disk' = disk, touched' = touched
    PROVE  NothingLost' /\ OneAway'
BY DEF NothingLost, OneAway, Unchanged

\* A file that was in place is, unless it is the one in hand, whose twins are then.
LEMMA StillOneAway ==
    ASSUME OneAway, OthersInPlace, NEW o \in Operators, Moving(o), touched' = touched,
           \A f \in Files : f # File(o) => disk'[f] = disk[f]
    PROVE  OneAway'
<1>1. SUFFICES ASSUME NEW f \in Files, NEW g \in Files, g \in Twins(f), g # f, Unchanged(f)
               PROVE  disk'[f] = Holds[f] \/ disk'[g] = Holds[g]
  BY DEF OneAway, Unchanged
<1>2. Place[g] = Place[f] /\ Unchanged(g)
  BY <1>1 DEF Unchanged, Twins
<1>3. CASE f = File(o)
  BY <1>1, <1>2, <1>3 DEF OthersInPlace
<1>4. CASE g = File(o)
  BY <1>1, <1>2, <1>4 DEF OthersInPlace
<1>5. CASE f # File(o) /\ g # File(o)
  BY <1>1, <1>5 DEF OneAway
<1>6. QED BY <1>3, <1>4, <1>5

\* A failed step ends the work on its file.
LEMMA FailSafe ==
    ASSUME OneAtATime, TypeOK, NEW o \in Operators, Fail(o), NothingLost, OneAway,
           disk' = disk, touched' = touched
    PROVE  Safe'
<1>1. pc'[o] \in {"next", "idle"}
  BY DEF Fail, Stop, Go, TypeOK
<1>2. QED BY <1>1, AtRest, SameDisk DEF Safe

LEMMA SafetyStep ==
    ASSUME OneAtATime, IInv, [Next]_vars
    PROVE  Safe'
<1> USE DEF IInv, Safe
<1> DEFINE Goal == Safe'
<1>1. ASSUME NEW o \in Operators, disk' = disk, touched' = touched,
             pc'[o] \in {"idle", "next", "record"}
      PROVE  Goal
  BY <1>1, AtRest, SameDisk
<1>2. ASSUME NEW o \in Operators, NEW t \in Transactions,
             (\E approved \in SUBSET Entries : Move(o, t, approved)) \/ Restore(o, t)
      PROVE  Goal
  BY <1>1, <1>2 DEF Move, Restore, Go, TypeOK
<1>3. ASSUME NEW o \in Operators, NEW e \in Entries, Take(o, e) PROVE Goal
  <2>1. CASE ~Clear(o, e[1])
    BY <1>1, <1>3, <2>1 DEF Take, At
  <2>2. CASE Clear(o, e[1])
    <3>1. /\ pc'[o] = "copy" /\ File(o)' = e[1] /\ cmd' = cmd
          /\ UNCHANGED <<disk, touched>> /\ e[1] \in Files
      BY <1>3, <2>2 DEF Take, Go, File, TypeOK, Entries
    <3>2. cmd[o] \in {"move", "restore"}
      BY <1>3 DEF Take, At, TypeOK
    <3>3. disk'[From(o)'] = Holds[e[1]]
      BY <2>2, <3>1, <3>2 DEF Clear, From
    <3>4. ASSUME NEW f \in Files, Unchanged(f), f # e[1], Place[f] = Place[e[1]]
          PROVE  disk[f] = Holds[f]
      <4>1. CASE Holds[f] # disk[Place[f]]
        BY <3>4, <4>1 DEF NothingLost
      <4>2. CASE Holds[f] = disk[Place[f]]
        \* The one under the review root is about to be restored: a twin of f.
        <5>1. Holds[f] = Holds[e[1]] /\ disk[e[1]] = Absent /\ Absent # Holds[e[1]]
          BY <2>2, <3>1, <3>4, <4>2, ReviewAssumption DEF Clear, Contents
        <5>2. e[1] \in Twins(f)
          BY <3>1, <3>4, <5>1 DEF Twins
        <5>3. QED BY <3>1, <3>4, <5>1, <5>2 DEF OneAway
      <4>3. QED BY <4>1, <4>2
    <3>5. OthersInPlace'
      BY <3>1, <3>4 DEF OneAtATime, OthersInPlace, Unchanged
    <3>6. InHand'
      BY <3>1, <3>3 DEF OneAtATime, InHand
    <3>7. QED BY <3>1, <3>5, <3>6, SameDisk
  <2>3. QED BY <2>1, <2>2
<1>4. ASSUME NEW o \in Operators, CopyBegin(o) PROVE Goal
  <2>1. CASE disk[From(o)] = Absent
    BY <1>4, <2>1, FailSafe DEF CopyBegin
  <2>2. CASE disk[From(o)] # Absent
    <3>1. Moving(o) /\ pc[o] = "copy" /\ pc'[o] = "copying"
      BY <1>4, <2>2 DEF CopyBegin, At, Go, Moving, TypeOK
    <3>2. Writes(o, To(o)) /\ UNCHANGED <<entry, touched, cmd>>
      BY <1>4, <2>2 DEF CopyBegin, Writes, TypeOK
    <3>3. File(o) \notin touched => disk[From(o)] = Holds[File(o)]
      BY <3>1 DEF InHand
    <3>4. From(o) \in Paths /\ From(o) # To(o)
      BY <3>1, FileType, ReviewAssumption DEF From, To
    <3>5. OneAway'
      BY <3>1, <3>2, WritesItsOwn, StillOneAway
    <3>6. QED BY <3>1, <3>2, <3>3, <3>4, <3>5, StaysAtWork, WriteKeeps DEF Writes
  <2>3. QED BY <2>1, <2>2
<1>5. ASSUME NEW o \in Operators, CopyEnd(o) \/ CopyCorrupted(o) PROVE Goal
  <2>1. Moving(o) /\ pc[o] = "copying" /\ pc'[o] = "copied"
    BY <1>5 DEF CopyEnd, CopyCorrupted, At, Go, Moving, TypeOK
  <2>2. Writes(o, To(o)) /\ UNCHANGED <<entry, touched, cmd>>
    BY <1>5 DEF CopyEnd, CopyCorrupted, Writes, TypeOK, command
  <2>3. File(o) \notin touched => disk[From(o)] = Holds[File(o)]
    BY <2>1 DEF InHand
  <2>4. From(o) \in Paths /\ From(o) # To(o)
    BY <2>1, FileType, ReviewAssumption DEF From, To
  <2>5. OneAway'
    BY <2>1, <2>2, WritesItsOwn, StillOneAway
  <2>6. QED BY <2>1, <2>2, <2>3, <2>4, <2>5, StaysAtWork, WriteKeeps DEF Writes
<1>6. ASSUME NEW o \in Operators, CopyFails(o) PROVE Goal
  BY <1>6, FailSafe DEF CopyFails
<1>7. ASSUME NEW o \in Operators, VerifyCopy(o) PROVE Goal
  <2>1. Moving(o) /\ pc[o] = "copied" /\ UNCHANGED <<entry, touched, cmd>>
    BY <1>7 DEF VerifyCopy, At, Moving, command
  <2>2. CASE disk[To(o)] = Holds[File(o)]
    <3>1. pc'[o] = "unlink" /\ disk' = disk
      BY <1>7, <2>2 DEF VerifyCopy, Go, TypeOK
    <3>2. OthersInPlace' /\ InHand'
      BY <2>1, <2>2, <3>1, StaysAtWork DEF Writes
    <3>3. QED BY <2>1, <3>1, <3>2, SameDisk
  <2>3. CASE disk[To(o)] # Holds[File(o)]
    <3>1. pc'[o] = "next" /\ Writes(o, To(o))
      BY <1>7, <2>3 DEF VerifyCopy, Go, TypeOK, Writes
    <3>2. File(o) \notin touched => disk[From(o)] = Holds[File(o)]
      BY <2>1 DEF InHand
    <3>3. OneAway'
      BY <2>1, <3>1, WritesItsOwn, StillOneAway
    <3>4. QED BY <2>1, <3>1, <3>2, <3>3, AtRest, WriteKeeps
  <2>4. QED BY <2>2, <2>3
<1>8. ASSUME NEW o \in Operators, Unlink(o) PROVE Goal
  <2>1. CASE disk[From(o)] = Absent
    BY <1>8, <2>1, FailSafe DEF Unlink
  <2>2. CASE disk[From(o)] # Absent
    <3>1. Moving(o) /\ pc[o] = "unlink" /\ touched' = touched
          /\ pc'[o] \in {"record", "next"}
      BY <1>8, <2>2 DEF Unlink, At, Go, Moving, TypeOK
    <3>2. File(o) \in Files /\ From(o) # To(o) /\ From(o) \in {File(o), Place[File(o)]}
      BY <3>1, FileType, ReviewAssumption DEF From, To
    <3>3. \A q \in Paths : q # From(o) => disk'[q] = disk[q]
      BY <1>8, <2>2 DEF Unlink, TypeOK
    <3>4. ASSUME NEW f \in Files, Unchanged(f)
          PROVE  Holds[f] \in {disk'[f], disk'[Place[f]]}
      <4>0. f \notin touched
        BY <3>4 DEF Unchanged, Twins
      <4>1. f \in Paths /\ Place[f] \in Paths /\ f # Place[f]
        BY ReviewAssumption DEF Paths
      <4>2. CASE f = File(o)
        BY <3>1, <3>2, <3>3, <4>0, <4>1, <4>2 DEF InHand, To
      <4>3. CASE f # File(o) /\ Place[f] = Place[File(o)]
        <5>1. disk[f] = Holds[f] /\ f # From(o)
          BY <3>1, <3>2, <3>4, <4>1, <4>3, ReviewAssumption DEF OthersInPlace
        <5>2. QED BY <3>3, <4>1, <5>1
      <4>4. CASE f # File(o) /\ Place[f] # Place[File(o)]
        <5>1. f # From(o) /\ Place[f] # From(o)
          BY <3>2, <4>4, ReviewAssumption
        <5>2. QED BY <3>3, <3>4, <4>1, <5>1 DEF NothingLost
      <4>5. QED BY <4>2, <4>3, <4>4
    <3>5. NothingLost'
      BY <3>1, <3>4 DEF NothingLost, Unchanged
    <3>6. \A f \in Files : f # File(o) => disk'[f] = disk[f]
      BY <3>2, <3>3, ReviewAssumption DEF Paths
    <3>7. OneAway'
      BY <3>1, <3>6, StillOneAway
    <3>8. QED BY <3>1, <3>5, <3>7, AtRest
  <2>3. QED BY <2>1, <2>2
<1>9. ASSUME NEW o \in Operators, Record(o) \/ RecordFails(o) \/ End(o) \/ Crash(o)
      PROVE  Goal
  BY <1>1, <1>9 DEF Record, RecordFails, End, Crash, Stop, Go, TypeOK
<1>10. ASSUME NEW p \in Paths, Edit(p) PROVE Goal
  <2>1. \A f \in Files \ touched' :
            f \in Files \ touched /\ disk'[f] = disk[f] /\ disk'[Place[f]] = disk[Place[f]]
    BY <1>10 DEF Edit, TypeOK, Paths
  <2>7. \A f \in Files : Unchanged(f)' =>
            /\ Unchanged(f) /\ \A g \in Twins(f) : disk'[g] = disk[g]
            /\ disk'[f] = disk[f] /\ disk'[Place[f]] = disk[Place[f]]
    <3>1. ASSUME NEW f \in Files, Unchanged(f)' PROVE \A g \in Twins(f) : g \in Files \ touched'
      BY <3>1 DEF Unchanged, Twins
    <3>2. \A f \in Files : f \in Twins(f)
      BY DEF Twins
    <3>3. \A f \in Files : Unchanged(f)' => Unchanged(f)
      BY <2>1, <3>1 DEF Unchanged
    <3>4. QED BY <2>1, <3>1, <3>2, <3>3
  <2>2. UNCHANGED <<pc, cmd, entry>> /\ touched \subseteq touched'
    BY <1>10 DEF Edit, command
  <2>3. \A o \in Operators : /\ File(o)' = File(o) /\ From(o)' = From(o)
                             /\ To(o)' = To(o) /\ Moving(o)' = Moving(o)
    BY <2>2 DEF File, From, To, Moving
  <2>4. OthersInPlace'
    BY <2>3, <2>7 DEF OthersInPlace
  <2>5. InHand'
    <3> SUFFICES ASSUME NEW o \in Operators, Moving(o), File(o) \notin touched'
                 PROVE  disk'[IF pc[o] = "unlink" THEN To(o) ELSE From(o)] = Holds[File(o)]
      BY <2>2, <2>3 DEF InHand
    <3>1. File(o) \in Files
      BY FileType DEF Moving
    <3>2. disk[IF pc[o] = "unlink" THEN To(o) ELSE From(o)] = Holds[File(o)]
      BY <2>2 DEF InHand
    <3>3. QED BY <2>1, <3>1, <3>2 DEF From, To
  <2>6. NothingLost'
    BY <2>7 DEF NothingLost
  <2>8. OneAway'
    BY <2>7 DEF OneAway
  <2>9. QED BY <2>4, <2>5, <2>6, <2>8
<1>11. CASE UNCHANGED vars
  <2>1. UNCHANGED <<disk, touched, pc, cmd, entry>>
    BY <1>11 DEF vars, command
  <2>2. OthersInPlace' /\ InHand'
    BY <2>1 DEF OthersInPlace, InHand, Moving, File, From, To, Unchanged
  <2>3. QED BY <2>1, <2>2, SameDisk
<1>12. QED BY <1>2, <1>3, <1>4, <1>5, <1>6, <1>7, <1>8, <1>9, <1>10, <1>11 DEF Next

---------------------------------------------------------------------------
\* Type correctness of the disk, the manifests and every command.
THEOREM TypeCorrect == Spec => []TypeOK
<1>1. Init => TypeOK
  BY InitInv DEF IInv
<1>2. QED BY <1>1, TypeStep, PTL DEF Spec

\* Through any sequence of moves and restores, failed writes, silent corruption
\* of a copy, edits of other files and deaths at any instant, a file that no user
\* changed, nor a twin of it, is intact at its source or under the review root.
THEOREM MovesLoseNothing ==
    ASSUME OneAtATime
    PROVE  Spec => []NothingLost
<1>1. IInv /\ [Next]_vars => IInv'
  BY TypeStep, SafetyStep DEF IInv
<1>2. IInv => NothingLost
  BY DEF IInv, Safe
<1>3. QED BY InitInv, <1>1, <1>2, PTL DEF Spec

---------------------------------------------------------------------------
(* The last copy.  A command's preflight looks at its manifest once, before the
   first copy; Survivors carries what it saw to the last unlink.            *)

\* Every file was recorded by one scan run.
OneSnapshot == \A s, t \in Snapshots : s = t

\* The entries a command may still take off their drive.
Planned(o) == todo[o] \cup (IF Moving(o) THEN {entry[o]} ELSE {})

\* A duplicated file that is to leave has a copy in place that is not to leave.
Survivors ==
    \A o \in Operators : cmd[o] = "move" =>
        \A e \in Planned(o) : Duplicated(e[1]) =>
            \E g \in Files : /\ Holds[g] = Holds[e[1]] /\ disk[g] = Holds[g]
                             /\ \A x \in Planned(o) : x[1] # g

\* What a restore is about to write over is not a copy.
NotThereYet ==
    \A o \in Operators :
        cmd[o] = "restore" /\ pc[o] \in {"copy", "copying"} /\ File(o) \notin touched =>
            disk[File(o)] # Holds[File(o)]

CopyInv == TypeOK /\ Survivors /\ NotThereYet /\ LastCopyStays

LEMMA CopyInit == Init => CopyInv
<1> SUFFICES ASSUME Init PROVE CopyInv
  OBVIOUS
<1>1. TypeOK
  BY InitInv DEF IInv
<1>2. \A f \in Files : f \in Paths /\ disk[f] = Holds[f]
  BY DEF Init, Paths
<1>3. QED BY <1>1, <1>2 DEF CopyInv, Init, Survivors, NotThereYet, LastCopyStays

\* A command whose plan shrinks and that leaves all other files alone.
LEMMA PlanShrinks ==
    ASSUME OneAtATime, NEW o \in Operators, Survivors,
           touched \subseteq touched', Planned(o)' \subseteq Planned(o),
           cmd'[o] = "move" => cmd[o] = "move",
           \A g \in Files : (\A x \in Planned(o) : x[1] # g) /\ g \notin touched' =>
                                disk'[g] = disk[g]
    PROVE  Survivors'
<1>1. \A f : Duplicated(f)' => Duplicated(f)
  BY DEF Duplicated
<1> SUFFICES ASSUME cmd'[o] = "move", NEW e \in Planned(o)', Duplicated(e[1])'
             PROVE  \E g \in Files : /\ Holds[g] = Holds[e[1]] /\ disk'[g] = Holds[g]
                                     /\ \A x \in Planned(o)' : x[1] # g
  BY DEF OneAtATime, Survivors
<1>2. PICK g \in Files : /\ Holds[g] = Holds[e[1]] /\ disk[g] = Holds[g]
                         /\ \A x \in Planned(o) : x[1] # g
  BY <1>1 DEF Survivors
<1>3. g \notin touched'
  BY <1>2 DEF Duplicated
<1>4. QED BY <1>2, <1>3

\* Files that stay as they are, or were not copies.
LEMMA CopiesStay ==
    ASSUME LastCopyStays, touched \subseteq touched',
           \A g \in Files \ touched' : disk[g] = Holds[g] => disk'[g] = Holds[g]
    PROVE  LastCopyStays'
BY DEF LastCopyStays, Duplicated

LEMMA StopPlans ==
    ASSUME TypeOK, NEW o \in Operators, Stop(o)
    PROVE  Planned(o)' = {} /\ cmd'[o] = "none" /\ pc'[o] = "idle"
BY DEF Stop, Go, Planned, Moving, TypeOK

\* A command that goes on without touching the disk, or ends.
LEMMA Continues ==
    ASSUME OneAtATime, CopyInv, NEW o \in Operators,
           UNCHANGED <<disk, touched>>,
           \/ Stop(o)
           \/ /\ UNCHANGED <<cmd, todo, entry>> /\ cmd[o] # "none"
              /\ pc'[o] \notin {"copy", "copying"} /\ (Moving(o)' => Moving(o))
    PROVE  Survivors' /\ NotThereYet' /\ LastCopyStays'
<1>1. Planned(o)' \subseteq Planned(o) /\ (cmd'[o] = "move" => cmd[o] = "move")
      /\ pc'[o] \notin {"copy", "copying"}
  BY StopPlans DEF Planned, CopyInv
<1>2. Survivors'
  BY <1>1, PlanShrinks DEF CopyInv
<1>3. NotThereYet'
  BY <1>1 DEF OneAtATime, NotThereYet
<1>4. QED BY <1>2, <1>3, CopiesStay DEF CopyInv

LEMMA FailContinues ==
    ASSUME OneAtATime, CopyInv, NEW o \in Operators, Fail(o), cmd[o] # "none",
           UNCHANGED <<disk, touched>>
    PROVE  Survivors' /\ NotThereYet' /\ LastCopyStays'
BY Continues DEF Fail, Go, Moving, command, CopyInv, TypeOK

LEMMA CopyStep ==
    ASSUME OneAtATime, OneSnapshot, CopyInv, [Next]_vars
    PROVE  Survivors' /\ NotThereYet' /\ LastCopyStays'
<1> USE DEF CopyInv
<1> DEFINE Goal == Survivors' /\ NotThereYet' /\ LastCopyStays'
<1>1. ASSUME NEW o \in Operators, NEW t \in Transactions,
             NEW approved \in SUBSET Entries, Move(o, t, approved)
      PROVE  Goal
  <2>1. /\ Planned(o)' = approved /\ pc'[o] = "next" /\ UNCHANGED <<disk, touched>>
    BY <1>1 DEF Move, Go, Planned, Moving, TypeOK
  <2>2. ASSUME NEW e \in approved, Duplicated(e[1])'
        PROVE  \E g \in Files : /\ Holds[g] = Holds[e[1]] /\ disk'[g] = Holds[g]
                                /\ \A x \in Planned(o)' : x[1] # g
    <3>1. PICK g \in Files : g # e[1] /\ Holds[g] = Holds[e[1]]
      BY <2>1, <2>2 DEF Duplicated
    <3>2. <<g, e[2]>> \in Copies(e) /\ <<g, e[2]>> # e
      BY <3>1 DEF Copies, Entries
    <3>3. PICK x \in Copies(e) \ approved : disk[x[1]] = Holds[x[1]]
      BY <1>1, <2>2, <3>2 DEF Move, Survives
    <3>4. \A y \in approved : y[1] # x[1]
      BY <3>3 DEF Copies, Entries, OneSnapshot
    <3>5. QED BY <2>1, <3>3, <3>4 DEF Copies, Entries
  <2>3. Survivors'
    BY <2>1, <2>2 DEF OneAtATime, Survivors
  <2>4. NotThereYet'
    BY <2>1 DEF OneAtATime, NotThereYet
  <2>5. QED BY <2>1, <2>3, <2>4, CopiesStay
<1>2. ASSUME NEW o \in Operators, NEW t \in Transactions, Restore(o, t) PROVE Goal
  <2>1. cmd'[o] = "restore" /\ pc'[o] = "next" /\ UNCHANGED <<disk, touched>>
    BY <1>2 DEF Restore, Go, TypeOK
  <2>2. Survivors' /\ NotThereYet'
    BY <2>1 DEF OneAtATime, Survivors, NotThereYet
  <2>3. QED BY <2>1, <2>2, CopiesStay
<1>3. ASSUME NEW o \in Operators, NEW e \in Entries, Take(o, e) PROVE Goal
  <2>1. /\ Planned(o)' \subseteq Planned(o) /\ UNCHANGED <<cmd, disk, touched>>
    BY <1>3 DEF Take, At, Go, Planned, Moving, TypeOK
  <2>2. Survivors'
    BY <2>1, PlanShrinks
  <2>3. NotThereYet'
    <3>1. CASE Clear(o, e[1])
      <4>1. File(o)' = e[1] /\ e[1] \in Files
        BY <1>3, <3>1 DEF Take, Go, File, TypeOK, Entries
      <4>2. cmd[o] = "restore" => disk'[e[1]] # Holds[e[1]]
        BY <2>1, <3>1, <4>1, ReviewAssumption DEF Clear, Contents
      <4>3. QED BY <2>1, <4>1, <4>2 DEF OneAtATime, NotThereYet
    <3>2. CASE ~Clear(o, e[1])
      BY <1>3, <3>2 DEF Take, At, OneAtATime, NotThereYet
    <3>3. QED BY <3>1, <3>2
  <2>4. QED BY <2>1, <2>2, <2>3, CopiesStay
<1>4. ASSUME NEW o \in Operators, Moving(o), Moving(o)', Writes(o, To(o)),
             UNCHANGED <<cmd, todo, entry, touched>>, pc[o] \in {"copy", "copying"},
             pc'[o] = "copying" => disk'[To(o)] = Torn, pc'[o] # "copy"
      PROVE  Goal
  <2>1. File(o) \in Files /\ File(o) \in Paths /\ cmd[o] \in {"move", "restore"}
    BY <1>4, FileType DEF Moving, Paths
  <2>2. ASSUME NEW g \in Files, g \notin touched, cmd[o] = "move" \/ disk[g] = Holds[g]
        PROVE  disk'[g] = disk[g]
    <3>1. g # To(o)
      BY <1>4, <2>1, <2>2, ReviewAssumption DEF To, NotThereYet
    <3>2. QED BY <1>4, <3>1 DEF Writes, Paths
  <2>3. Survivors'
    <3>1. CASE cmd[o] = "move"
      <4>1. Planned(o)' = Planned(o)
        BY <1>4 DEF Planned
      <4>2. QED BY <1>4, <2>2, <3>1, <4>1, PlanShrinks
    <3>2. CASE cmd[o] # "move"
      BY <1>4, <3>2 DEF OneAtATime, Survivors
    <3>3. QED BY <3>1, <3>2
  <2>4. NotThereYet'
    <3>1. File(o)' = File(o) /\ (cmd[o] = "restore" => To(o) = File(o))
      BY <1>4 DEF File, To
    <3>2. Torn # Holds[File(o)]
      BY <2>1, ReviewAssumption DEF Contents
    <3>3. QED BY <1>4, <3>1, <3>2 DEF OneAtATime, NotThereYet
  <2>5. QED BY <1>4, <2>2, <2>3, <2>4, CopiesStay
<1>5. ASSUME NEW o \in Operators, CopyBegin(o) PROVE Goal
  <2>1. CASE disk[From(o)] = Absent
    BY <1>5, <2>1, FailContinues DEF CopyBegin, At, TypeOK
  <2>2. CASE disk[From(o)] # Absent
    <3>1. To(o) \in Paths
      BY <1>5, FileType DEF CopyBegin, At
    <3>2. Moving(o) /\ Moving(o)' /\ Writes(o, To(o)) /\ disk'[To(o)] = Torn
          /\ UNCHANGED <<cmd, todo, entry, touched>> /\ pc[o] = "copy" /\ pc'[o] = "copying"
      BY <1>5, <2>2, <3>1 DEF CopyBegin, At, Go, Moving, Writes, TypeOK
    <3>3. QED BY <1>4, <3>2
  <2>3. QED BY <2>1, <2>2
<1>6. ASSUME NEW o \in Operators, CopyEnd(o) \/ CopyCorrupted(o) PROVE Goal
  <2>1. Moving(o) /\ Moving(o)' /\ Writes(o, To(o)) /\ pc[o] = "copying"
        /\ UNCHANGED <<cmd, todo, entry, touched>> /\ pc'[o] = "copied"
    BY <1>6 DEF CopyEnd, CopyCorrupted, At, Go, Moving, Writes, TypeOK, command
  <2>2. QED BY <1>4, <2>1
<1>7. ASSUME NEW o \in Operators, CopyFails(o) PROVE Goal
  BY <1>7, FailContinues DEF CopyFails, At, TypeOK
<1>8. ASSUME NEW o \in Operators, VerifyCopy(o) PROVE Goal
  <2>1. Moving(o) /\ UNCHANGED <<cmd, todo, entry, touched>> /\ cmd[o] \in {"move", "restore"}
        /\ pc'[o] \in {"unlink", "next"} /\ (Moving(o)' => Moving(o))
    BY <1>8 DEF VerifyCopy, At, Go, Moving, command, TypeOK
  <2>2. CASE disk' = disk
    BY <2>1, <2>2, Continues
  <2>3. CASE disk' # disk
    <3>1. /\ cmd[o] = "restore" /\ disk[To(o)] # Holds[File(o)] /\ Writes(o, To(o))
      BY <1>8, <2>1, <2>3 DEF VerifyCopy, Writes, TypeOK
    <3>2. Survivors' /\ NotThereYet'
      BY <2>1, <3>1 DEF OneAtATime, Survivors, NotThereYet
    <3>3. \A g \in Files \ touched' : disk[g] = Holds[g] => disk'[g] = Holds[g]
      BY <3>1 DEF Writes, To, Paths
    <3>4. QED BY <2>1, <3>2, <3>3, CopiesStay
  <2>4. QED BY <2>2, <2>3
<1>9. ASSUME NEW o \in Operators, Unlink(o) PROVE Goal
  <2>1. CASE disk[From(o)] = Absent
    BY <1>9, <2>1, FailContinues DEF Unlink, At, TypeOK
  <2>2. CASE disk[From(o)] # Absent
    <3>1. /\ Moving(o) /\ ~Moving(o)' /\ pc'[o] \notin {"copy", "copying"}
          /\ UNCHANGED <<cmd, todo, entry, touched>>
          /\ \A q \in Paths : q # From(o) => disk'[q] = disk[q]
      BY <1>9, <2>2 DEF Unlink, At, Go, Moving, command, TypeOK
    <3>2. File(o) \in Files /\ cmd[o] \in {"move", "restore"}
      BY <3>1, FileType DEF Moving
    <3>3. NotThereYet'
      BY <3>1 DEF OneAtATime, NotThereYet
    <3>4. CASE cmd[o] = "move"
      <4>1. Planned(o)' \subseteq Planned(o) /\ entry[o] \in Planned(o)
        BY <3>1 DEF Planned
      <4>2. \A g \in Files : g # File(o) => disk'[g] = disk[g]
        BY <3>1, <3>4 DEF From, Paths
      <4>3. Survivors'
        BY <3>1, <4>1, <4>2, PlanShrinks DEF File
      <4>4. ASSUME NEW f \in Files, Duplicated(f)
            PROVE  \E g \in Files : Holds[g] = Holds[f] /\ disk'[g] = Holds[g]
        <5>1. CASE Holds[f] = Holds[File(o)]
          <6>1. Duplicated(File(o))
            BY <3>2, <4>4, <5>1 DEF Duplicated
          <6>2. PICK g \in Files : /\ Holds[g] = Holds[File(o)] /\ disk[g] = Holds[g]
                                   /\ g # File(o)
            BY <3>4, <4>1, <6>1 DEF Survivors, File
          <6>3. QED BY <4>2, <5>1, <6>2
        <5>2. CASE Holds[f] # Holds[File(o)]
          BY <4>2, <4>4, <5>2 DEF LastCopyStays
        <5>3. QED BY <5>1, <5>2
      <4>5. LastCopyStays'
        BY <3>1, <4>4 DEF LastCopyStays, Duplicated
      <4>6. QED BY <3>3, <4>3, <4>5
    <3>5. CASE cmd[o] = "restore"
      <4>1. \A g \in Files : disk'[g] = disk[g]
        BY <3>1, <3>2, <3>5, ReviewAssumption DEF From, Paths
      <4>2. Survivors'
        BY <3>1, <3>5 DEF OneAtATime, Survivors
      <4>3. QED BY <3>1, <3>3, <4>1, <4>2, CopiesStay
    <3>6. QED BY <3>2, <3>4, <3>5
  <2>3. QED BY <2>1, <2>2
<1>10. ASSUME NEW o \in Operators, Record(o) PROVE Goal
  BY <1>10, Continues DEF Record, At, Go, Moving, TypeOK
<1>11. ASSUME NEW o \in Operators, RecordFails(o) \/ End(o) \/ Crash(o) PROVE Goal
  BY <1>11, Continues DEF RecordFails, End, Crash
<1>12. ASSUME NEW p \in Paths, Edit(p) PROVE Goal
  <2>1. /\ UNCHANGED <<cmd, todo, entry, pc>> /\ touched \subseteq touched'
        /\ \A g \in Files \ touched' : disk'[g] = disk[g]
    BY <1>12 DEF Edit, command, TypeOK, Paths
  <2>2. Survivors'
    <3>1. \A o \in Operators : Planned(o)' = Planned(o)
      BY <2>1 DEF Planned, Moving
    <3>2. ASSUME NEW o \in Operators PROVE Survivors'
      BY <2>1, <3>1, PlanShrinks
    <3>3. QED BY <3>2 DEF Survivors
  <2>3. NotThereYet'
    <3>1. \A o \in Operators : File(o)' = File(o)
      BY <2>1 DEF File
    <3>2. \A o \in Operators : pc[o] \in {"copy", "copying"} => File(o) \in Files
      BY FileType
    <3>3. QED BY <2>1, <3>1, <3>2 DEF NotThereYet
  <2>4. QED BY <2>1, <2>2, <2>3, CopiesStay
<1>13. CASE UNCHANGED vars
  BY <1>13 DEF vars, command, Survivors, NotThereYet, LastCopyStays, Planned, Moving,
               File, Duplicated
<1>14. QED BY <1>1, <1>2, <1>3, <1>5, <1>6, <1>7, <1>8, <1>9, <1>10, <1>11, <1>12,
              <1>13 DEF Next

\* When every file was recorded by one scan run, the copies of a duplicated file
\* never all leave the drives: the preflight's one look at the manifest is
\* enough for every later unlink, and a restore overwrites no copy.
THEOREM LastCopyIsKept ==
    ASSUME OneAtATime, OneSnapshot
    PROVE  Spec => []LastCopyStays
<1>1. CopyInv /\ [Next]_vars => CopyInv'
  BY TypeStep, CopyStep DEF CopyInv
<1>2. CopyInv => LastCopyStays
  BY DEF CopyInv
<1>3. QED BY CopyInit, <1>1, <1>2, PTL DEF Spec
===========================================================================
