---------------------------- MODULE ReviewMove ----------------------------
(* The only commands of housekeeper that change a drive: move-to-review, of
   src/src/housekeeper/review_mover.py, and restore, of restore.py, with the
   user editing files meanwhile, writes that fail and processes that die.

   A file's content stands for its bytes and its hash.  The inventory is fixed:
   every snapshot recorded every file with the content it holds, verified and
   linked to its content object.  A dry run changes nothing and is left out.  *)
EXTENDS Naturals, FiniteSets

CONSTANTS
    Files,        \* the files on the source drives
    Place,        \* the path under the review root each file is moved to
    Holds,        \* the content each file had when it was scanned
    Snapshots,    \* the scan runs that recorded the files
    Operators,    \* the processes that run commands
    Transactions, \* 1..n; bound: the moves of a behaviour
    MaxTrouble    \* bound: edits, failures and deaths of a behaviour

Absent == "absent"      \* no file at the path
Torn == "torn"          \* a copy cut short, of no recorded content
Other == "other"        \* what a user wrote, of no recorded content

Paths == Files \cup {Place[f] : f \in Files}
Contents == {Holds[f] : f \in Files}

ASSUME ReviewAssumption ==
    /\ IsFiniteSet(Files)
    \* validate_review_root: neither root contains the other.
    /\ \A f \in Files : Place[f] \notin Files
    /\ {Absent, Torn, Other} \cap Contents = {}
    /\ Transactions \subseteq Nat /\ MaxTrouble \in Nat

\* A filesystem_entries row: a file as one snapshot recorded it.
Entries == Files \X Snapshots
NoEntry == << >>

VARIABLES
    disk,       \* what each path holds
    log,        \* the MOVED records of each transaction manifest
    started,    \* the transactions begun so far
    cmd,        \* what each operator runs: "none", "move" or "restore"
    pc,         \* where each operator is in its command
    tx,         \* the transaction it writes
    todo,       \* the entries, or the records, it has still to take
    entry,      \* the one it has in hand
    got,        \* the content its copy read
    buffer,     \* MOVED records it has written and not yet closed the file on
    touched,    \* history: files whose source or review copy a user changed
    trouble     \* history: edits, failures and deaths so far

command == <<cmd, tx, todo, entry, got, buffer>>
vars == <<disk, log, started, command, pc, touched, trouble>>

Steps == {"idle", "next", "copy", "copying", "copied", "unlink", "record"}

TypeOK ==
    /\ disk \in [Paths -> Contents \cup {Absent, Torn, Other}]
    /\ log \in [Transactions -> SUBSET Entries] /\ started \subseteq Transactions
    /\ cmd \in [Operators -> {"none", "move", "restore"}]
    /\ pc \in [Operators -> Steps]
    /\ tx \in [Operators -> Transactions \cup {0}]
    /\ todo \in [Operators -> SUBSET Entries]
    /\ entry \in [Operators -> Entries \cup {NoEntry}]
    /\ got \in [Operators -> Contents \cup {Absent, Torn, Other}]
    /\ buffer \in [Operators -> SUBSET Entries]
    /\ touched \subseteq Files /\ trouble \in Nat
    \* An operator that has an entry in hand runs a command.
    /\ \A o \in Operators :
         /\ pc[o] \notin {"idle", "next"} => entry[o] \in Entries
         /\ pc[o] = "idle" <=> cmd[o] = "none"
         /\ pc[o] = "record" => cmd[o] = "move"
         /\ cmd[o] = "move" => tx[o] \in Transactions

Init ==
    /\ disk = [p \in Paths |-> IF p \in Files THEN Holds[p] ELSE Absent]
    /\ log = [t \in Transactions |-> {}] /\ started = {}
    /\ cmd = [o \in Operators |-> "none"] /\ pc = [o \in Operators |-> "idle"]
    /\ tx = [o \in Operators |-> 0] /\ todo = [o \in Operators |-> {}]
    /\ entry = [o \in Operators |-> NoEntry] /\ got = [o \in Operators |-> Absent]
    /\ buffer = [o \in Operators |-> {}]
    /\ touched = {} /\ trouble = 0

---------------------------------------------------------------------------
At(o, step) == pc[o] = step
Go(o, step) == pc' = [pc EXCEPT ![o] = step]

Trouble == trouble < MaxTrouble /\ trouble' = trouble + 1

\* The command is over, and with it all its process knew.
Stop(o) ==
    /\ Go(o, "idle")
    /\ cmd' = [cmd EXCEPT ![o] = "none"] /\ tx' = [tx EXCEPT ![o] = 0]
    /\ todo' = [todo EXCEPT ![o] = {}] /\ entry' = [entry EXCEPT ![o] = NoEntry]
    /\ got' = [got EXCEPT ![o] = Absent] /\ buffer' = [buffer EXCEPT ![o] = {}]

\* Closing the transaction manifest, or a crash, leaves these records in it.
Keep(o, records) ==
    log' = IF cmd[o] = "move" THEN [log EXCEPT ![tx[o]] = records] ELSE log

\* An OSError or ValueError: a move records the file FAILED and goes on to the
\* next; a restore has no handler and ends.
Fail(o) ==
    \/ /\ cmd[o] = "move"
       /\ Go(o, "next")
       /\ UNCHANGED <<log, command>>
    \/ /\ cmd[o] = "restore"
       /\ Stop(o)
       /\ UNCHANGED log

File(o) == entry[o][1]
From(o) == IF cmd[o] = "move" THEN File(o) ELSE Place[File(o)]
To(o) == IF cmd[o] = "move" THEN Place[File(o)] ELSE File(o)

---------------------------------------------------------------------------
(* The two commands.                                                        *)

\* The rows linked to the content object of an entry.
Copies(e) == {x \in Entries : Holds[x[1]] = Holds[e[1]]}

\* Fault: a file of the manifest is taken for a survivor of another one.
AnyCopySurvives(approved) ==
    \A e \in approved :
        (\E x \in Copies(e) : x # e) => \E x \in Copies(e) : disk[x[1]] = Holds[x[1]]

\* The preflight: a content object with several recorded copies keeps one that
\* is not approved and is on disk as it was recorded.
Survives(approved) ==
    \A e \in approved :
        (\E x \in Copies(e) : x # e) =>
            \E x \in Copies(e) \ approved : disk[x[1]] = Holds[x[1]]

\* move_approved_entries past its preflight; a refused manifest changes nothing.
Move(o, t, approved) ==
    /\ At(o, "idle") /\ t \in Transactions \ started
    /\ approved # {} /\ Survives(approved)
    /\ started' = started \cup {t}
    /\ cmd' = [cmd EXCEPT ![o] = "move"] /\ tx' = [tx EXCEPT ![o] = t]
    /\ todo' = [todo EXCEPT ![o] = approved]
    /\ Go(o, "next")
    /\ UNCHANGED <<disk, log, entry, got, buffer, touched, trouble>>

\* restore_transaction; it reads the whole manifest first.
Restore(o, t) ==
    /\ At(o, "idle") /\ log[t] # {}
    /\ cmd' = [cmd EXCEPT ![o] = "restore"]
    /\ todo' = [todo EXCEPT ![o] = log[t]]
    /\ Go(o, "next")
    /\ UNCHANGED <<disk, log, started, tx, entry, got, buffer, touched, trouble>>

\* Fault: the destination is not looked at before the copy.
SourceIntact(o, f) == disk[IF cmd[o] = "move" THEN f ELSE Place[f]] = Holds[f]

\* What is copied has the recorded content, and nothing is at the destination.
Clear(o, f) ==
    IF cmd[o] = "move" THEN disk[f] = Holds[f] /\ disk[Place[f]] = Absent
                       ELSE disk[Place[f]] = Holds[f] /\ disk[f] = Absent

\* The next entry or record: skipped, with a status, unless it is clear.
Take(o, e) ==
    /\ At(o, "next") /\ e \in todo[o]
    /\ todo' = [todo EXCEPT ![o] = @ \ {e}]
    /\ \/ /\ Clear(o, e[1])
          /\ entry' = [entry EXCEPT ![o] = e] /\ Go(o, "copy")
       \/ /\ ~Clear(o, e[1])
          /\ UNCHANGED <<entry, pc>>
    /\ UNCHANGED <<disk, log, started, cmd, tx, got, buffer, touched, trouble>>

\* shutil.copy2 opens the source, then truncates the destination.
CopyBegin(o) ==
    /\ At(o, "copy")
    /\ \/ /\ disk[From(o)] # Absent
          /\ got' = [got EXCEPT ![o] = disk[From(o)]]
          /\ disk' = [disk EXCEPT ![To(o)] = Torn]
          /\ Go(o, "copying")
          /\ UNCHANGED <<log, cmd, tx, todo, entry, buffer>>
       \/ disk[From(o)] = Absent /\ Fail(o) /\ UNCHANGED disk
    /\ UNCHANGED <<started, touched, trouble>>

\* A source that changed under the copy leaves a mixture.
CopyEnd(o) ==
    /\ At(o, "copying")
    /\ disk' = [disk EXCEPT ![To(o)] =
                  IF disk[From(o)] \in {got[o], Absent} THEN got[o] ELSE Torn]
    /\ Go(o, "copied")
    /\ UNCHANGED <<log, started, command, touched, trouble>>

\* The copy cannot be finished: the disk is full, or a drive is unplugged.
CopyFails(o) ==
    /\ At(o, "copying") /\ Trouble
    /\ Fail(o)
    /\ UNCHANGED <<disk, started, touched>>

\* A failing drive keeps other bytes than were written to it, and says nothing.
CopyCorrupted(o) ==
    /\ At(o, "copying") /\ Trouble
    /\ Go(o, "copied")
    /\ UNCHANGED <<disk, log, started, command, touched>>

\* Fault: the copy is trusted without being hashed again.
TrustTheCopy(o) ==
    /\ At(o, "copied")
    /\ Go(o, "unlink")
    /\ UNCHANGED <<disk, log, started, command, touched, trouble>>

\* The copy is hashed again.  A bad one fails the move and is left in place; a
\* bad restored one is removed, and the next record taken.
VerifyCopy(o) ==
    /\ At(o, "copied")
    /\ \/ /\ disk[To(o)] = Holds[File(o)]
          /\ Go(o, "unlink")
          /\ UNCHANGED disk
       \/ /\ disk[To(o)] # Holds[File(o)]
          /\ Go(o, "next")
          /\ disk' = IF cmd[o] = "move" THEN disk ELSE [disk EXCEPT ![To(o)] = Absent]
    /\ UNCHANGED <<log, started, command, touched, trouble>>

\* Fault: every command goes on to write the row of a move.
UnlinkThenRecord(o) ==
    /\ At(o, "unlink")
    /\ \/ /\ disk[From(o)] # Absent
          /\ disk' = [disk EXCEPT ![From(o)] = Absent]
          /\ Go(o, "record")
          /\ UNCHANGED <<log, command>>
       \/ disk[From(o)] = Absent /\ Fail(o) /\ UNCHANGED disk
    /\ UNCHANGED <<started, touched, trouble>>

\* What was copied is removed.
Unlink(o) ==
    /\ At(o, "unlink")
    /\ \/ /\ disk[From(o)] # Absent
          /\ disk' = [disk EXCEPT ![From(o)] = Absent]
          /\ Go(o, IF cmd[o] = "move" THEN "record" ELSE "next")
          /\ UNCHANGED <<log, command>>
       \/ disk[From(o)] = Absent /\ Fail(o) /\ UNCHANGED disk
    /\ UNCHANGED <<started, touched, trouble>>

\* The row and the manifest line of a moved file.
Record(o) ==
    /\ At(o, "record")
    /\ buffer' = [buffer EXCEPT ![o] = @ \cup {entry[o]}]
    /\ Go(o, "next")
    /\ UNCHANGED <<disk, log, started, cmd, tx, todo, entry, got, touched, trouble>>

\* The INSERT raises: the manifest is closed without this file's line.
RecordFails(o) ==
    /\ At(o, "record") /\ Trouble
    /\ Keep(o, buffer[o])
    /\ Stop(o)
    /\ UNCHANGED <<disk, started, touched>>

\* The last entry or record is done; the manifest is closed, the rows committed.
End(o) ==
    /\ At(o, "next") /\ todo[o] = {}
    /\ Keep(o, buffer[o])
    /\ Stop(o)
    /\ UNCHANGED <<disk, started, touched, trouble>>

\* The process dies; some of the manifest's lines had reached the disk.
Crash(o) ==
    /\ ~At(o, "idle") /\ Trouble
    /\ \E records \in SUBSET buffer[o] : Keep(o, records)
    /\ Stop(o)
    /\ UNCHANGED <<disk, started, touched>>

\* A user deletes or rewrites a file, on the source or under the review root.
Edit(p) ==
    /\ Trouble
    /\ \E content \in {Absent, Other} : disk' = [disk EXCEPT ![p] = content]
    /\ touched' = touched \cup {f \in Files : p \in {f, Place[f]}}
    /\ UNCHANGED <<log, started, command, pc>>

Next ==
    \/ \E o \in Operators :
         \/ \E t \in Transactions :
              \/ \E approved \in SUBSET Entries : Move(o, t, approved)
              \/ Restore(o, t)
         \/ \E e \in Entries : Take(o, e)
         \/ CopyBegin(o) \/ CopyEnd(o) \/ CopyFails(o) \/ CopyCorrupted(o)
         \/ VerifyCopy(o) \/ Unlink(o) \/ Record(o) \/ RecordFails(o) \/ End(o) \/ Crash(o)
    \/ \E p \in Paths : Edit(p)

Spec == Init /\ [][Next]_vars

---------------------------------------------------------------------------
(* Properties.                                                              *)

\* The file and those of the same relative path and content on other drives, which
\* under the review root cannot be told from it.
Twins(f) == {g \in Files : Place[g] = Place[f] /\ Holds[g] = Holds[f]}
Unchanged(f) == Twins(f) \cap touched = {}

\* At every instant, a file that no user changed, nor a twin of it, is intact at its
\* source or under the review root: whichever write fails and whenever a process dies.
NothingLost ==
    \A f \in Files : Unchanged(f) => Holds[f] \in {disk[f], disk[Place[f]]}

\* The file has copies on the drives, and no user changed it or one of them.
Duplicated(f) ==
    /\ \E g \in Files \ {f} : Holds[g] = Holds[f]
    /\ \A g \in Files : Holds[g] = Holds[f] => g \notin touched

\* The copies of a duplicated file never all leave the drives, through any
\* sequence of moves and restores.
LastCopyStays ==
    \A f \in Files : Duplicated(f) => \E g \in Files : Holds[g] = Holds[f] /\ disk[g] = Holds[g]

\* Between commands, a file that was taken off its drive is in a transaction
\* manifest, so that restore can put it back.
MovesAreRecorded ==
    (\A o \in Operators : pc[o] = "idle") =>
        \A f \in Files \ touched : disk[f] = Absent => \E t \in Transactions : \E e \in log[t] : e[1] = f
===========================================================================
