------------------------- MODULE ReviewSessionProofs -------------------------
(* What ReviewSession keeps for any files, commands, scans and requests; what it
   keeps for any threads of the dashboard, and what only as long as the dashboard
   works on one request at a time. *)
EXTENDS ReviewSession, FiniteSetTheorems, SequenceTheorems, TLAPS

Decisions == [target : Targets, choice : Choices, wizard : BOOLEAN]

\* The copies a scan saw, as the entries it wrote for them.
Copies(n) == {<<f, n>> : f \in recorded[n]}

---------------------------------------------------------------------------
(* The parts of the inductive invariant.                                    *)

InventoryShape == run \in 1..MaxRuns /\ recorded \in [1..MaxRuns -> SUBSET Files]

\* A group is of the copies of one scan.
GroupInv ==
    /\ canonical \in Entries \cup {NoEntry} /\ override \in Entries \cup {NoEntry}
    /\ basis \in Entries \cup {NoEntry, NoGrouping}
    /\ verdict \in [Entries -> {"none", "allows", "forbids"}]
    /\ members = {} \/ \E n \in 1..run : members = Copies(n)

\* A target has no row, its first one, that one retired, or its first two, of which the
\* last is current.
One(table, t) == \E r \in table : RowsIn(table, t) = {r} /\ r.id = 1 /\ r.current
Half(table, t) == \E r \in table : RowsIn(table, t) = {r} /\ r.id = 1 /\ ~r.current
Two(table, t) ==
    \E q, r \in table : RowsIn(table, t) = {q, r} /\ q.id = 1 /\ ~q.current /\ r.id = 2 /\ r.current
WellFormed(table) ==
    /\ table \subseteq Rows
    /\ \A t \in Targets : RowsIn(table, t) = {} \/ One(table, t) \/ Half(table, t) \/ Two(table, t)
TableInv ==
    /\ WellFormed(rows) /\ WellFormed(draft)
    /\ held \in BOOLEAN /\ (~held => draft = rows)

\* A plan that an apply may follow: one copy of a scan is kept, the others go.
WholePlan(plan) == \E n \in 1..run : plan.keeper \in Copies(n) /\ plan.approve = Copies(n) \ {plan.keeper}

\* What a user still has to record is what its page shows, the keeper first.
AsShown(d, first, plan) ==
    /\ ~plan.skipped
    /\ \/ d.choice = "MARK_KEEP" /\ first /\ d.target = plan.keeper
       \/ d.choice = "APPROVE_FOR_REVIEW" /\ d.target \in plan.approve
AtWork(u) == pc[u] \in {"next", "writing", "inserting"}
PageInv(u) == ~shown[u].plan.skipped => u \in Threads /\ WholePlan(shown[u].plan)
UserInv(u) ==
    /\ PageInv(u)
    /\ AtWork(u) =>
         /\ todo[u] # <<>>
         /\ \A i \in DOMAIN todo[u] :
              /\ todo[u][i].wizard = todo[u][1].wizard
              /\ todo[u][i].wizard => u \in Threads /\ AsShown(todo[u][i], i = 1, shown[u].plan)

UserShape ==
    /\ pc \in [Users -> Steps]
    /\ todo \in [Users -> Seq(Decisions)] /\ seen \in [Users -> 0..2]
    /\ shown \in [Users -> [rule : Rules, plan : Plans]]

RestShape ==
    /\ status \in {"OPEN", "LOCKED", "EXPORTED"} /\ manifest \in Manifests
    /\ snapshot.rows \subseteq Rows /\ snapshot.run \in 0..MaxRuns /\ asks \in 0..(MaxAsks + 1)

ReviewInv ==
    /\ InventoryShape /\ GroupInv /\ TableInv /\ UserShape /\ RestShape
    /\ \A u \in Users : UserInv(u)

---------------------------------------------------------------------------
(* Entries, copies and rows.                                                *)

LEMMA EntryFacts ==
    /\ IsFiniteSet(Entries) /\ NoEntry \notin Entries /\ Group \notin Entries
    /\ \A e \in Entries : e = <<e[1], e[2]>> /\ e[1] \in Files /\ e[2] \in 1..MaxRuns
    /\ \A f \in Files, n \in 1..MaxRuns : <<f, n>> \in Entries
<1>1. IsFiniteSet(1..MaxRuns)
  BY ReviewAssumption, FS_Interval
<1>2. IsFiniteSet(Entries)
  BY <1>1, ReviewAssumption, FS_Product DEF Entries
<1>3. \A e \in Entries : e = <<e[1], e[2]>> /\ e[1] \in Files /\ e[2] \in 1..MaxRuns
  BY DEF Entries
<1>4. NoEntry[2] = 0 /\ Group[2] = 0
  BY DEF NoEntry, Group
<1>5. 0 \notin 1..MaxRuns
  BY ReviewAssumption
<1>6. NoEntry \notin Entries /\ Group \notin Entries
  BY <1>3, <1>4, <1>5
<1>7. \A f \in Files, n \in 1..MaxRuns : <<f, n>> \in Entries
  BY DEF Entries
<1>8. QED BY <1>2, <1>3, <1>6, <1>7

LEMMA CopyFacts ==
    ASSUME InventoryShape, NEW n \in 1..MaxRuns
    PROVE  /\ Copies(n) \subseteq Entries
           /\ \A e \in Entries : e \in Copies(n) <=> e[2] = n /\ e[1] \in recorded[n]
<1>1. recorded[n] \subseteq Files
  BY DEF InventoryShape
<1>2. Copies(n) \subseteq Entries
  BY <1>1, EntryFacts DEF Copies
<1>3. ASSUME NEW e \in Entries PROVE e \in Copies(n) <=> e[2] = n /\ e[1] \in recorded[n]
  <2>1. e = <<e[1], e[2]>>
    BY EntryFacts
  <2>2. QED BY <2>1 DEF Copies
<1>4. QED BY <1>2, <1>3

\* A subset of the entries is counted.
LEMMA Counted ==
    ASSUME NEW S \in SUBSET Entries
    PROVE  /\ IsFiniteSet(S) /\ Cardinality(S) \in Nat
           /\ Cardinality(S) >= 2 => S # {}
<1>1. IsFiniteSet(S)
  BY EntryFacts, FS_Subset
<1>2. Cardinality(S) \in Nat
  BY <1>1, FS_CardinalityType
<1>3. S = {} => Cardinality(S) = 0
  BY FS_EmptySet
<1>4. QED BY <1>1, <1>2, <1>3

\* What a row that was recorded has in its fields.
LEMMA RowFields ==
    \A r \in Rows : /\ r.target \in Targets /\ r.id \in 1..2 /\ r.choice \in Choices
                    /\ r.current \in BOOLEAN /\ r.stale \in BOOLEAN /\ r.wizard \in BOOLEAN
BY DEF Rows

LEMMA Retiring ==
    ASSUME NEW r \in Rows
    PROVE  LET q == [r EXCEPT !.current = FALSE]
           IN  /\ q \in Rows /\ q.target = r.target /\ q.id = r.id /\ q.choice = r.choice
               /\ q.current = FALSE /\ q.wizard = r.wizard
BY DEF Rows

LEMMA GoingStale ==
    ASSUME NEW r \in Rows
    PROVE  LET q == [r EXCEPT !.stale = TRUE]
           IN  /\ q \in Rows /\ q.target = r.target /\ q.id = r.id /\ q.choice = r.choice
               /\ q.current = r.current /\ q.wizard = r.wizard
BY DEF Rows

\* Two tables that tell the same of every target.
TellsTheSame(old, new) ==
    /\ \A q \in new : \E r \in old :
         q.target = r.target /\ q.choice = r.choice /\ q.current = r.current /\ q.wizard = r.wizard
    /\ \A r \in old : \E q \in new :
         q.target = r.target /\ q.choice = r.choice /\ q.current = r.current /\ q.wizard = r.wizard

\* Rows turn stale: nothing else about them changes.
LEMMA Restale ==
    ASSUME NEW table, WellFormed(table), NEW S, NEW new,
           new = {IF r \in S THEN [r EXCEPT !.stale = TRUE] ELSE r : r \in table}
    PROVE  WellFormed(new) /\ TellsTheSame(table, new)
<1> DEFINE f(r) == IF r \in S THEN [r EXCEPT !.stale = TRUE] ELSE r
<1>1. \A r \in table : /\ f(r) \in Rows /\ f(r).target = r.target /\ f(r).id = r.id
                       /\ f(r).choice = r.choice /\ f(r).current = r.current /\ f(r).wizard = r.wizard
  BY GoingStale DEF WellFormed
<1>2. new = {f(r) : r \in table}
  OBVIOUS
<1> HIDE DEF f
<1>3. new \subseteq Rows /\ TellsTheSame(table, new)
  BY <1>1, <1>2 DEF TellsTheSame
<1>4. \A t \in Targets : RowsIn(new, t) = {f(r) : r \in RowsIn(table, t)}
  BY <1>1, <1>2 DEF RowsIn
<1>5. ASSUME NEW t \in Targets
      PROVE  RowsIn(new, t) = {} \/ One(new, t) \/ Half(new, t) \/ Two(new, t)
  <2>1. CASE RowsIn(table, t) = {}
    BY <1>4, <2>1
  <2>2. CASE One(table, t) \/ Half(table, t)
    <3>1. PICK r \in table : RowsIn(table, t) = {r} /\ r.id = 1
      BY <2>2 DEF One, Half
    <3>2. RowsIn(new, t) = {f(r)} /\ f(r) \in new
      BY <1>2, <1>4, <3>1
    <3>3. f(r).id = 1
      BY <1>1, <3>1
    <3>4. QED BY <3>2, <3>3 DEF One, Half
  <2>3. CASE Two(table, t)
    <3>1. PICK q, r \in table : RowsIn(table, t) = {q, r} /\ q.id = 1 /\ ~q.current /\ r.id = 2 /\ r.current
      BY <2>3 DEF Two
    <3>2. RowsIn(new, t) = {f(q), f(r)} /\ f(q) \in new /\ f(r) \in new
      BY <1>2, <1>4, <3>1
    <3>3. f(q).id = 1 /\ ~f(q).current /\ f(r).id = 2 /\ f(r).current
      BY <1>1, <3>1
    <3>4. Two(new, t)
      BY <3>2, <3>3 DEF Two
    <3>5. QED BY <3>4
  <2>4. QED BY <2>1, <2>2, <2>3 DEF WellFormed
<1>6. QED BY <1>3, <1>5 DEF WellFormed

\* Whatever the one table has a row about, the other has one about, of the same kind.
Covers(new, old) == \A r \in old : \E q \in new : q.target = r.target /\ q.wizard = r.wizard

\* What the first write of a decision leaves: where a row is still current afterwards,
\* it has retired none.
LEMMA Retires ==
    ASSUME NEW table, WellFormed(table), NEW t \in Targets, NEW id \in 0..2,
           NEW new, new = Retired(table, t, id)
    PROVE  /\ KeepsUnique(new) => WellFormed(new)
           /\ \A s \in Targets : s # t => RowsIn(new, s) = RowsIn(table, s)
           /\ Covers(new, table) /\ Covers(table, new)
           /\ id = 0 => new = table
           /\ CurrentIn(new, t) # {} => new = table
           /\ \A r \in CurrentIn(table, t) : r.id # id => r \in CurrentIn(new, t)
<1> DEFINE f(r) == IF r.target = t /\ r.id = id THEN [r EXCEPT !.current = FALSE] ELSE r
<1>1. new = {f(r) : r \in table}
  BY DEF Retired
<1>2. table \subseteq Rows
  BY DEF WellFormed
<1>3. \A r \in table : /\ f(r) \in Rows /\ f(r).target = r.target /\ f(r).id = r.id
                       /\ f(r).wizard = r.wizard
                       /\ r.target = t /\ r.id = id => f(r).current = FALSE
                       /\ ~(r.target = t /\ r.id = id) => f(r) = r
  BY <1>2, Retiring
<1>4. \A r \in table : r.current = FALSE => f(r) = r
  BY <1>2 DEF Rows
<1>5. \A r \in table : r.id \in 1..2 /\ r.current \in BOOLEAN
  BY <1>2, RowFields
<1> HIDE DEF f
<1>6. ASSUME NEW s PROVE RowsIn(new, s) = {f(r) : r \in RowsIn(table, s)}
  <2>1. \A q : q \in RowsIn(new, s) <=> q \in new /\ q.target = s
    BY DEF RowsIn
  <2>2. \A r : r \in RowsIn(table, s) <=> r \in table /\ r.target = s
    BY DEF RowsIn
  <2>3. \A r \in table : f(r).target = r.target
    BY <1>3
  <2>4. QED BY <1>1, <2>1, <2>2, <2>3
<1>7. ASSUME NEW s \in Targets, s # t PROVE RowsIn(new, s) = RowsIn(table, s)
  <2>1. \A r \in RowsIn(table, s) : f(r) = r
    BY <1>3, <1>7 DEF RowsIn
  <2>2. {f(r) : r \in RowsIn(table, s)} = RowsIn(table, s)
    BY <2>1
  <2>3. QED BY <1>6, <2>2
<1>8. Covers(new, table) /\ Covers(table, new)
  BY <1>1, <1>3 DEF Covers
<1>9. id = 0 => new = table
  <2>1. id = 0 => \A r \in table : f(r) = r
    BY <1>3, <1>5
  <2>2. QED BY <1>1, <2>1
<1>10. ASSUME CurrentIn(new, t) # {} PROVE new = table
  <2>1. PICK c \in new : c.target = t /\ c.current
    BY <1>10 DEF CurrentIn, RowsIn
  <2>2. PICK r \in table : c = f(r)
    BY <1>1, <2>1
  <2>3. r.target = t /\ r.id # id /\ r.current /\ r \in RowsIn(table, t)
    BY <1>3, <2>1, <2>2 DEF RowsIn
  <2>4. \A q \in RowsIn(table, t) : q.id = id => q.current = FALSE
    <3>1. CASE One(table, t) \/ Half(table, t)
      BY <2>3, <3>1 DEF One, Half
    <3>2. CASE Two(table, t)
      <4>1. PICK p, q \in table : RowsIn(table, t) = {p, q} /\ p.id = 1 /\ ~p.current /\ q.id = 2 /\ q.current
        BY <3>2 DEF Two
      <4>2. r = q
        BY <2>3, <4>1
      <4>3. QED BY <1>5, <2>3, <4>1, <4>2
    <3>3. QED BY <2>3, <3>1, <3>2 DEF WellFormed
  <2>5. \A q \in table : f(q) = q
    BY <1>3, <1>4, <2>4 DEF RowsIn
  <2>6. QED BY <1>1, <2>5
<1>11. ASSUME NEW r \in CurrentIn(table, t), r.id # id PROVE r \in CurrentIn(new, t)
  <2>1. r \in table /\ r.target = t /\ r.current /\ f(r) = r
    BY <1>3, <1>11 DEF CurrentIn, RowsIn
  <2>2. QED BY <1>1, <2>1 DEF CurrentIn, RowsIn
<1>12. ASSUME KeepsUnique(new) PROVE WellFormed(new)
  <2>1. new \subseteq Rows
    BY <1>1, <1>3
  <2>2. ASSUME NEW s \in Targets, s # t
        PROVE  RowsIn(new, s) = {} \/ One(new, s) \/ Half(new, s) \/ Two(new, s)
    <3>1. RowsIn(new, s) = RowsIn(table, s) /\ RowsIn(new, s) \subseteq new
      BY <1>7, <2>2 DEF RowsIn
    <3>2. RowsIn(table, s) = {} \/ One(table, s) \/ Half(table, s) \/ Two(table, s)
      BY DEF WellFormed
    <3>3. QED BY <3>1, <3>2 DEF One, Half, Two
  <2>3. CASE RowsIn(table, t) = {}
    <3>1. RowsIn(new, t) = {}
      BY <1>6, <2>3
    <3>2. QED BY <2>1, <2>2, <3>1 DEF WellFormed
  <2>4. CASE One(table, t) \/ Half(table, t)
    <3>1. PICK r \in table : RowsIn(table, t) = {r} /\ r.id = 1
      BY <2>4 DEF One, Half
    <3>2. RowsIn(new, t) = {f(r)} /\ f(r) \in new /\ f(r).id = 1
      BY <1>1, <1>3, <1>6, <3>1
    <3>3. One(new, t) \/ Half(new, t)
      BY <3>2 DEF One, Half
    <3>4. QED BY <2>1, <2>2, <3>3 DEF WellFormed
  <2>5. CASE Two(table, t)
    <3>1. PICK q, r \in table : RowsIn(table, t) = {q, r} /\ q.id = 1 /\ ~q.current /\ r.id = 2 /\ r.current
      BY <2>5 DEF Two
    <3>2. f(q) \in new /\ f(r) \in new /\ q.target = t /\ r.target = t
      BY <1>1, <3>1 DEF RowsIn
    <3>3. id # 2
      <4>1. SUFFICES ASSUME id = 2 PROVE FALSE
        OBVIOUS
      <4>2. f(r).current = FALSE /\ f(r).target = t /\ f(r).id = 2
        BY <1>3, <3>1, <3>2, <4>1
      <4>3. q.current = FALSE
        BY <1>5, <3>1
      <4>4. f(q) = q
        BY <1>4, <3>1, <4>3
      <4>5. q = f(r)
        BY <1>12, <3>2, <4>2, <4>3, <4>4 DEF KeepsUnique
      <4>6. QED BY <3>1, <4>2, <4>5
    <3>4. f(r) = r /\ f(q) = q
      BY <1>3, <1>4, <1>5, <3>1, <3>3
    <3>5. RowsIn(new, t) = {q, r} /\ q \in new /\ r \in new
      BY <1>6, <3>1, <3>2, <3>4
    <3>6. Two(new, t)
      BY <3>1, <3>5 DEF Two
    <3>7. QED BY <2>1, <2>2, <3>6 DEF WellFormed
  <2>6. QED BY <2>3, <2>4, <2>5 DEF WellFormed
<1>13. QED BY <1>7, <1>8, <1>9, <1>10, <1>11, <1>12

\* The unique index lets a new row in where the target has no current one.
LEMMA Inserts ==
    ASSUME NEW table, WellFormed(table), NEW d \in Decisions, NEW new, new = Inserted(table, d)
    PROVE  /\ KeepsUnique(new) <=> CurrentIn(table, d.target) = {}
           /\ KeepsUnique(new) => /\ WellFormed(new)
                                  /\ \A r \in CurrentIn(new, d.target) : r.choice = d.choice
           /\ \A t \in Targets : t # d.target => RowsIn(new, t) = RowsIn(table, t)
           /\ \E r \in new : r.target = d.target /\ r.wizard = d.wizard /\ r.current
           /\ table \subseteq new
           /\ \A q \in new : q \in table \/ (q.target = d.target /\ q.wizard = d.wizard)
<1> DEFINE t == d.target
           n == Cardinality(RowsIn(table, t)) + 1
           row == [target |-> t, id |-> n, choice |-> d.choice,
                   current |-> TRUE, stale |-> FALSE, wizard |-> d.wizard]
<1>1. t \in Targets /\ d.choice \in Choices /\ d.wizard \in BOOLEAN
  BY DEF Decisions
<1>2. new = table \cup {row}
  BY DEF Inserted
<1>3. /\ row.target = t /\ row.id = n /\ row.current = TRUE /\ row.choice = d.choice
      /\ row.wizard = d.wizard
  OBVIOUS
<1>4. n \in 1..2 => row \in Rows
  BY <1>1 DEF Rows
<1> HIDE DEF row, n, t
<1>5. table \subseteq Rows /\ \A r \in table : r.current \in BOOLEAN /\ r.target \in Targets
  BY RowFields DEF WellFormed
<1>6. \A s \in Targets : s # t => RowsIn(new, s) = RowsIn(table, s)
  BY <1>2, <1>3 DEF RowsIn
<1>7. RowsIn(new, t) = RowsIn(table, t) \cup {row}
  BY <1>2, <1>3 DEF RowsIn
<1>8. /\ RowsIn(table, t) = {} => n = 1
      /\ One(table, t) \/ Half(table, t) => n = 2
      /\ Two(table, t) => n = 3
  <2>1. RowsIn(table, t) = {} => n = 1
    BY FS_EmptySet DEF n
  <2>2. ASSUME NEW r, RowsIn(table, t) = {r} PROVE n = 2
    <3>1. Cardinality({r}) = 1
      BY FS_Singleton
    <3>2. QED BY <2>2, <3>1 DEF n
  <2>3. ASSUME Two(table, t) PROVE n = 3
    <3>1. PICK q, r \in table : RowsIn(table, t) = {q, r} /\ q.id = 1 /\ r.id = 2
      BY <2>3 DEF Two
    <3>2. q \notin {r}
      BY <3>1
    <3>3. IsFiniteSet({r}) /\ Cardinality({r}) = 1
      BY FS_Singleton
    <3>4. Cardinality({r} \cup {q}) = 2
      <4>1. Cardinality({r} \cup {q}) = Cardinality({r}) + 1
        BY <3>2, <3>3, FS_AddElement, Zenon
      <4>2. QED BY <3>3, <4>1
    <3>5. {r} \cup {q} = RowsIn(table, t)
      BY <3>1
    <3>6. QED BY <3>4, <3>5 DEF n
  <2>4. QED BY <2>1, <2>2, <2>3 DEF One, Half
<1>9. RowsIn(table, t) = {} \/ One(table, t) \/ Half(table, t) \/ Two(table, t)
  BY <1>1 DEF WellFormed
<1>10. CurrentIn(table, t) = {} => RowsIn(table, t) = {} \/ Half(table, t)
  BY <1>9 DEF One, Two, CurrentIn
<1>11. ASSUME KeepsUnique(new) PROVE CurrentIn(table, t) = {}
  <2>1. SUFFICES ASSUME NEW r \in CurrentIn(table, t) PROVE FALSE
    OBVIOUS
  <2>2. r \in table /\ r.target = t /\ r.current = TRUE /\ r \in RowsIn(table, t)
    BY <1>5 DEF CurrentIn, RowsIn
  <2>3. r = row
    BY <1>2, <1>3, <1>11, <2>2 DEF KeepsUnique
  <2>4. r.id # n
    BY <1>8, <1>9, <2>2 DEF One, Half, Two
  <2>5. QED BY <1>3, <2>3, <2>4
<1>12. \A q, r \in table : q.target = r.target /\ q.current = r.current => q = r
  <2>1. SUFFICES ASSUME NEW q \in table, NEW r \in table, q.target = r.target, q.current = r.current
                 PROVE  q = r
    OBVIOUS
  <2>2. q \in RowsIn(table, q.target) /\ r \in RowsIn(table, q.target) /\ q.target \in Targets
    BY <1>5, <2>1 DEF RowsIn
  <2>3. One(table, q.target) \/ Half(table, q.target) \/ Two(table, q.target)
    BY <2>2 DEF WellFormed
  <2>4. QED BY <2>1, <2>2, <2>3 DEF One, Half, Two
<1>13. ASSUME CurrentIn(table, t) = {} PROVE KeepsUnique(new)
  <2>1. \A r \in table : r.target = t => r.current # TRUE
    BY <1>13 DEF CurrentIn, RowsIn
  <2>2. QED BY <1>2, <1>3, <1>12, <2>1 DEF KeepsUnique
<1>14. ASSUME KeepsUnique(new)
       PROVE  /\ n \in 1..2 /\ (One(new, t) \/ Two(new, t))
              /\ \A r \in CurrentIn(new, t) : r = row
  <2>1. CASE RowsIn(table, t) = {}
    <3>1. RowsIn(new, t) = {row} /\ row \in new
      BY <1>2, <1>7, <2>1
    <3>2. QED BY <1>3, <1>8, <2>1, <3>1 DEF One, CurrentIn
  <2>2. CASE Half(table, t)
    <3>1. PICK r \in table : RowsIn(table, t) = {r} /\ r.id = 1 /\ ~r.current
      BY <2>2 DEF Half
    <3>2. RowsIn(new, t) = {r, row} /\ r \in new /\ row \in new
      BY <1>2, <1>7, <3>1
    <3>3. QED BY <1>3, <1>8, <2>2, <3>1, <3>2 DEF Two, CurrentIn
  <2>3. QED BY <1>10, <1>11, <1>14, <2>1, <2>2
<1>15. ASSUME KeepsUnique(new) PROVE WellFormed(new)
  <2>1. new \subseteq Rows
    BY <1>2, <1>4, <1>5, <1>14, <1>15
  <2>2. ASSUME NEW s \in Targets, s # t
        PROVE  RowsIn(new, s) = {} \/ One(new, s) \/ Half(new, s) \/ Two(new, s)
    <3>1. RowsIn(new, s) = RowsIn(table, s) /\ RowsIn(new, s) \subseteq new
      BY <1>6, <2>2 DEF RowsIn
    <3>2. RowsIn(table, s) = {} \/ One(table, s) \/ Half(table, s) \/ Two(table, s)
      BY DEF WellFormed
    <3>3. QED BY <3>1, <3>2 DEF One, Half, Two
  <2>3. QED BY <1>14, <1>15, <2>1, <2>2 DEF WellFormed
<1>16. KeepsUnique(new) => \A r \in CurrentIn(new, t) : r.choice = d.choice
  BY <1>3, <1>14
<1>17. \E r \in new : r.target = t /\ r.wizard = d.wizard /\ r.current
  BY <1>2, <1>3
<1>18. table \subseteq new /\ \A q \in new : q \in table \/ (q.target = t /\ q.wizard = d.wizard)
  BY <1>2, <1>3
<1>19. QED BY <1>6, <1>11, <1>13, <1>15, <1>16, <1>17, <1>18 DEF t

---------------------------------------------------------------------------
(* Users, plans and what they have to record.                               *)

LEMMA HeadFirst ==
    ASSUME NEW s \in Seq(Decisions), s # <<>>
    PROVE  /\ Head(s) = s[1] /\ 1 \in DOMAIN s /\ Head(s) \in Decisions
           /\ Tail(s) \in Seq(Decisions)
           /\ \A i \in DOMAIN Tail(s) : i + 1 \in DOMAIN s /\ i + 1 # 1 /\ Tail(s)[i] = s[i + 1]
<1>1. Len(s) \in Nat \ {0} /\ DOMAIN s = 1..Len(s)
  OBVIOUS
<1>2. Head(s) = s[1] /\ s[1] \in Decisions
  BY <1>1
<1>3. Tail(s) \in Seq(Decisions) /\ Len(Tail(s)) = Len(s) - 1
      /\ \A i \in 1..Len(Tail(s)) : Tail(s)[i] = s[i + 1]
  BY <1>1
<1>4. DOMAIN Tail(s) = 1..(Len(s) - 1)
  BY <1>3
<1>5. QED BY <1>1, <1>2, <1>3, <1>4

\* The approvals of a plan in some order.
LEMMA Ordered ==
    ASSUME NEW S, IsFiniteSet(S)
    PROVE  LET order == CHOOSE s \in [1..Cardinality(S) -> S] : \A e \in S : \E i \in DOMAIN s : s[i] = e
           IN  Cardinality(S) \in Nat /\ order \in [1..Cardinality(S) -> S]
<1>1. Cardinality(S) \in Nat
  BY FS_CardinalityType
<1>2. PICK g \in Bijection(1..Cardinality(S), S) : TRUE
  BY FS_CardinalityType DEF ExistsBijection
<1>3. g \in [1..Cardinality(S) -> S] /\ \A e \in S : \E i \in 1..Cardinality(S) : g[i] = e
  BY <1>2 DEF Bijection, Surjection
<1>4. \A e \in S : \E i \in DOMAIN g : g[i] = e
  BY <1>3
<1>5. QED BY <1>1, <1>3, <1>4

LEMMA ShownInOrder ==
    ASSUME NEW plan \in Plans, plan.keeper \in Entries
    PROVE  /\ InOrder(plan) \in Seq(Decisions) /\ InOrder(plan) # <<>>
           /\ \A i \in DOMAIN InOrder(plan) :
                /\ InOrder(plan)[i].wizard
                /\ i = 1 => InOrder(plan)[i].choice = "MARK_KEEP" /\ InOrder(plan)[i].target = plan.keeper
                /\ i # 1 => /\ InOrder(plan)[i].choice = "APPROVE_FOR_REVIEW"
                            /\ InOrder(plan)[i].target \in plan.approve
<1> DEFINE n == Cardinality(plan.approve)
           order == CHOOSE s \in [1..n -> plan.approve] :
                      \A e \in plan.approve : \E i \in DOMAIN s : s[i] = e
           keep == [target |-> plan.keeper, choice |-> "MARK_KEEP", wizard |-> TRUE]
           approve(i) == [target |-> order[i - 1], choice |-> "APPROVE_FOR_REVIEW", wizard |-> TRUE]
<1>1. plan.approve \subseteq Entries
  BY DEF Plans
<1>2. n \in Nat /\ order \in [1..n -> plan.approve]
  BY <1>1, Counted, Ordered
<1>3. InOrder(plan) = [i \in 1..(n + 1) |-> IF i = 1 THEN keep ELSE approve(i)]
  BY DEF InOrder
<1> HIDE DEF n, order
<1>4. keep \in Decisions /\ keep.wizard /\ keep.choice = "MARK_KEEP" /\ keep.target = plan.keeper
  BY DEF Decisions, Targets, Choices
<1>5. \A i \in 1..(n + 1) : i # 1 => order[i - 1] \in plan.approve
  BY <1>2
<1>6. ASSUME NEW i \in 1..(n + 1), i # 1
      PROVE  /\ approve(i) \in Decisions /\ approve(i).wizard
             /\ approve(i).choice = "APPROVE_FOR_REVIEW" /\ approve(i).target \in plan.approve
  <2>1. order[i - 1] \in plan.approve /\ order[i - 1] \in Targets
    BY <1>1, <1>5, <1>6 DEF Targets
  <2>2. QED BY <2>1 DEF Decisions, Choices
<1> HIDE DEF keep, approve
<1>7. InOrder(plan) \in [1..(n + 1) -> Decisions]
  BY <1>3, <1>4, <1>6
<1>8. InOrder(plan) \in Seq(Decisions) /\ DOMAIN InOrder(plan) = 1..(n + 1)
  BY <1>2, <1>7
<1>9. InOrder(plan) # <<>>
  BY <1>2, <1>8
<1>10. \A i \in 1..(n + 1) : InOrder(plan)[i] = IF i = 1 THEN keep ELSE approve(i)
  BY <1>3
<1>11. QED BY <1>4, <1>6, <1>8, <1>9, <1>10

\* A preview's plan keeps one copy of a scan and approves the others, or is skipped.
LEMMA Planned ==
    ASSUME InventoryShape, GroupInv, NEW rule \in Rules
    PROVE  Plan(rule) \in Plans /\ (~Plan(rule).skipped => WholePlan(Plan(rule)))
<1> DEFINE shownNow == Current(members)
           candidates == {e \in shownNow :
                            IF rule = "keep-canonical" THEN e = ShownCanonical ELSE e[1] = rule}
           keeper == IF candidates = {} THEN NoEntry ELSE CHOOSE e \in candidates : TRUE
           approve == IF keeper = NoEntry THEN {} ELSE shownNow \ {keeper}
           plan == [keeper |-> keeper, approve |-> approve,
                    skipped |-> keeper = NoEntry \/ \E e \in approve : Forbids(e)]
<1>1. Plan(rule) = IF Cardinality(shownNow) < 2 THEN NoPlan ELSE plan
  BY DEF Plan
<1>2. NoPlan \in Plans /\ NoPlan.skipped
  BY DEF Plans, NoPlan
<1>3. run \in 1..MaxRuns /\ run \in Nat
  BY ReviewAssumption DEF InventoryShape
<1>4. shownNow = {} \/ shownNow = Copies(run)
  <2>1. CASE members = {}
    BY <2>1 DEF Current
  <2>2. CASE members # {}
    <3>1. PICK n \in 1..run : members = Copies(n)
      BY <2>2 DEF GroupInv
    <3>2. n \in 1..MaxRuns
      BY <1>3, <3>1, ReviewAssumption
    <3>3. \A e \in members : e[2] = n
      BY <3>1, <3>2, CopyFacts
    <3>4. QED BY <3>1, <3>3 DEF Current
  <2>3. QED BY <2>1, <2>2
<1>5. shownNow \subseteq Entries
  BY <1>3, <1>4, CopyFacts
<1> HIDE DEF shownNow
<1>6. keeper = NoEntry \/ keeper \in shownNow
  OBVIOUS
<1> HIDE DEF keeper
<1>7. approve \subseteq Entries /\ keeper \in Entries \cup {NoEntry}
  BY <1>5, <1>6
<1>8. plan \in Plans /\ plan.keeper = keeper /\ plan.approve = approve
  BY <1>7 DEF Plans
<1>9. ~plan.skipped => WholePlan(plan)
  <2>1. SUFFICES ASSUME ~plan.skipped PROVE WholePlan(plan)
    OBVIOUS
  <2>2. keeper # NoEntry
    BY <2>1
  <2>3. keeper \in Copies(run) /\ approve = Copies(run) \ {keeper}
    BY <1>4, <1>6, <2>2
  <2>4. run \in 1..run
    BY <1>3
  <2>5. QED BY <1>8, <2>3, <2>4 DEF WholePlan
<1>10. QED BY <1>1, <1>2, <1>8, <1>9

---------------------------------------------------------------------------
(* What the steps of others leave a user.                                   *)

\* No run is taken back.
Grows ==
    /\ run' \in run..MaxRuns
    /\ \A n \in 1..run : recorded'[n] = recorded[n]

Untouched(u) == pc'[u] = pc[u] /\ todo'[u] = todo[u] /\ seen'[u] = seen[u] /\ shown'[u] = shown[u]

\* What a page shows is a plan of a scan that stays.
LEMMA ShownStays ==
    ASSUME Grows, run \in Nat, NEW u \in Users, UserInv(u), shown'[u] = shown[u]
    PROVE  PageInv(u)'
<1> DEFINE plan == shown[u].plan
<1>1. shown'[u].plan = plan
  OBVIOUS
<1>2. ~plan.skipped => u \in Threads /\ \E n \in 1..run' : plan.keeper \in Copies(n)' /\ plan.approve = Copies(n)' \ {plan.keeper}
  <2>1. SUFFICES ASSUME ~plan.skipped
                 PROVE u \in Threads /\ \E n \in 1..run' : plan.keeper \in Copies(n)' /\ plan.approve = Copies(n)' \ {plan.keeper}
    OBVIOUS
  <2>2. PICK n \in 1..run : plan.keeper \in Copies(n) /\ plan.approve = Copies(n) \ {plan.keeper}
    BY <2>1 DEF UserInv, PageInv, WholePlan
  <2>3. Copies(n)' = Copies(n) /\ n \in 1..run'
    BY DEF Grows, Copies
  <2>4. QED BY <2>1, <2>2, <2>3 DEF UserInv, PageInv
<1>3. QED BY <1>1, <1>2 DEF PageInv, WholePlan

\* A user that goes on with what it had to do.
LEMMA WorkStays ==
    ASSUME Grows, run \in Nat, NEW u \in Users, UserInv(u), AtWork(u)' => AtWork(u),
           todo'[u] = todo[u], shown'[u] = shown[u]
    PROVE  UserInv(u)'
<1>1. PageInv(u)'
  BY ShownStays
<1>2. AtWork(u) =>
         /\ todo[u] # <<>>
         /\ \A i \in DOMAIN todo[u] :
              /\ todo[u][i].wizard = todo[u][1].wizard
              /\ todo[u][i].wizard => u \in Threads /\ AsShown(todo[u][i], i = 1, shown[u].plan)
  BY DEF UserInv
<1>3. (AtWork(u) =>
         /\ todo[u] # <<>>
         /\ \A i \in DOMAIN todo[u] :
              /\ todo[u][i].wizard = todo[u][1].wizard
              /\ todo[u][i].wizard => u \in Threads /\ AsShown(todo[u][i], i = 1, shown[u].plan))'
  BY <1>2 DEF AsShown
<1>4. QED BY <1>1, <1>3 DEF UserInv

LEMMA UserStays ==
    ASSUME Grows, run \in Nat, NEW u \in Users, UserInv(u), Untouched(u)
    PROVE  UserInv(u)'
BY WorkStays DEF Untouched, AtWork

\* The steps of a user that leave the others alone.
LEMMA OthersStay ==
    ASSUME ReviewInv, Grows, NEW u \in Users, \A v \in Users \ {u} : Untouched(v), UserInv(u)'
    PROVE  \A v \in Users : UserInv(v)'
<1>1. run \in Nat
  BY ReviewAssumption DEF ReviewInv, InventoryShape
<1>2. ASSUME NEW v \in Users, v # u PROVE UserInv(v)'
  BY <1>1, <1>2, UserStays DEF ReviewInv
<1>3. QED BY <1>2

LEMMA SameRuns ==
    ASSUME InventoryShape, run' = run, recorded' = recorded
    PROVE  Grows /\ InventoryShape'
<1>1. run \in run..MaxRuns
  BY ReviewAssumption DEF InventoryShape
<1>2. QED BY <1>1 DEF Grows, InventoryShape

LEMMA NothingShownIsNone ==
    NothingShown \in [rule : Rules, plan : Plans] /\ NothingShown.plan.skipped
<1>1. NoPlan \in Plans /\ NoPlan.skipped
  BY DEF Plans, NoPlan
<1>2. "keep-canonical" \in Rules
  BY DEF Rules
<1>3. QED BY <1>1, <1>2 DEF NothingShown

\* A user that is done is as at the start.
LEMMA Finished ==
    ASSUME UserShape, NEW u \in Users, Finish(u)
    PROVE  /\ UserShape' /\ UserInv(u)' /\ \A v \in Users \ {u} : Untouched(v)
           /\ pc'[u] = "idle"
<1>1. pc' \in [Users -> Steps] /\ pc'[u] = "idle"
  BY DEF UserShape, Finish, Steps
<1>2. todo' \in [Users -> Seq(Decisions)]
  <2>1. <<>> \in Seq(Decisions)
    OBVIOUS
  <2>2. QED BY <2>1 DEF UserShape, Finish
<1>3. seen' \in [Users -> 0..2]
  BY DEF UserShape, Finish
<1>4. shown' \in [Users -> [rule : Rules, plan : Plans]] /\ shown'[u] = NothingShown
  BY NothingShownIsNone DEF UserShape, Finish
<1>5. \A v \in Users \ {u} : Untouched(v)
  BY DEF UserShape, Finish, Untouched
<1>6. UserInv(u)'
  BY <1>1, <1>4, NothingShownIsNone DEF UserInv, PageInv, AtWork
<1>7. QED BY <1>1, <1>2, <1>3, <1>4, <1>5, <1>6 DEF UserShape

\* A request for one decision.
LEMMA Begun ==
    ASSUME ReviewInv, Grows, NEW u \in Users, NEW d \in Decisions, ~d.wizard, Begin(u, <<d>>),
           seen' = seen, shown' = shown
    PROVE  UserShape' /\ asks' \in 0..(MaxAsks + 1) /\ \A v \in Users : UserInv(v)'
<1>1. UserShape /\ asks \in 0..(MaxAsks + 1) /\ asks < MaxAsks /\ UserInv(u)
  BY DEF ReviewInv, RestShape, Begin, Free
<1>2. pc' \in [Users -> Steps] /\ pc'[u] = "next"
  BY <1>1 DEF UserShape, Begin, Steps
<1>3. todo' \in [Users -> Seq(Decisions)] /\ todo'[u] = <<d>>
  <2>1. <<d>> \in Seq(Decisions)
    OBVIOUS
  <2>2. QED BY <1>1, <2>1 DEF UserShape, Begin
<1>4. \A v \in Users \ {u} : Untouched(v)
  BY <1>1 DEF UserShape, Begin, Untouched
<1>5. UserShape' /\ asks' \in 0..(MaxAsks + 1)
  BY <1>1, <1>2, <1>3, ReviewAssumption DEF UserShape, Begin
<1>6. PageInv(u)'
  <2>1. run \in Nat
    BY ReviewAssumption DEF ReviewInv, InventoryShape
  <2>2. QED BY <1>1, <2>1, ShownStays
<1>7. UserInv(u)'
  <2>1. (todo[u] # <<>>)'
    BY <1>3
  <2>2. todo'[u][1] = d /\ DOMAIN todo'[u] = {1}
    BY <1>3
  <2>3. QED BY <1>6, <2>1, <2>2 DEF UserInv
<1>8. QED BY <1>4, <1>5, <1>7, OthersStay

---------------------------------------------------------------------------
(* What a step leaves of the table.                                         *)

\* A commit of a well-formed table, of what is committed already or of what the
\* dashboard's connection sees; and a failure.
LEMMA Settled ==
    ASSUME TableInv, NEW u,
           UNCHANGED tables \/ Commit(rows) \/ Commit(draft) \/ LeaveOpen(u)
    PROVE  TableInv' /\ rows' \in {rows, draft}
<1>1. UNCHANGED tables => UNCHANGED <<rows, draft, held>>
  BY DEF tables
<1>2. CASE UNCHANGED <<rows, draft, held>>
  BY <1>2 DEF TableInv
<1>3. CASE Commit(rows) \/ Commit(draft)
  BY <1>3 DEF TableInv, Commit
<1>4. CASE LeaveOpen(u)
  BY <1>4 DEF TableInv, LeaveOpen
<1>5. QED BY <1>1, <1>2, <1>3, <1>4

LEMMA Committed ==
    ASSUME NEW table, WellFormed(table), Commit(table)
    PROVE  TableInv'
BY DEF TableInv, Commit

\* The steps of the worker and of the poll.
LEMMA WorkerKeeps ==
    ASSUME ReviewInv, Grows, InventoryShape', GroupInv', TableInv',
           UNCHANGED <<status, user, manifest, snapshot, asks>>
    PROVE  ReviewInv'
<1>1. UNCHANGED <<status, pc, todo, seen, shown, manifest, snapshot, asks>>
  BY DEF user
<1>2. UserShape' /\ RestShape'
  BY <1>1 DEF ReviewInv, UserShape, RestShape
<1>3. run \in Nat
  BY ReviewAssumption DEF ReviewInv, InventoryShape
<1>4. ASSUME NEW v \in Users PROVE UserInv(v)'
  <2>1. Untouched(v)
    BY <1>1 DEF Untouched
  <2>2. QED BY <1>3, <2>1, UserStays DEF ReviewInv
<1>5. QED BY <1>2, <1>4 DEF ReviewInv

\* The steps that leave the inventory and the group alone.
LEMMA SameGroup ==
    ASSUME ReviewInv, UNCHANGED <<inventory, derived>>
    PROVE  Grows /\ InventoryShape' /\ GroupInv'
<1>1. UNCHANGED <<run, recorded, members, canonical, override, verdict, basis>>
  BY DEF inventory, derived
<1>2. Grows /\ InventoryShape'
  BY <1>1, SameRuns DEF ReviewInv
<1>3. GroupInv'
  BY <1>1 DEF ReviewInv, GroupInv, Copies
<1>4. QED BY <1>2, <1>3

LEMMA UserKeeps ==
    ASSUME ReviewInv, NEW u \in Users, UNCHANGED <<inventory, derived>>,
           TableInv', UserShape', RestShape', \A v \in Users \ {u} : Untouched(v),
           Grows => UserInv(u)'
    PROVE  ReviewInv' /\ Grows
<1>1. Grows /\ InventoryShape' /\ GroupInv'
  BY SameGroup
<1>2. \A v \in Users : UserInv(v)'
  BY <1>1, OthersStay
<1>3. QED BY <1>1, <1>2 DEF ReviewInv

---------------------------------------------------------------------------
(* One lemma per step.                                                      *)

LEMMA RescanStep ==
    ASSUME ReviewInv, Rescan
    PROVE  ReviewInv' /\ Grows /\ TellsTheSame(rows, rows') /\ draft' = rows'
<1>1. run \in 1..MaxRuns /\ run' = run + 1 /\ run' \in 1..MaxRuns /\ MaxRuns \in Nat
  BY ReviewAssumption DEF ReviewInv, InventoryShape, Rescan
<1>2. PICK same \in SUBSET recorded[run] : recorded' = [recorded EXCEPT ![run + 1] = same]
  BY DEF Rescan
<1>3. InventoryShape' /\ \A n \in 1..run : recorded'[n] = recorded[n]
  <2>1. same \subseteq Files
    BY <1>1 DEF ReviewInv, InventoryShape
  <2>2. QED BY <1>1, <1>2, <2>1 DEF ReviewInv, InventoryShape
<1>4. PICK new : new = {IF r \in {q \in rows : Outdated(q)} THEN [r EXCEPT !.stale = TRUE] ELSE r : r \in rows}
  OBVIOUS
<1>5. Commit(new)
  BY <1>4 DEF Rescan
<1>6. WellFormed(new) /\ TellsTheSame(rows, new)
  BY <1>4, Restale DEF ReviewInv, TableInv
<1>7. TableInv' /\ TellsTheSame(rows, rows') /\ draft' = rows'
  BY <1>5, <1>6, Committed DEF Commit
<1>8. Grows
  BY <1>1, <1>3 DEF Grows
<1>9. UNCHANGED <<members, canonical, override, verdict, basis>>
      /\ UNCHANGED <<status, user, manifest, snapshot, asks>>
  BY DEF Rescan, derived
<1>10. GroupInv'
  <2>1. members = {} \/ \E n \in 1..run : members = Copies(n)
    BY DEF ReviewInv, GroupInv
  <2>2. \A n \in 1..run : Copies(n)' = Copies(n) /\ n \in 1..run'
    BY <1>1, <1>3 DEF Copies
  <2>3. (members = {} \/ \E n \in 1..run : members = Copies(n))'
    BY <1>9, <2>1, <2>2
  <2>4. QED BY <1>9, <2>3 DEF ReviewInv, GroupInv
<1>11. QED BY <1>3, <1>7, <1>8, <1>9, <1>10, WorkerKeeps

LEMMA GroupingBeginsStep ==
    ASSUME ReviewInv, GroupingBegins
    PROVE  ReviewInv' /\ Grows /\ TellsTheSame(rows, rows') /\ draft' = rows'
<1>1. PICK new : new = {IF r \in {q \in rows : q.target = Group /\ q.current} THEN [r EXCEPT !.stale = TRUE] ELSE r : r \in rows}
  OBVIOUS
<1>2. Commit(new)
  BY <1>1 DEF GroupingBegins
<1>3. WellFormed(new) /\ TellsTheSame(rows, new)
  BY <1>1, Restale DEF ReviewInv, TableInv
<1>4. TableInv' /\ TellsTheSame(rows, rows') /\ draft' = rows'
  BY <1>2, <1>3, Committed DEF Commit
<1>5. UNCHANGED <<run, recorded, members, canonical, override, verdict>> /\ basis' = override
      /\ UNCHANGED <<status, user, manifest, snapshot, asks>>
  BY DEF GroupingBegins, inventory
<1>6. Grows /\ InventoryShape'
  BY <1>5, SameRuns DEF ReviewInv
<1>7. GroupInv'
  BY <1>5 DEF ReviewInv, GroupInv, Copies
<1>8. QED BY <1>4, <1>5, <1>6, <1>7, WorkerKeeps

LEMMA GroupingEndsStep ==
    ASSUME ReviewInv, GroupingEnds
    PROVE  ReviewInv' /\ Grows
<1> DEFINE copies == {<<f, run>> : f \in recorded[run]}
<1>1. run \in 1..MaxRuns /\ run \in Nat /\ run' = run /\ recorded' = recorded
      /\ UNCHANGED <<override, verdict>> /\ basis' = NoGrouping
      /\ UNCHANGED <<status, user, manifest, snapshot, asks>> /\ UNCHANGED tables
  BY ReviewAssumption DEF ReviewInv, InventoryShape, GroupingEnds, inventory, session
<1>2. Grows /\ InventoryShape'
  BY <1>1, SameRuns DEF ReviewInv
<1>3. TableInv'
  BY <1>1, Settled DEF ReviewInv
<1>4. copies = Copies(run) /\ copies \subseteq Entries
  <2>1. InventoryShape
    BY DEF ReviewInv
  <2>2. QED BY <1>1, <2>1, CopyFacts DEF Copies
<1>5. (members = {} \/ \E n \in 1..run : members = Copies(n))
      /\ canonical \in Entries \cup {NoEntry}
  BY DEF ReviewInv, GroupInv
<1>6. CASE Cardinality(copies) >= 2 /\ members' = copies
           /\ canonical' = IF basis \in copies THEN basis ELSE CHOOSE e \in copies : TRUE
  <2>1. copies # {}
    BY <1>4, <1>6, Counted
  <2>2. canonical' \in Entries
    BY <1>4, <1>6, <2>1
  <2>3. (\E n \in 1..run : members = Copies(n))'
    BY <1>1, <1>4, <1>6 DEF Copies
  <2>4. GroupInv'
    BY <1>1, <2>2, <2>3 DEF GroupInv, ReviewInv
  <2>5. QED BY <1>1, <1>2, <1>3, <2>4, WorkerKeeps
<1>7. CASE UNCHANGED <<members, canonical>> \/ (members' = {} /\ canonical' = NoEntry)
  <2>1. (members = {} \/ \E n \in 1..run : members = Copies(n))'
    BY <1>1, <1>5, <1>7 DEF Copies
  <2>2. GroupInv'
    BY <1>1, <1>5, <1>7, <2>1 DEF GroupInv, ReviewInv
  <2>3. QED BY <1>1, <1>2, <1>3, <2>2, WorkerKeeps
<1>8. QED BY <1>6, <1>7 DEF GroupingEnds

LEMMA ClassifyStep ==
    ASSUME ReviewInv, ClassifyBegins \/ ClassifyBatch
    PROVE  ReviewInv' /\ Grows
<1>1. /\ UNCHANGED <<run, recorded, members, canonical, override, basis>> /\ UNCHANGED tables
      /\ UNCHANGED <<status, user, manifest, snapshot, asks>>
  BY DEF ClassifyBegins, ClassifyBatch, inventory, session
<1>2. Grows /\ InventoryShape'
  BY <1>1, SameRuns DEF ReviewInv
<1>3. TableInv'
  BY <1>1, Settled DEF ReviewInv
<1>4. verdict' \in [Entries -> {"none", "allows", "forbids"}]
  BY DEF ClassifyBegins, ClassifyBatch, ReviewInv, GroupInv
<1>5. GroupInv'
  BY <1>1, <1>4 DEF ReviewInv, GroupInv, Copies
<1>6. QED BY <1>1, <1>2, <1>3, <1>5, WorkerKeeps

LEMMA PollStep ==
    ASSUME ReviewInv, NEW t \in Threads, Poll(t)
    PROVE  ReviewInv' /\ Grows
<1>1. Grows /\ InventoryShape' /\ GroupInv'
  BY SameGroup DEF Poll
<1>2. TableInv'
  BY Settled DEF Poll, ReviewInv
<1>3. QED BY <1>1, <1>2, WorkerKeeps DEF Poll

LEMMA DashboardEndsStep ==
    ASSUME ReviewInv, DashboardEnds
    PROVE  ReviewInv' /\ Grows
<1>1. Grows /\ InventoryShape' /\ GroupInv'
  BY SameGroup DEF DashboardEnds
<1>2. TableInv'
  BY Settled DEF DashboardEnds, ReviewInv
<1>3. RestShape'
  BY DEF DashboardEnds, ReviewInv, RestShape
<1>4. UserShape /\ Threads \subseteq Users /\ run \in Nat
  BY ReviewAssumption DEF ReviewInv, InventoryShape, Users
<1>5. \A u \in Users : pc'[u] = (IF u \in Threads THEN "idle" ELSE pc[u])
                       /\ todo'[u] = (IF u \in Threads THEN <<>> ELSE todo[u])
                       /\ seen'[u] = (IF u \in Threads THEN 0 ELSE seen[u])
                       /\ shown'[u] = (IF u \in Threads THEN NothingShown ELSE shown[u])
  BY DEF DashboardEnds
<1>6. UserShape'
  <2>1. <<>> \in Seq(Decisions) /\ "idle" \in Steps
    BY DEF Steps
  <2>2. QED BY <1>4, <2>1, NothingShownIsNone DEF UserShape, DashboardEnds
<1>7. ASSUME NEW u \in Users PROVE UserInv(u)'
  <2>1. CASE u \in Threads
    BY <1>5, <2>1, NothingShownIsNone DEF UserInv, PageInv, AtWork
  <2>2. CASE u \notin Threads
    <3>1. Untouched(u) /\ UserInv(u)
      BY <1>5, <2>2 DEF Untouched, ReviewInv
    <3>2. QED BY <1>1, <1>4, <3>1, UserStays
  <2>3. QED BY <2>1, <2>2
<1>8. QED BY <1>1, <1>2, <1>3, <1>6, <1>7 DEF ReviewInv

LEMMA DecideStep ==
    ASSUME ReviewInv, NEW u \in Users,
           (\E e \in Entries, c \in Choices : Decide(u, e, c)) \/ DecideGroup(u)
    PROVE  ReviewInv' /\ Grows
<1>1. PICK d \in Decisions : ~d.wizard /\ Begin(u, <<d>>)
  <2>1. CASE \E e \in Entries, c \in Choices : Decide(u, e, c)
    <3>1. PICK e \in Entries, c \in Choices : Decide(u, e, c)
      BY <2>1
    <3>2. Decision(e, c) \in Decisions /\ ~Decision(e, c).wizard
      BY DEF Decision, Decisions, Targets
    <3>3. QED BY <3>1, <3>2 DEF Decide
  <2>2. CASE DecideGroup(u)
    <3>1. Decision(Group, "OF_GROUP") \in Decisions /\ ~Decision(Group, "OF_GROUP").wizard
      BY DEF Decision, Decisions, Targets, Choices
    <3>2. QED BY <2>2, <3>1 DEF DecideGroup
  <2>3. QED BY <2>1, <2>2
<1>2. UNCHANGED <<inventory, derived, session, seen, shown, manifest, snapshot>>
  BY DEF Decide, DecideGroup
<1>3. Grows /\ InventoryShape' /\ GroupInv'
  BY <1>2, SameGroup
<1>4. UserShape' /\ asks' \in 0..(MaxAsks + 1) /\ \A v \in Users : UserInv(v)'
  BY <1>1, <1>2, <1>3, Begun
<1>5. UNCHANGED tables /\ RestShape'
  BY <1>2, <1>4 DEF session, ReviewInv, RestShape
<1>6. TableInv'
  BY <1>5, Settled DEF ReviewInv
<1>7. QED BY <1>3, <1>4, <1>5, <1>6 DEF ReviewInv

LEMMA OverrideStep ==
    ASSUME ReviewInv, NEW u \in Users, NEW e \in Entries, Override(u, e)
    PROVE  ReviewInv' /\ Grows
<1> DEFINE d == Decision(Group, "OF_GROUP")
<1>1. d \in Decisions /\ ~d.wizard /\ Begin(u, <<d>>)
  BY DEF Decision, Decisions, Targets, Choices, Override
<1>2. UNCHANGED <<run, recorded, members, verdict, basis, status, seen, shown, manifest, snapshot>>
      /\ canonical' = e /\ override' = e /\ Commit(draft)
  BY DEF Override, inventory
<1>3. Grows /\ InventoryShape'
  BY <1>2, SameRuns DEF ReviewInv
<1> HIDE DEF d
<1>4. UserShape' /\ asks' \in 0..(MaxAsks + 1) /\ \A v \in Users : UserInv(v)'
  BY <1>1, <1>2, <1>3, Begun
<1>5. RestShape'
  BY <1>2, <1>4 DEF ReviewInv, RestShape
<1>6. GroupInv'
  BY <1>2 DEF ReviewInv, GroupInv, Copies
<1>7. TableInv'
  BY <1>2, Settled DEF ReviewInv
<1>8. QED BY <1>3, <1>4, <1>5, <1>6, <1>7 DEF ReviewInv

\* A user goes on at another step of the same request.
LEMMA GoesOn ==
    ASSUME ReviewInv, NEW u \in Users, NEW step \in Steps, pc' = [pc EXCEPT ![u] = step],
           UNCHANGED <<todo, shown>>, seen' \in [Users -> 0..2],
           \A v \in Users \ {u} : seen'[v] = seen[v], AtWork(u)' => AtWork(u)
    PROVE  /\ UserShape' /\ \A v \in Users \ {u} : Untouched(v)
           /\ Grows => UserInv(u)'
<1>1. UserShape /\ UserInv(u) /\ run \in Nat
  BY ReviewAssumption DEF ReviewInv, InventoryShape
<1>2. UserShape'
  BY <1>1 DEF UserShape
<1>3. \A v \in Users \ {u} : Untouched(v)
  BY <1>1 DEF UserShape, Untouched
<1>4. ASSUME Grows PROVE UserInv(u)'
  BY <1>1, <1>4, WorkStays
<1>5. QED BY <1>2, <1>3, <1>4

LEMMA ReadStep ==
    ASSUME ReviewInv, NEW u \in Users, ReadDecision(u)
    PROVE  ReviewInv' /\ Grows
<1> DEFINE d == Head(todo[u])
           found == IF CurrentIn(Table(u), d.target) = {} THEN 0
                    ELSE (CHOOSE r \in CurrentIn(Table(u), d.target) : TRUE).id
<1>1. UNCHANGED <<inventory, derived, session, manifest, snapshot, asks>> /\ UserShape
      /\ UNCHANGED tables
  BY DEF ReadDecision, ReviewInv, session
<1>2. TableInv' /\ RestShape'
  BY <1>1, Settled DEF session, ReviewInv, RestShape
<1>3. CASE Finish(u)
  BY <1>1, <1>2, <1>3, Finished, UserKeeps
<1>4. CASE /\ pc' = [pc EXCEPT ![u] = "writing"]
           /\ seen' = [seen EXCEPT ![u] = found]
           /\ UNCHANGED <<todo, shown>>
  <2>1. found \in 0..2
    <3>1. Table(u) \subseteq Rows
      BY DEF Table, ReviewInv, TableInv, WellFormed
    <3>2. \A r \in CurrentIn(Table(u), d.target) : r.id \in 0..2
      BY <3>1, RowFields DEF CurrentIn, RowsIn
    <3>3. QED BY <3>2
  <2> HIDE DEF found
  <2>2. seen' \in [Users -> 0..2] /\ \A v \in Users \ {u} : seen'[v] = seen[v]
    BY <1>1, <1>4, <2>1 DEF UserShape
  <2>3. "writing" \in Steps /\ AtWork(u)
    BY DEF Steps, AtWork, ReadDecision
  <2>4. UserShape' /\ (\A v \in Users \ {u} : Untouched(v)) /\ (Grows => UserInv(u)')
    BY <1>4, <2>2, <2>3, GoesOn
  <2>5. QED BY <1>1, <1>2, <2>4, UserKeeps
<1>5. QED BY <1>3, <1>4 DEF ReadDecision

LEMMA PreviewStep ==
    ASSUME ReviewInv, NEW u \in Users, NEW rule \in Rules, Preview(u, rule)
    PROVE  ReviewInv' /\ Grows
<1>1. /\ UNCHANGED <<inventory, derived, session>> /\ UNCHANGED <<todo, seen, manifest, snapshot>>
      /\ asks < MaxAsks /\ asks' = asks + 1
  BY DEF Preview, Free
<1>2. Plan(rule) \in Plans /\ (~Plan(rule).skipped => WholePlan(Plan(rule)))
  BY Planned DEF ReviewInv
<1>3. TableInv' /\ RestShape'
  BY <1>1, ReviewAssumption, Settled DEF session, ReviewInv, RestShape
<1>4. UserShape' /\ \A v \in Users \ {u} : Untouched(v)
  BY <1>1, <1>2 DEF ReviewInv, UserShape, Untouched, Preview, Steps
<1>5. UserInv(u)'
  <2>1. pc'[u] = "shown" /\ shown'[u].plan = Plan(rule)
    BY DEF ReviewInv, UserShape, Preview
  <2>2. UNCHANGED <<run, recorded>>
    BY <1>1 DEF inventory
  <2>3. PageInv(u)'
    BY <1>2, <2>1, <2>2 DEF PageInv, WholePlan, Copies, Preview
  <2>4. QED BY <2>1, <2>3 DEF UserInv, AtWork
<1>6. QED BY <1>1, <1>3, <1>4, <1>5, UserKeeps

\* An apply goes on with the plan the page shows.
LEMMA ApplyStep ==
    ASSUME ReviewInv, NEW u \in Users, Apply(u)
    PROVE  ReviewInv' /\ Grows
<1> DEFINE now == Plan(shown[u].rule)
<1>1. UNCHANGED <<inventory, derived, session, manifest, snapshot, asks>>
      /\ UserShape /\ UserInv(u)
  BY DEF Apply, ReviewInv
<1>2. TableInv' /\ RestShape'
  BY <1>1, Settled DEF session, ReviewInv, RestShape
<1>3. CASE Finish(u)
  BY <1>1, <1>2, <1>3, Finished, UserKeeps
<1>4. CASE /\ shown[u].plan = now /\ ~now.skipped
           /\ todo' = [todo EXCEPT ![u] = InOrder(now)]
           /\ pc' = [pc EXCEPT ![u] = "next"]
           /\ UNCHANGED <<seen, shown>>
  <2>1. now \in Plans /\ WholePlan(now) /\ u \in Threads
    <3>1. shown[u].plan \in Plans /\ (~shown[u].plan.skipped => u \in Threads /\ WholePlan(shown[u].plan))
      BY <1>1 DEF UserShape, UserInv, PageInv
    <3>2. QED BY <1>4, <3>1
  <2> HIDE DEF now
  <2>2. now.keeper \in Entries
    <3>1. PICK n \in 1..run : now.keeper \in Copies(n)
      BY <2>1 DEF WholePlan
    <3>2. InventoryShape /\ n \in 1..MaxRuns
      BY <3>1, ReviewAssumption DEF ReviewInv, InventoryShape
    <3>3. QED BY <3>1, <3>2, CopyFacts
  <2>3. /\ InOrder(now) \in Seq(Decisions) /\ InOrder(now) # <<>>
        /\ \A i \in DOMAIN InOrder(now) :
             /\ InOrder(now)[i].wizard
             /\ i = 1 => InOrder(now)[i].choice = "MARK_KEEP" /\ InOrder(now)[i].target = now.keeper
             /\ i # 1 => /\ InOrder(now)[i].choice = "APPROVE_FOR_REVIEW"
                         /\ InOrder(now)[i].target \in now.approve
    BY <2>1, <2>2, ShownInOrder
  <2>4. UserShape' /\ \A v \in Users \ {u} : Untouched(v)
    BY <1>1, <1>4, <2>3 DEF UserShape, Untouched, Steps
  <2>5. ASSUME Grows PROVE UserInv(u)'
    <3>1. PageInv(u)'
      <4>1. run \in Nat /\ shown'[u] = shown[u]
        BY <1>4, ReviewAssumption DEF ReviewInv, InventoryShape
      <4>2. QED BY <1>1, <2>5, <4>1, ShownStays
    <3>2. pc'[u] = "next" /\ todo'[u] = InOrder(now) /\ shown'[u].plan = now
      BY <1>1, <1>4 DEF UserShape
    <3>3. 1 \in DOMAIN InOrder(now)
      BY <2>3, HeadFirst
    <3>4. \A i \in DOMAIN InOrder(now) :
             /\ InOrder(now)[i].wizard = InOrder(now)[1].wizard
             /\ AsShown(InOrder(now)[i], i = 1, now)
      <4>1. \A i \in DOMAIN InOrder(now) : InOrder(now)[i].wizard \in BOOLEAN
        BY <2>3 DEF Decisions
      <4>2. QED BY <1>4, <2>3, <3>3, <4>1 DEF AsShown
    <3>5. \A i \in DOMAIN todo'[u] :
              /\ todo'[u][i].wizard = todo'[u][1].wizard
              /\ todo'[u][i].wizard => u \in Threads /\ AsShown(todo'[u][i], i = 1, shown'[u].plan)
      BY <2>1, <3>2, <3>4
    <3>6. (\A i \in DOMAIN todo[u] :
              /\ todo[u][i].wizard = todo[u][1].wizard
              /\ todo[u][i].wizard => u \in Threads /\ AsShown(todo[u][i], i = 1, shown[u].plan))'
      BY <3>5 DEF AsShown
    <3>7. (todo[u] # <<>>)'
      BY <2>3, <3>2
    <3>8. QED BY <3>1, <3>6, <3>7 DEF UserInv
  <2>6. QED BY <1>1, <1>2, <2>4, <2>5, UserKeeps
<1>5. QED BY <1>3, <1>4 DEF Apply, Matches, Whole

LEMMA CutStep ==
    ASSUME ReviewInv, NEW u \in Users, Cut(u)
    PROVE  ReviewInv' /\ Grows
<1>1. UNCHANGED <<inventory, derived, session, manifest, snapshot, asks>> /\ UserShape /\ Finish(u)
  BY DEF Cut, ReviewInv
<1>2. TableInv' /\ RestShape'
  BY <1>1, Settled DEF session, ReviewInv, RestShape
<1>3. QED BY <1>1, <1>2, Finished, UserKeeps

LEMMA LockStep ==
    ASSUME ReviewInv, NEW u \in Users, Lock(u)
    PROVE  ReviewInv' /\ Grows
<1>1. /\ UNCHANGED <<inventory, derived>> /\ UNCHANGED tables
      /\ UNCHANGED <<pc, todo, seen, shown, manifest, snapshot>>
      /\ status' = "LOCKED" /\ asks < MaxAsks /\ asks' = asks + 1
  BY DEF Lock, user, Free
<1>2. UserShape' /\ RestShape' /\ \A v \in Users : Untouched(v)
  BY <1>1, ReviewAssumption DEF ReviewInv, UserShape, RestShape, Untouched
<1>3. run \in Nat /\ UserInv(u) /\ TableInv'
  BY <1>1, ReviewAssumption, Settled DEF ReviewInv, InventoryShape
<1>4. QED BY <1>1, <1>2, <1>3, UserStays, UserKeeps

\* A file is built of what was validated.
LEMMA ValidateBuildStep ==
    ASSUME ReviewInv, NEW u \in Users, Validate(u) \/ Build(u)
    PROVE  ReviewInv' /\ Grows
<1>1. /\ UNCHANGED <<inventory, derived, session>> /\ UNCHANGED <<todo, seen, shown, snapshot>>
      /\ pc' = [pc EXCEPT ![u] = "validated"] \/ pc' = [pc EXCEPT ![u] = "built"]
  BY DEF Validate, Build
<1>2. asks' \in 0..(MaxAsks + 1)
  BY ReviewAssumption DEF ReviewInv, RestShape, Validate, Build, Free
<1>3. manifest' \in Manifests
  <2>1. Approved \subseteq Entries /\ run \in 0..MaxRuns /\ DecidedByHand \in BOOLEAN
    BY ReviewAssumption DEF Approved, Listed, Current, DecidedByHand, ReviewInv, InventoryShape
  <2>2. {e \in Approved : Forbids(e)} \subseteq Entries
    BY <2>1
  <2>3. QED BY <2>1, <2>2 DEF Manifests, Build, Validate, ReviewInv, RestShape
<1>4. TableInv' /\ RestShape'
  BY <1>1, <1>2, <1>3, Settled DEF session, ReviewInv, RestShape
<1>5. UserShape' /\ (\A v \in Users \ {u} : Untouched(v)) /\ (Grows => UserInv(u)')
  <2>1. UserShape /\ "validated" \in Steps /\ "built" \in Steps
    BY DEF ReviewInv, Steps
  <2>2. ~AtWork(u)'
    BY <1>1, <2>1 DEF UserShape, AtWork
  <2>3. seen' \in [Users -> 0..2] /\ \A v \in Users \ {u} : seen'[v] = seen[v]
    BY <1>1, <2>1 DEF UserShape
  <2>4. QED BY <1>1, <2>1, <2>2, <2>3, GoesOn
<1>6. QED BY <1>1, <1>4, <1>5, UserKeeps

LEMMA SealExportStep ==
    ASSUME ReviewInv, NEW u \in Users, Seal(u) \/ Export(u)
    PROVE  ReviewInv' /\ Grows
<1> DEFINE now == [rows |-> {r \in Table(u) : r.current}, run |-> run]
<1>1. /\ UNCHANGED <<inventory, derived>> /\ asks' = asks /\ manifest' \in {manifest, NoManifest}
      /\ status' \in {status, "EXPORTED"}
      /\ Commit(draft) \/ LeaveOpen(u)
      /\ \/ Finish(u)
         \/ pc' = [pc EXCEPT ![u] = "sealed"] /\ UNCHANGED <<todo, seen, shown>>
  BY DEF Seal, Export
<1>2. now.rows \subseteq Rows /\ now.run \in 0..MaxRuns
  BY ReviewAssumption DEF Table, ReviewInv, TableInv, WellFormed, InventoryShape
<1>3. snapshot' \in {snapshot, now}
  BY DEF Seal, Export
<1> HIDE DEF now
<1>4. TableInv'
  BY <1>1, Settled DEF ReviewInv
<1>5. NoManifest \in Manifests
  BY ReviewAssumption DEF NoManifest, Manifests
<1>6. RestShape'
  BY <1>1, <1>2, <1>3, <1>5 DEF ReviewInv, RestShape
<1>7. UserShape' /\ (\A v \in Users \ {u} : Untouched(v)) /\ (Grows => UserInv(u)')
  <2>1. CASE Finish(u)
    BY <2>1, Finished DEF ReviewInv
  <2>2. CASE pc' = [pc EXCEPT ![u] = "sealed"] /\ UNCHANGED <<todo, seen, shown>>
    <3>1. UserShape /\ "sealed" \in Steps
      BY DEF ReviewInv, Steps
    <3>2. ~AtWork(u)'
      BY <2>2, <3>1 DEF UserShape, AtWork
    <3>3. seen' \in [Users -> 0..2] /\ \A v \in Users \ {u} : seen'[v] = seen[v]
      BY <2>2, <3>1 DEF UserShape
    <3>4. QED BY <2>2, <3>1, <3>2, <3>3, GoesOn
  <2>3. QED BY <1>1, <2>1, <2>2
<1>8. QED BY <1>1, <1>4, <1>6, <1>7, UserKeeps

\* What a request has to do next is a decision.
LEMMA ToDo ==
    ASSUME ReviewInv, NEW u \in Users, AtWork(u)
    PROVE  /\ todo[u] # <<>> /\ todo[u] \in Seq(Decisions) /\ Head(todo[u]) \in Decisions
           /\ Head(todo[u]).target \in Targets /\ seen[u] \in 0..2
<1>1. todo[u] # <<>> /\ todo[u] \in Seq(Decisions) /\ seen[u] \in 0..2
  BY DEF ReviewInv, UserInv, UserShape
<1>2. Head(todo[u]) \in Decisions
  BY <1>1, HeadFirst
<1>3. QED BY <1>1, <1>2 DEF Decisions

\* A request goes on with its next decision or ends.
LEMMA Proceeded ==
    ASSUME ReviewInv, NEW u \in Users, AtWork(u), Proceed(u)
    PROVE  /\ UserShape' /\ \A v \in Users \ {u} : Untouched(v)
           /\ Grows => UserInv(u)'
<1>1. UserShape /\ UserInv(u)
  BY DEF ReviewInv
<1>2. CASE Finish(u)
  BY <1>1, <1>2, Finished
<1>3. CASE /\ Tail(todo[u]) # <<>> /\ shown' = shown
           /\ pc' = [pc EXCEPT ![u] = "next"]
           /\ todo' = [todo EXCEPT ![u] = Tail(@)]
           /\ seen' = [seen EXCEPT ![u] = 0]
  <2>1. /\ 1 \in DOMAIN todo[u] /\ Tail(todo[u]) \in Seq(Decisions)
        /\ \A i \in DOMAIN Tail(todo[u]) :
             i + 1 \in DOMAIN todo[u] /\ i + 1 # 1 /\ Tail(todo[u])[i] = todo[u][i + 1]
    BY ToDo, HeadFirst
  <2>2. UserShape' /\ \A v \in Users \ {u} : Untouched(v)
    BY <1>1, <1>3, <2>1 DEF UserShape, Untouched, Steps
  <2>3. SUFFICES ASSUME Grows PROVE UserInv(u)'
    BY <2>2
  <2>4. PageInv(u)'
    <3>1. run \in Nat /\ shown'[u] = shown[u]
      BY <1>3, ReviewAssumption DEF ReviewInv, InventoryShape
    <3>2. QED BY <1>1, <2>3, <3>1, ShownStays
  <2>5. pc'[u] = "next" /\ todo'[u] = Tail(todo[u]) /\ shown'[u] = shown[u]
    BY <1>1, <1>3 DEF UserShape
  <2>6. \A i \in DOMAIN todo[u] :
          /\ todo[u][i].wizard = todo[u][1].wizard
          /\ todo[u][i].wizard => u \in Threads /\ AsShown(todo[u][i], i = 1, shown[u].plan)
    BY <1>1 DEF UserInv
  <2>7. ASSUME NEW i \in DOMAIN Tail(todo[u])
        PROVE  /\ Tail(todo[u])[i].wizard = todo[u][1].wizard
               /\ Tail(todo[u])[i].wizard =>
                    u \in Threads /\ AsShown(Tail(todo[u])[i], FALSE, shown[u].plan)
    <3>1. i + 1 \in DOMAIN todo[u] /\ (i + 1 = 1) = FALSE /\ Tail(todo[u])[i] = todo[u][i + 1]
      BY <2>1
    <3>2. todo[u][i + 1].wizard => AsShown(todo[u][i + 1], FALSE, shown[u].plan)
      BY <2>6, <3>1 DEF AsShown
    <3>3. QED BY <2>6, <3>1, <3>2
  <2>8. 1 \in DOMAIN Tail(todo[u])
    BY <1>3, <2>1, HeadFirst
  <2>9. \A i \in DOMAIN Tail(todo[u]) :
          /\ Tail(todo[u])[i].wizard = Tail(todo[u])[1].wizard
          /\ Tail(todo[u])[i].wizard => u \in Threads /\ AsShown(Tail(todo[u])[i], i = 1, shown[u].plan)
    BY <2>7, <2>8 DEF AsShown
  <2>10. (\A i \in DOMAIN todo[u] :
          /\ todo[u][i].wizard = todo[u][1].wizard
          /\ todo[u][i].wizard => u \in Threads /\ AsShown(todo[u][i], i = 1, shown[u].plan))'
    BY <2>5, <2>9 DEF AsShown
  <2>11. (todo[u] # <<>>)'
    BY <1>3, <2>5
  <2>12. QED BY <2>4, <2>10, <2>11 DEF UserInv
<1>4. QED BY <1>2, <1>3 DEF Proceed

\* The steps of a recording, which leave everything but the table and the user alone.
LEMMA RecordingKeeps ==
    ASSUME ReviewInv, NEW u \in Users, AtWork(u), TableInv',
           UNCHANGED <<inventory, derived, status, manifest, snapshot, asks>>,
           \/ Finish(u)
           \/ Proceed(u)
           \/ pc' = [pc EXCEPT ![u] = "inserting"] /\ UNCHANGED <<todo, seen, shown>>
    PROVE  ReviewInv' /\ Grows
<1>1. RestShape'
  BY DEF ReviewInv, RestShape
<1>2. CASE Finish(u)
  BY <1>1, <1>2, Finished, UserKeeps DEF ReviewInv
<1>3. CASE Proceed(u)
  BY <1>1, <1>3, Proceeded, UserKeeps
<1>4. CASE pc' = [pc EXCEPT ![u] = "inserting"] /\ UNCHANGED <<todo, seen, shown>>
  <2>1. "inserting" \in Steps
    BY DEF Steps
  <2>2. seen' \in [Users -> 0..2] /\ \A v \in Users \ {u} : seen'[v] = seen[v]
    BY <1>4 DEF ReviewInv, UserShape
  <2>3. UserShape' /\ (\A v \in Users \ {u} : Untouched(v)) /\ (Grows => UserInv(u)')
    BY <1>4, <2>1, <2>2, GoesOn
  <2>4. QED BY <1>1, <2>3, UserKeeps
<1>5. QED BY <1>2, <1>3, <1>4

LEMMA RetireStep ==
    ASSUME ReviewInv, NEW u \in Users, Retire(u)
    PROVE  ReviewInv' /\ Grows
<1> DEFINE new == Retired(draft, Head(todo[u]).target, seen[u])
<1>1. AtWork(u) /\ UNCHANGED <<inventory, derived, status, manifest, snapshot, asks>>
  BY DEF Retire, AtWork
<1>2. CASE KeepsUnique(new) /\ draft' = new /\ held' = TRUE /\ UNCHANGED rows
           /\ pc' = [pc EXCEPT ![u] = "inserting"] /\ UNCHANGED <<todo, seen, shown>>
  <2>1. Head(todo[u]).target \in Targets /\ seen[u] \in 0..2 /\ WellFormed(draft)
    BY <1>1, ToDo DEF ReviewInv, TableInv
  <2>2. KeepsUnique(new) => WellFormed(new)
    BY <2>1, Retires
  <2> HIDE DEF new
  <2>3. TableInv'
    BY <1>2, <2>2 DEF ReviewInv, TableInv
  <2>4. QED BY <1>1, <1>2, <2>3, RecordingKeeps
<1>3. CASE LeaveOpen(u) /\ Finish(u)
  <2>1. TableInv'
    BY <1>3, Settled DEF ReviewInv
  <2>2. QED BY <1>1, <1>3, <2>1, RecordingKeeps
<1>4. QED BY <1>2, <1>3 DEF Retire

LEMMA InsertStep ==
    ASSUME ReviewInv, NEW u \in Users, Insert(u)
    PROVE  ReviewInv' /\ Grows
<1> DEFINE new == Inserted(draft, Head(todo[u]))
<1>1. AtWork(u) /\ UNCHANGED <<inventory, derived, status, manifest, snapshot, asks>>
  BY DEF Insert, AtWork
<1>2. CASE KeepsUnique(new) /\ Commit(new) /\ Proceed(u)
  <2>1. WellFormed(new)
    BY <1>1, <1>2, ToDo, Inserts DEF ReviewInv, TableInv
  <2>2. TableInv'
    BY <1>2, <2>1, Committed
  <2>3. QED BY <1>1, <1>2, <2>2, RecordingKeeps
<1>3. CASE LeaveOpen(u) /\ Finish(u)
  <2>1. TableInv'
    BY <1>3, Settled DEF ReviewInv
  <2>2. QED BY <1>1, <1>3, <2>1, RecordingKeeps
<1>4. QED BY <1>2, <1>3 DEF Insert

LEMMA WriteStep ==
    ASSUME ReviewInv, NEW u \in Users, WriteDecision(u)
    PROVE  ReviewInv' /\ Grows
<1> DEFINE d == Head(todo[u])
           retired == Retired(rows, d.target, seen[u])
           new == Inserted(retired, d)
<1>1. AtWork(u) /\ UNCHANGED <<inventory, derived, status, manifest, snapshot, asks>>
  BY DEF WriteDecision, AtWork
<1>2. CASE KeepsUnique(retired) /\ KeepsUnique(new) /\ Commit(new) /\ Proceed(u)
  <2>1. WellFormed(retired)
    BY <1>1, <1>2, ToDo, Retires DEF ReviewInv, TableInv
  <2> HIDE DEF retired
  <2>2. WellFormed(new)
    BY <1>1, <1>2, <2>1, ToDo, Inserts
  <2>3. TableInv'
    BY <1>2, <2>2, Committed
  <2>4. QED BY <1>1, <1>2, <2>3, RecordingKeeps
<1>3. CASE Finish(u) /\ UNCHANGED tables
  <2>1. TableInv'
    BY <1>3, Settled DEF ReviewInv
  <2>2. QED BY <1>1, <1>3, <2>1, RecordingKeeps
<1>4. QED BY <1>2, <1>3 DEF WriteDecision

LEMMA InitShape == Init => ReviewInv
<1> SUFFICES ASSUME Init PROVE ReviewInv
  OBVIOUS
<1>1. InventoryShape
  BY ReviewAssumption DEF Init, InventoryShape
<1>2. GroupInv
  BY DEF Init, GroupInv
<1>3. TableInv
  BY DEF Init, TableInv, WellFormed, RowsIn
<1>4. UserShape
  <2>1. <<>> \in Seq(Decisions) /\ "idle" \in Steps
    BY DEF Steps
  <2>2. QED BY <2>1, NothingShownIsNone DEF Init, UserShape
<1>5. RestShape
  <2>1. snapshot.rows = {} /\ snapshot.run = 0
    BY DEF Init
  <2>2. 0 \in 0..MaxRuns /\ 0 \in 0..(MaxAsks + 1)
    BY ReviewAssumption
  <2>3. status = "OPEN" /\ asks = 0 /\ manifest = NoManifest
    BY DEF Init
  <2>4. snapshot.rows \subseteq Rows /\ snapshot.run \in 0..MaxRuns
    BY <2>1, <2>2
  <2>5. NoManifest \in Manifests
    BY <2>2 DEF NoManifest, Manifests
  <2>6. QED BY <2>2, <2>3, <2>4, <2>5 DEF RestShape
<1>6. \A u \in Users : UserInv(u)
  BY NothingShownIsNone DEF Init, UserInv, PageInv, AtWork
<1>7. QED BY <1>1, <1>2, <1>3, <1>4, <1>5, <1>6 DEF ReviewInv

\* Every step keeps the invariant and takes no run back.
LEMMA EveryStep ==
    ASSUME ReviewInv, Next
    PROVE  ReviewInv' /\ Grows
<1>1. CASE Worker
  BY <1>1, RescanStep, GroupingBeginsStep, GroupingEndsStep, ClassifyStep DEF Worker
<1>2. CASE DashboardEnds
  BY <1>2, DashboardEndsStep
<1>3. CASE \E t \in Threads : Poll(t)
  BY <1>3, PollStep
<1>4. ASSUME NEW u \in Users, User(u) PROVE ReviewInv' /\ Grows
  <2>1. CASE \E e \in Entries : (\E c \in Choices : Decide(u, e, c)) \/ Override(u, e)
    BY <2>1, DecideStep, OverrideStep
  <2>2. CASE \E rule \in Rules : Preview(u, rule)
    BY <2>2, PreviewStep
  <2>3. CASE DecideGroup(u) \/ ReadDecision(u) \/ Cut(u)
    BY <2>3, DecideStep, ReadStep, CutStep
  <2>4. CASE Retire(u) \/ Insert(u) \/ WriteDecision(u)
    BY <2>4, RetireStep, InsertStep, WriteStep
  <2>5. CASE Lock(u) \/ Validate(u) \/ Build(u) \/ Seal(u) \/ Export(u)
    BY <2>5, LockStep, ValidateBuildStep, SealExportStep
  <2>6. QED BY <1>4, <2>1, <2>2, <2>3, <2>4, <2>5, ApplyStep DEF User
<1>5. QED BY <1>1, <1>2, <1>3, <1>4 DEF Next

LEMMA ReviewStep == ReviewInv /\ [Next]_vars => ReviewInv'
<1> SUFFICES ASSUME ReviewInv, [Next]_vars PROVE ReviewInv'
  OBVIOUS
<1>1. CASE Next
  BY <1>1, EveryStep
<1>2. CASE UNCHANGED vars
  <2>1. /\ UNCHANGED <<inventory, derived>> /\ UNCHANGED tables
        /\ UNCHANGED <<status, user, manifest, snapshot, asks>>
    BY <1>2 DEF vars, session
  <2>2. Grows /\ InventoryShape' /\ GroupInv'
    BY <2>1, SameGroup
  <2>3. TableInv'
    BY <2>1, Settled DEF ReviewInv
  <2>4. QED BY <2>1, <2>2, <2>3, WorkerKeeps
<1>3. QED BY <1>1, <1>2

\* The inductive invariant holds in every state.
THEOREM ReviewCorrect == Spec => []ReviewInv
<1>1. QED BY InitShape, ReviewStep, PTL DEF Spec

LEMMA ReviewTypes == ReviewInv => TypeOK
<1> SUFFICES ASSUME ReviewInv PROVE TypeOK
  OBVIOUS
<1>1. members \subseteq Entries
  <2>1. CASE members = {}
    BY <2>1
  <2>2. CASE members # {}
    <3>1. PICK n \in 1..run : members = Copies(n)
      BY <2>2 DEF ReviewInv, GroupInv
    <3>2. InventoryShape /\ n \in 1..MaxRuns
      BY <3>1, ReviewAssumption DEF ReviewInv, InventoryShape
    <3>3. QED BY <3>1, <3>2, CopyFacts
  <2>3. QED BY <2>1, <2>2
<1>2. \A u \in Users : \A i \in DOMAIN todo[u] :
        todo[u][i] \in [target : Targets, choice : Choices, wizard : BOOLEAN]
  <2>1. ASSUME NEW u \in Users, NEW i \in DOMAIN todo[u] PROVE todo[u][i] \in Decisions
    <3>1. todo[u] \in Seq(Decisions)
      BY DEF ReviewInv, UserShape
    <3>2. QED BY <3>1
  <2>2. QED BY <2>1 DEF Decisions
<1>3. rows \subseteq Rows /\ draft \subseteq Rows /\ held \in BOOLEAN
  BY DEF ReviewInv, TableInv, WellFormed
<1>4. QED BY <1>1, <1>2, <1>3
    DEF TypeOK, ReviewInv, InventoryShape, GroupInv, UserShape, RestShape

\* The tables, the users' pages and what they still have to record stay in their types,
\* with any threads on the one connection.
THEOREM TypeCorrect == Spec => []TypeOK
<1>1. QED BY ReviewCorrect, ReviewTypes, PTL

\* Only the end of a recording changes the table and leaves "writing" and "inserting".
LEMMA OnlyWrites ==
    ASSUME ReviewInv, Next, NEW u \in Users, Writes(u)
    PROVE  Insert(u) \/ WriteDecision(u)
<1>1. /\ pc[u] \in {"writing", "inserting"} /\ pc'[u] \notin {"writing", "inserting"}
      /\ rows' # rows
  BY DEF Writes
<1>2. ~Worker /\ ~DashboardEnds /\ ~\E t \in Threads : Poll(t)
  <2>1. Worker \/ (\E t \in Threads : Poll(t)) => pc' = pc
    BY DEF Worker, Poll, Rescan, GroupingBegins, GroupingEnds, ClassifyBegins, ClassifyBatch, user
  <2>2. DashboardEnds => rows' = rows
    BY DEF DashboardEnds, Commit
  <2>3. QED BY <1>1, <2>1, <2>2
<1>3. PICK v \in Users : User(v)
  BY <1>2 DEF Next
<1>4. v = u
  <2>1. SUFFICES ASSUME v # u PROVE FALSE
    OBVIOUS
  <2>2. UserShape
    BY DEF ReviewInv
  <2>3. pc'[u] = pc[u]
    BY <1>3, <2>1, <2>2
      DEF User, Decide, Override, DecideGroup, ReadDecision, Retire, Insert, WriteDecision, Cut, Preview,
          Apply, Lock, Validate, Build, Seal, Export, Proceed, Finish, Begin, UserShape, user
  <2>4. QED BY <1>1, <2>3
<1>5. pc[u] \in {"writing", "inserting"} => Retire(u) \/ Insert(u) \/ WriteDecision(u) \/ Cut(u) \/ Lock(u)
  BY <1>3, <1>4 DEF User, Decide, Override, DecideGroup, ReadDecision, Preview, Apply, Validate, Build,
                    Seal, Export, Begin, Free
<1>6. Cut(u) \/ Lock(u) \/ Retire(u) => rows' = rows
  BY DEF Cut, Lock, Retire, session, tables, LeaveOpen
<1>7. QED BY <1>1, <1>5, <1>6

\* Every decision an apply records is one of the plan its user's page shows
\* (wizard.py, apply_rule), whatever was scanned and grouped meanwhile.
THEOREM WhatWasShownIsRecorded == Spec => WizardWritesWhatWasShown
<1>1. ReviewInv /\ [Next]_vars =>
        [\A u \in Users : Writes(u) /\ Head(todo[u]).wizard =>
           LET d == Head(todo[u])
               plan == shown[u].plan
           IN  ~plan.skipped /\
               d.target \in (IF d.choice = "MARK_KEEP" THEN {plan.keeper} ELSE plan.approve)]_vars
  <2>1. ASSUME ReviewInv, NEW u \in Users, Writes(u), Head(todo[u]).wizard
        PROVE  LET d == Head(todo[u])
                   plan == shown[u].plan
               IN  ~plan.skipped /\
                   d.target \in (IF d.choice = "MARK_KEEP" THEN {plan.keeper} ELSE plan.approve)
    <3>1. UserInv(u) /\ AtWork(u) /\ todo[u] \in Seq(Decisions)
      BY <2>1 DEF Writes, AtWork, ReviewInv, UserShape
    <3>2. todo[u] # <<>>
      BY <3>1 DEF UserInv
    <3>3. Head(todo[u]) = todo[u][1] /\ 1 \in DOMAIN todo[u]
      BY <3>1, <3>2, HeadFirst
    <3>4. AsShown(Head(todo[u]), TRUE, shown[u].plan)
      BY <2>1, <3>1, <3>3 DEF UserInv, AsShown
    <3>5. QED BY <3>4 DEF AsShown
  <2>2. QED BY <2>1
<1>2. QED BY <1>1, ReviewCorrect, PTL DEF Spec, WizardWritesWhatWasShown

---------------------------------------------------------------------------
(* One request of the dashboard at a time.                                  *)

OneThread == \A t, q \in Threads : t = q

Recording(u) == pc[u] \in {"writing", "inserting"}

\* A target with rows has a current one; a thread in the middle of a recording has
\* retired the row it found, and nobody else has written; and what was found is there.
NoneHalved == \A t \in Targets : RowsOf(t) # {} => CurrentRows(t) # {}
InTheMiddle(u) ==
    /\ u \in Threads /\ held /\ seen[u] # 0
    /\ draft = Retired(rows, Head(todo[u]).target, seen[u])
FoundOne(u) == seen[u] # 0 => RowsOf(Head(todo[u]).target) # {}
SingleInv ==
    /\ NoneHalved
    /\ \A u \in Users : pc[u] = "inserting" => InTheMiddle(u)
    /\ (\A u \in Users : pc[u] # "inserting") => draft = rows
    /\ \A u \in Users : Recording(u) => FoundOne(u)

\* Nobody is in the middle of a recording while another may write.
LEMMA Undisturbed ==
    ASSUME OneThread, SingleInv, NEW u \in Users, MayWrite(u), pc[u] # "inserting"
    PROVE  draft = rows /\ \A v \in Users : pc[v] # "inserting"
<1>1. ASSUME NEW v \in Users, pc[v] = "inserting" PROVE FALSE
  <2>1. v \in Threads /\ held
    BY <1>1 DEF SingleInv, InTheMiddle
  <2>2. v = u
    BY <2>1 DEF MayWrite, OneThread
  <2>3. QED BY <1>1, <2>2
<1>2. QED BY <1>1 DEF SingleInv

LEMMA NobodyHolds ==
    ASSUME SingleInv, ~held
    PROVE  draft = rows /\ \A v \in Users : pc[v] # "inserting"
BY DEF SingleInv, InTheMiddle

\* The table is the same for everybody after the step.
LEMMA SingleCommits ==
    ASSUME SingleInv, NoneHalved', draft' = rows',
           \A r \in rows : \E q \in rows' : q.target = r.target,
           \A v \in Users : pc'[v] # "inserting",
           \A v \in Users : Recording(v)' =>
              Recording(v) /\ todo'[v] = todo[v] /\ seen'[v] = seen[v]
    PROVE  SingleInv'
<1>1. ASSUME NEW v \in Users, Recording(v)' PROVE FoundOne(v)'
  <2>1. FoundOne(v) /\ todo'[v] = todo[v] /\ seen'[v] = seen[v]
    BY <1>1 DEF SingleInv
  <2>2. CASE seen[v] = 0
    BY <2>1, <2>2 DEF FoundOne
  <2>3. CASE seen[v] # 0
    <3>1. PICK r \in rows : r.target = Head(todo[v]).target
      BY <2>1, <2>3 DEF FoundOne, RowsOf, RowsIn
    <3>2. PICK q \in rows' : q.target = Head(todo'[v]).target
      BY <2>1, <3>1
    <3>3. QED BY <3>2 DEF FoundOne, RowsOf, RowsIn
  <2>4. QED BY <2>2, <2>3
<1>2. QED BY <1>1 DEF SingleInv

\* The step writes nothing.
LEMMA SingleStays ==
    ASSUME SingleInv, UNCHANGED <<rows, draft>>, held => held',
           \A v \in Users : pc[v] = "inserting" <=> pc'[v] = "inserting",
           \A v \in Users : Recording(v)' =>
              \/ Recording(v) /\ todo'[v] = todo[v] /\ seen'[v] = seen[v]
              \/ pc'[v] = "writing" /\ FoundOne(v)'
    PROVE  SingleInv'
<1>1. NoneHalved'
  BY DEF SingleInv, NoneHalved, RowsOf, CurrentRows
<1>2. ASSUME NEW v \in Users, pc'[v] = "inserting" PROVE InTheMiddle(v)'
  <2>1. InTheMiddle(v) /\ todo'[v] = todo[v] /\ seen'[v] = seen[v]
    BY <1>2 DEF SingleInv, Recording
  <2>2. QED BY <2>1 DEF InTheMiddle
<1>3. ASSUME NEW v \in Users, Recording(v)' PROVE FoundOne(v)'
  <2>1. CASE Recording(v) /\ todo'[v] = todo[v] /\ seen'[v] = seen[v]
    <3>1. FoundOne(v)
      BY <2>1 DEF SingleInv
    <3>2. QED BY <2>1, <3>1 DEF FoundOne, RowsOf
  <2>2. QED BY <1>3, <2>1
<1>4. QED BY <1>1, <1>2, <1>3 DEF SingleInv

\* A new row takes the place of the one its writer found.
Replaces(u) ==
    LET d == Head(todo[u])
    IN  /\ \A t \in Targets : t # d.target => RowsOf(t)' = RowsOf(t)
        /\ \A r \in CurrentIn(rows', d.target) : r.choice = d.choice
        /\ \E r \in rows' : r.target = d.target /\ r.wizard = d.wizard /\ r.current
        /\ Covers(rows', rows)
        /\ \A q \in rows' : (q.target = d.target /\ q.wizard = d.wizard) \/ Covers(rows, {q})
        /\ {r.id : r \in CurrentRows(d.target)} = IF seen[u] = 0 THEN {} ELSE {seen[u]}

LEMMA Replacing ==
    ASSUME ReviewInv, SingleInv, NEW u \in Users, Recording(u),
           NEW mid, mid = Retired(rows, Head(todo[u]).target, seen[u]), WellFormed(mid),
           KeepsUnique(Inserted(mid, Head(todo[u]))), rows' = Inserted(mid, Head(todo[u]))
    PROVE  Replaces(u)
<1>1. PICK d : d = Head(todo[u])
  OBVIOUS
<1>2. PICK id : id = seen[u]
  OBVIOUS
<1>3. d \in Decisions /\ d.target \in Targets /\ id \in 0..2 /\ WellFormed(rows)
  BY <1>1, <1>2, ToDo DEF Recording, AtWork, ReviewInv, TableInv
<1>4. PICK new : new = Inserted(mid, d)
  OBVIOUS
<1>5. KeepsUnique(new) /\ rows' = new
  BY <1>1, <1>4
<1>6. /\ CurrentIn(mid, d.target) = {}
      /\ \A r \in CurrentIn(new, d.target) : r.choice = d.choice
      /\ \A t \in Targets : t # d.target => RowsIn(new, t) = RowsIn(mid, t)
      /\ \E r \in new : r.target = d.target /\ r.wizard = d.wizard /\ r.current
      /\ mid \subseteq new
      /\ \A q \in new : q \in mid \/ (q.target = d.target /\ q.wizard = d.wizard)
  BY <1>3, <1>4, <1>5, Inserts
<1>7. /\ \A s \in Targets : s # d.target => RowsIn(mid, s) = RowsIn(rows, s)
      /\ Covers(mid, rows) /\ Covers(rows, mid)
      /\ id = 0 => mid = rows
      /\ \A r \in CurrentIn(rows, d.target) : r.id # id => r \in CurrentIn(mid, d.target)
  <2>1. mid = Retired(rows, d.target, id)
    BY <1>1, <1>2
  <2>2. QED BY <1>3, <2>1, Retires
<1>8. {r.id : r \in CurrentRows(d.target)} = IF id = 0 THEN {} ELSE {id}
  <2>1. CASE id = 0
    BY <1>6, <1>7, <2>1 DEF CurrentRows
  <2>2. CASE id # 0
    <3>1. CurrentRows(d.target) # {}
      BY <1>1, <1>2, <1>3, <2>2 DEF SingleInv, FoundOne, NoneHalved
    <3>2. \A r \in CurrentRows(d.target) : r.id = id
      BY <1>6, <1>7 DEF CurrentRows
    <3>3. QED BY <2>2, <3>1, <3>2
  <2>3. QED BY <2>1, <2>2
<1>9. \A t \in Targets : t # d.target => RowsOf(t)' = RowsOf(t)
  BY <1>5, <1>6, <1>7 DEF RowsOf
<1>10. \A r \in CurrentIn(rows', d.target) : r.choice = d.choice
  BY <1>5, <1>6
<1>11. /\ \E r \in rows' : r.target = d.target /\ r.wizard = d.wizard /\ r.current
       /\ Covers(rows', rows)
       /\ \A q \in rows' : (q.target = d.target /\ q.wizard = d.wizard) \/ Covers(rows, {q})
  <2>1. \E r \in new : r.target = d.target /\ r.wizard = d.wizard /\ r.current
    BY <1>6
  <2>2. Covers(new, rows)
    BY <1>6, <1>7 DEF Covers
  <2>3. \A q \in mid : Covers(rows, {q})
    BY <1>7 DEF Covers
  <2>4. \A q \in new : (q.target = d.target /\ q.wizard = d.wizard) \/ Covers(rows, {q})
    BY <1>6, <2>3
  <2>5. QED BY <1>5, <2>1, <2>2, <2>4
<1>12. QED BY <1>1, <1>2, <1>8, <1>9, <1>10, <1>11 DEF Replaces

\* A recording ends with the row it found replaced, or as if it had not begun.
LEMMA Recorded ==
    ASSUME OneThread, ReviewInv, SingleInv, NEW u \in Users, Insert(u) \/ WriteDecision(u)
    PROVE  /\ draft' = rows' /\ Recording(u) /\ \A v \in Users : v # u => pc[v] # "inserting"
           /\ \/ rows' = rows /\ Finish(u)
              \/ Replaces(u) /\ Proceed(u)
<1>1. Recording(u) /\ AtWork(u)
  BY DEF Insert, WriteDecision, Recording, AtWork
<1>2. Head(todo[u]) \in Decisions /\ Head(todo[u]).target \in Targets /\ seen[u] \in 0..2
  BY <1>1, ToDo
<1>3. WellFormed(rows) /\ WellFormed(draft)
  BY DEF ReviewInv, TableInv
<1>4. \A v \in Users : v # u => pc[v] # "inserting"
  <2>1. SUFFICES ASSUME NEW v \in Users, v # u, pc[v] = "inserting" PROVE FALSE
    OBVIOUS
  <2>2. v \in Threads /\ held
    BY <2>1 DEF SingleInv, InTheMiddle
  <2>3. QED BY <2>1, <2>2 DEF Insert, WriteDecision, OneThread
<1>5. CASE Insert(u)
  <2>1. PICK t : t = Head(todo[u]).target
    OBVIOUS
  <2>2. t \in Targets
    BY <1>2, <2>1
  <2>3. draft = Retired(rows, t, seen[u])
    <3>1. CASE pc[u] = "inserting"
      BY <2>1, <3>1 DEF SingleInv, InTheMiddle
    <3>2. CASE pc[u] = "writing" /\ seen[u] = 0
      <4>1. draft = rows
        BY <1>4, <3>2 DEF SingleInv
      <4>2. Retired(rows, t, seen[u]) = rows
        BY <1>2, <1>3, <2>2, <3>2, Retires
      <4>3. QED BY <4>1, <4>2
    <3>3. QED BY <1>5, <3>1, <3>2 DEF Insert
  <2>4. CASE KeepsUnique(Inserted(draft, Head(todo[u]))) /\ Commit(Inserted(draft, Head(todo[u]))) /\ Proceed(u)
    <3>1. Replaces(u)
      BY <1>1, <1>3, <2>1, <2>3, <2>4, Replacing DEF Commit
    <3>2. QED BY <1>1, <1>4, <2>4, <3>1 DEF Commit
  <2>5. CASE ~KeepsUnique(Inserted(draft, Head(todo[u]))) /\ LeaveOpen(u) /\ Finish(u)
    <3>1. CurrentIn(draft, t) # {}
      BY <1>2, <1>3, <2>1, <2>5, Inserts
    <3>2. draft = rows
      BY <1>2, <1>3, <2>2, <2>3, <3>1, Retires
    <3>3. QED BY <1>1, <1>4, <2>5, <3>2 DEF LeaveOpen
  <2>6. QED BY <1>5, <2>4, <2>5 DEF Insert
<1>6. CASE WriteDecision(u)
  <2>1. PICK mid : mid = Retired(rows, Head(todo[u]).target, seen[u])
    OBVIOUS
  <2>2. CASE /\ KeepsUnique(mid) /\ KeepsUnique(Inserted(mid, Head(todo[u])))
             /\ Commit(Inserted(mid, Head(todo[u]))) /\ Proceed(u)
    <3>1. WellFormed(mid)
      BY <1>2, <1>3, <2>1, <2>2, Retires
    <3>2. Replaces(u)
      BY <1>1, <2>1, <2>2, <3>1, Replacing DEF Commit
    <3>3. QED BY <1>1, <1>4, <2>2, <3>2 DEF Commit
  <2>3. CASE Finish(u) /\ UNCHANGED tables
    <3>1. draft = rows
      BY <1>6, NobodyHolds DEF WriteDecision
    <3>2. QED BY <1>1, <1>4, <2>3, <3>1 DEF tables
  <2>4. QED BY <1>6, <2>1, <2>2, <2>3 DEF WriteDecision
<1>7. QED BY <1>5, <1>6

LEMMA SingleRecorded ==
    ASSUME OneThread, ReviewInv, SingleInv, NEW u \in Users, Insert(u) \/ WriteDecision(u)
    PROVE  SingleInv'
<1>1. /\ draft' = rows' /\ Recording(u) /\ \A v \in Users : v # u => pc[v] # "inserting"
      /\ \/ rows' = rows /\ Finish(u)
         \/ Replaces(u) /\ Proceed(u)
  BY Recorded
<1>2. UserShape
  BY DEF ReviewInv
<1>3. pc'[u] \in {"idle", "next"} /\ \A v \in Users \ {u} : Untouched(v)
  <2>1. CASE Finish(u)
    BY <1>2, <2>1, Finished
  <2>2. CASE Proceed(u)
    BY <1>1, <1>2, <2>2, Proceeded DEF Recording, AtWork, Proceed, Finish, UserShape
  <2>3. QED BY <1>1, <2>1, <2>2
<1>4. \A r \in rows : \E q \in rows' : q.target = r.target
  BY <1>1 DEF Replaces, Covers
<1>5. NoneHalved'
  <2>1. CASE rows' = rows
    BY <2>1 DEF SingleInv, NoneHalved, RowsOf, CurrentRows
  <2>2. CASE Replaces(u)
    <3>1. PICK d : d = Head(todo[u])
      OBVIOUS
    <3>2. /\ \A t \in Targets : t # d.target => RowsOf(t)' = RowsOf(t)
          /\ \E r \in rows' : r.target = d.target /\ r.current
      BY <2>2, <3>1 DEF Replaces
    <3>3. ASSUME NEW t \in Targets, RowsOf(t)' # {} PROVE CurrentRows(t)' # {}
      <4>1. CASE t = d.target
        BY <3>2, <4>1 DEF CurrentRows, CurrentIn, RowsIn
      <4>2. CASE t # d.target
        <5>1. RowsOf(t)' = RowsOf(t) /\ CurrentRows(t) # {}
          BY <3>2, <3>3, <4>2 DEF SingleInv, NoneHalved
        <5>2. QED BY <5>1 DEF CurrentRows, CurrentIn, RowsOf
      <4>3. QED BY <4>1, <4>2
    <3>4. QED BY <3>3 DEF NoneHalved
  <2>3. QED BY <1>1, <2>1, <2>2
<1>6. \A v \in Users : pc'[v] # "inserting"
  BY <1>1, <1>3 DEF Untouched
<1>7. \A v \in Users : Recording(v)' => Recording(v) /\ todo'[v] = todo[v] /\ seen'[v] = seen[v]
  BY <1>3 DEF Untouched, Recording
<1>8. QED BY <1>1, <1>4, <1>5, <1>6, <1>7, SingleCommits

LEMMA SameTold ==
    ASSUME TellsTheSame(rows, rows'), NoneHalved
    PROVE  NoneHalved' /\ \A r \in rows : \E q \in rows' : q.target = r.target
<1>1. ASSUME NEW t \in Targets, RowsOf(t)' # {} PROVE CurrentRows(t)' # {}
  <2>1. PICK q \in rows' : q.target = t
    BY <1>1 DEF RowsOf, RowsIn
  <2>2. \E r \in rows : r.target = t
    BY <2>1 DEF TellsTheSame
  <2>3. PICK r \in rows : r.target = t /\ r.current
    BY <2>2 DEF NoneHalved, RowsOf, CurrentRows, CurrentIn, RowsIn
  <2>4. \E p \in rows' : p.target = t /\ p.current
    BY <2>3 DEF TellsTheSame
  <2>5. QED BY <2>4 DEF CurrentRows, CurrentIn, RowsIn
<1>2. QED BY <1>1 DEF NoneHalved, TellsTheSame

\* The steps of others, which leave what the users are at.
LEMMA SingleOthers ==
    ASSUME OneThread, ReviewInv, SingleInv,
           Worker \/ DashboardEnds \/ \E t \in Threads : Poll(t)
    PROVE  SingleInv' /\ TellsTheSame(rows, rows')
<1>1. CASE Rescan \/ GroupingBegins
  <2>1. TellsTheSame(rows, rows') /\ draft' = rows'
    BY <1>1, RescanStep, GroupingBeginsStep
  <2>2. \A v \in Users : pc[v] # "inserting"
    BY <1>1, NobodyHolds DEF Rescan, GroupingBegins, MayBegin, MayWork
  <2>3. UNCHANGED <<pc, todo, seen>>
    BY <1>1 DEF Rescan, GroupingBegins, user
  <2>4. NoneHalved' /\ \A r \in rows : \E q \in rows' : q.target = r.target
    BY <2>1, SameTold DEF SingleInv
  <2>5. SingleInv'
    BY <2>1, <2>2, <2>3, <2>4, SingleCommits DEF Recording
  <2>6. QED BY <2>1, <2>5
<1>2. CASE GroupingEnds \/ ClassifyBegins \/ ClassifyBatch
  <2>1. UNCHANGED <<rows, draft, held, pc, todo, seen>>
    BY <1>2 DEF GroupingEnds, ClassifyBegins, ClassifyBatch, session, tables, user
  <2>2. SingleInv'
    BY <2>1, SingleStays DEF Recording
  <2>3. QED BY <2>1, <2>2 DEF TellsTheSame
<1>3. CASE \E t \in Threads : Poll(t)
  <2>1. PICK t \in Threads : Poll(t)
    BY <1>3
  <2>2. draft = rows /\ \A v \in Users : pc[v] # "inserting"
    BY <2>1, Undisturbed DEF Poll, MayWrite, Users
  <2>3. UNCHANGED <<rows, pc, todo, seen>> /\ draft' = rows'
    BY <2>1, <2>2 DEF Poll, Commit, user
  <2>4. TellsTheSame(rows, rows')
    BY <2>3 DEF TellsTheSame
  <2>5. NoneHalved' /\ \A r \in rows : \E q \in rows' : q.target = r.target
    BY <2>4, SameTold DEF SingleInv
  <2>6. SingleInv'
    BY <2>2, <2>3, <2>5, SingleCommits DEF Recording
  <2>7. QED BY <2>4, <2>6
<1>4. CASE DashboardEnds
  <2>1. rows' = rows /\ draft' = rows'
    BY <1>4 DEF DashboardEnds, Commit
  <2>2. \A v \in Users : pc[v] = "inserting" => v \in Threads
    BY DEF SingleInv, InTheMiddle
  <2>3. \A v \in Users : pc'[v] # "inserting" /\ (pc'[v] # "idle" => Untouched(v))
    BY <1>4, <2>2 DEF DashboardEnds, Untouched
  <2>4. TellsTheSame(rows, rows')
    BY <2>1 DEF TellsTheSame
  <2>5. NoneHalved' /\ \A r \in rows : \E q \in rows' : q.target = r.target
    BY <2>4, SameTold DEF SingleInv
  <2>6. SingleInv'
    BY <2>1, <2>3, <2>5, SingleCommits DEF Recording, Untouched
  <2>7. QED BY <2>4, <2>6
<1>5. QED BY <1>1, <1>2, <1>3, <1>4 DEF Worker

\* The steps of a user up to the write of a decision, and the others.
LEMMA SingleUser ==
    ASSUME OneThread, ReviewInv, SingleInv, NEW u \in Users, User(u),
           ~Insert(u), ~WriteDecision(u)
    PROVE  SingleInv' /\ rows' = rows
<1>1. UserShape
  BY DEF ReviewInv
<1>2. NoneHalved /\ (rows' = rows => NoneHalved')
  BY DEF SingleInv, NoneHalved, RowsOf, CurrentRows
<1>3. CASE \/ (\E e \in Entries, c \in Choices : Decide(u, e, c)) \/ DecideGroup(u) \/ Cut(u)
           \/ (\E rule \in Rules : Preview(u, rule)) \/ Apply(u) \/ Lock(u) \/ Validate(u) \/ Build(u)
  <2>1. UNCHANGED <<rows, draft, held>>
    BY <1>3 DEF Decide, DecideGroup, Cut, Preview, Apply, Lock, Validate, Build, session, tables
  <2>2. pc[u] # "inserting"
    BY <1>3 DEF Decide, DecideGroup, Cut, Preview, Apply, Lock, Validate, Build, Begin, Free,
                SingleInv, InTheMiddle
  <2>3. ~Recording(u)' /\ \A v \in Users \ {u} : pc'[v] = pc[v] /\ todo'[v] = todo[v] /\ seen'[v] = seen[v]
    BY <1>1, <1>3 DEF Decide, DecideGroup, Cut, Preview, Apply, Lock, Validate, Build, Begin, Free,
                      Finish, UserShape, Recording, user
  <2>4. SingleInv'
    BY <2>1, <2>2, <2>3, SingleStays DEF Recording
  <2>5. QED BY <2>1, <2>4
<1>4. CASE ReadDecision(u)
  <2>1. UNCHANGED <<rows, draft, held>> /\ pc[u] = "next"
    BY <1>4 DEF ReadDecision, session, tables
  <2>2. CASE Finish(u)
    <3>1. pc'[u] = "idle" /\ \A v \in Users \ {u} : Untouched(v)
      BY <1>1, <2>2, Finished
    <3>2. SingleInv'
      BY <2>1, <3>1, SingleStays DEF Recording, Untouched
    <3>3. QED BY <2>1, <3>2
  <2>3. CASE ~Finish(u)
    <3>1. PICK t : t = Head(todo[u]).target
      OBVIOUS
    <3>2. PICK found : found = IF CurrentIn(Table(u), t) = {} THEN 0
                               ELSE (CHOOSE r \in CurrentIn(Table(u), t) : TRUE).id
      OBVIOUS
    <3>3. /\ pc' = [pc EXCEPT ![u] = "writing"] /\ seen' = [seen EXCEPT ![u] = found]
          /\ UNCHANGED <<todo, shown>>
      BY <1>4, <2>3, <3>1, <3>2 DEF ReadDecision
    <3>4. Table(u) = rows
      BY <2>1, Undisturbed DEF Table, MayWrite
    <3>5. found # 0 => RowsOf(t) # {}
      BY <3>2, <3>4 DEF CurrentIn, RowsOf
    <3>6. todo'[u] = todo[u] /\ seen'[u] = found /\ pc'[u] = "writing"
          /\ \A v \in Users \ {u} : Untouched(v)
      BY <1>1, <3>3 DEF UserShape, Untouched
    <3>7. FoundOne(u)'
      BY <2>1, <3>1, <3>5, <3>6 DEF FoundOne, RowsOf
    <3>8. SingleInv'
      BY <2>1, <3>6, <3>7, SingleStays DEF Recording, Untouched
    <3>9. QED BY <2>1, <3>8
  <2>4. QED BY <2>2, <2>3
<1>5. CASE (\E e \in Entries : Override(u, e)) \/ Export(u) \/ (Seal(u) /\ Commit(draft))
  <2>1. MayWrite(u) /\ pc[u] # "inserting" /\ Commit(draft)
    BY <1>5 DEF Override, Export, Seal, Begin, Free
  <2>2. draft = rows /\ \A v \in Users : pc[v] # "inserting"
    BY <2>1, Undisturbed
  <2>3. rows' = rows /\ draft' = rows'
    BY <2>1, <2>2 DEF Commit
  <2>4. ~Recording(u)' /\ \A v \in Users \ {u} : pc'[v] = pc[v] /\ todo'[v] = todo[v] /\ seen'[v] = seen[v]
    BY <1>1, <1>5 DEF Override, Export, Seal, Begin, Finish, UserShape, Recording
  <2>5. SingleInv'
    BY <1>2, <2>2, <2>3, <2>4, SingleCommits DEF Recording
  <2>6. QED BY <2>3, <2>5
<1>6. CASE (Seal(u) \/ Retire(u)) /\ LeaveOpen(u) /\ Finish(u)
  <2>1. UNCHANGED <<rows, draft>> /\ (held => held') /\ pc[u] # "inserting"
    BY <1>6 DEF Seal, Retire, LeaveOpen
  <2>2. pc'[u] = "idle" /\ \A v \in Users \ {u} : Untouched(v)
    BY <1>1, <1>6, Finished
  <2>3. SingleInv'
    BY <2>1, <2>2, SingleStays DEF Recording, Untouched
  <2>4. QED BY <2>1, <2>3
<1>7. CASE /\ u \in Threads /\ pc[u] = "writing" /\ seen[u] # 0
           /\ draft' = Retired(draft, Head(todo[u]).target, seen[u]) /\ held' = TRUE /\ UNCHANGED rows
           /\ pc' = [pc EXCEPT ![u] = "inserting"] /\ UNCHANGED <<todo, seen, shown>>
  <2>1. draft = rows /\ \A v \in Users : pc[v] # "inserting"
    BY <1>7, Undisturbed DEF MayWrite
  <2>2. /\ pc'[u] = "inserting" /\ todo'[u] = todo[u] /\ seen'[u] = seen[u]
        /\ \A v \in Users \ {u} : Untouched(v)
    BY <1>1, <1>7 DEF UserShape, Untouched
  <2>3. InTheMiddle(u)'
    BY <1>7, <2>1, <2>2 DEF InTheMiddle
  <2>4. \A v \in Users : Recording(v)' => Recording(v) /\ todo'[v] = todo[v] /\ seen'[v] = seen[v]
    BY <1>7, <2>2 DEF Recording, Untouched
  <2>5. \A v \in Users : Recording(v)' => FoundOne(v)'
    BY <1>7, <2>4 DEF SingleInv, FoundOne, RowsOf
  <2>6. \A v \in Users : pc'[v] = "inserting" => v = u
    BY <2>1, <2>2 DEF Untouched
  <2>7. SingleInv'
    BY <1>2, <1>7, <2>2, <2>3, <2>5, <2>6 DEF SingleInv
  <2>8. QED BY <1>7, <2>7
<1>8. Seal(u) => (Seal(u) /\ Commit(draft)) \/ (LeaveOpen(u) /\ Finish(u))
  BY DEF Seal
<1>9. Retire(u) =>
        \/ LeaveOpen(u) /\ Finish(u)
        \/ /\ u \in Threads /\ pc[u] = "writing" /\ seen[u] # 0
           /\ draft' = Retired(draft, Head(todo[u]).target, seen[u]) /\ held' = TRUE /\ UNCHANGED rows
           /\ pc' = [pc EXCEPT ![u] = "inserting"] /\ UNCHANGED <<todo, seen, shown>>
  BY DEF Retire
<1>10. QED BY <1>3, <1>4, <1>5, <1>6, <1>7, <1>8, <1>9 DEF User

LEMMA SingleStep ==
    ASSUME OneThread, ReviewInv, SingleInv, [Next]_vars
    PROVE  SingleInv'
<1>1. CASE Worker \/ DashboardEnds \/ \E t \in Threads : Poll(t)
  BY <1>1, SingleOthers
<1>2. ASSUME NEW u \in Users, User(u) PROVE SingleInv'
  BY <1>2, SingleUser, SingleRecorded
<1>3. CASE UNCHANGED vars
  <2>1. UNCHANGED <<rows, draft, held, pc, todo, seen>>
    BY <1>3 DEF vars, session, tables, user
  <2>2. QED BY <2>1, SingleStays DEF Recording
<1>4. QED BY <1>1, <1>2, <1>3 DEF Next

LEMMA SingleInit == Init => SingleInv
BY DEF Init, SingleInv, NoneHalved, RowsOf, RowsIn, Recording

THEOREM SingleCorrect == ASSUME OneThread PROVE Spec => []SingleInv
<1>1. ReviewInv /\ SingleInv /\ [Next]_vars => SingleInv'
  BY SingleStep
<1>2. QED BY <1>1, SingleInit, ReviewCorrect, PTL DEF Spec

\* Where the dashboard works on one request at a time, a decision replaces nothing its
\* writer has not seen, whichever processes read and wrote in between: the unique index
\* refuses the second of two (decisions.py, record_decision).
THEOREM NothingIsOverwrittenUnseen == ASSUME OneThread PROVE Spec => NoBlindOverwrite
<1>1. ReviewInv /\ SingleInv /\ [Next]_vars =>
        [\A u \in Users : Writes(u) =>
           {r.id : r \in CurrentRows(Head(todo[u]).target)} =
             IF seen[u] = 0 THEN {} ELSE {seen[u]}]_vars
  <2>1. ASSUME ReviewInv, SingleInv, Next, NEW u \in Users, Writes(u)
        PROVE  {r.id : r \in CurrentRows(Head(todo[u]).target)} =
                 IF seen[u] = 0 THEN {} ELSE {seen[u]}
    <3>1. rows' # rows /\ (Insert(u) \/ WriteDecision(u))
      BY <2>1, OnlyWrites DEF Writes
    <3>2. Replaces(u)
      BY <2>1, <3>1, Recorded
    <3>3. QED BY <3>2 DEF Replaces
  <2>2. QED BY <2>1
<1>2. QED BY <1>1, ReviewCorrect, SingleCorrect, PTL DEF Spec, NoBlindOverwrite

\* There a request that fails takes back what it has written: a target that has rows
\* has a current one, whatever its requests came to.
THEOREM NothingIsHalved == ASSUME OneThread PROVE Spec => []DecidedStaysDecided
<1>1. SingleInv => DecidedStaysDecided
  BY DEF SingleInv, NoneHalved, DecidedStaysDecided
<1>2. QED BY <1>1, SingleCorrect, PTL

---------------------------------------------------------------------------
(* The keeper.                                                              *)

Spared(e) == \A r \in CurrentRows(e) : r.choice # "APPROVE_FOR_REVIEW"
ByHand(S) == \E r \in rows : r.target \in S /\ ~r.wizard

\* The wizard is at the approvals of its plan, past the keeper.
Approving(u) == AtWork(u) /\ Head(todo[u]).wizard /\ Head(todo[u]).choice = "APPROVE_FOR_REVIEW"

\* No decision is about an entry that is yet to be written, and none of the wizard's is
\* about a file that its scan did not see holding the content.
Scanned(t) == t = Group \/ t[2] \in 1..run
OfACopy(t) == \E n \in 1..run : t \in Copies(n)
Ahead(u) == \A i \in DOMAIN todo[u] : Scanned(todo[u][i].target)

\* Of the copies of each scan one is not approved, unless someone else decided; and the
\* one an apply keeps is such a one as soon as it goes on to approve the others.
KeeperInv ==
    /\ \A n \in 1..run : Copies(n) # {} =>
         ByHand(Copies(n)) \/ \E e \in Copies(n) : Spared(e)
    /\ \A u \in Users : Approving(u) =>
         LET k == shown[u].plan.keeper IN ByHand({k}) \/ Spared(k)
    /\ \A r \in rows : Scanned(r.target) /\ (r.wizard => OfACopy(r.target))
    /\ \A u \in Users : AtWork(u) => Ahead(u)

LEMMA ToldOf ==
    ASSUME TellsTheSame(rows, rows')
    PROVE  /\ \A e : Spared(e) => Spared(e)'
           /\ \A S : ByHand(S) => ByHand(S)'
<1>1. \A e : Spared(e) => Spared(e)'
  BY DEF TellsTheSame, Spared, CurrentRows, CurrentIn, RowsIn
<1>2. \A S : ByHand(S) => ByHand(S)'
  BY DEF TellsTheSame, ByHand
<1>3. QED BY <1>1, <1>2

\* Where the table tells the same and nobody comes to an approval.
LEMMA KeeperStays ==
    ASSUME ReviewInv, KeeperInv, Grows, InventoryShape', TellsTheSame(rows, rows'),
           \A u \in Users : AtWork(u)' =>
              \/ AtWork(u) /\ todo'[u] = todo[u] /\ shown'[u] = shown[u]
              \/ ~Approving(u)' /\ Ahead(u)'
    PROVE  KeeperInv'
<1>1. run \in Nat /\ run' \in Nat /\ 1..run \subseteq 1..run' /\ run' \in 1..MaxRuns /\ MaxRuns \in Nat
  BY ReviewAssumption DEF ReviewInv, InventoryShape, Grows
<1>2. \A t : Scanned(t) => Scanned(t)'
  BY <1>1 DEF Scanned
<1>9. \A t : OfACopy(t) => OfACopy(t)'
  BY <1>1 DEF OfACopy, Copies, Grows
<1>3. \A r \in rows' : Scanned(r.target)' /\ (r.wizard => OfACopy(r.target)')
  <2>1. SUFFICES ASSUME NEW q \in rows' PROVE Scanned(q.target)' /\ (q.wizard => OfACopy(q.target)')
    OBVIOUS
  <2>2. PICK r \in rows : q.target = r.target /\ q.wizard = r.wizard
    BY DEF TellsTheSame
  <2>3. Scanned(r.target) /\ (r.wizard => OfACopy(r.target))
    BY DEF KeeperInv
  <2>4. Scanned(q.target) /\ (q.wizard => OfACopy(q.target))
    BY <2>2, <2>3
  <2>5. QED BY <1>2, <1>9, <2>4 DEF Scanned, OfACopy, Copies
<1>4. ASSUME NEW n \in 1..run', Copies(n)' # {}
      PROVE  ByHand(Copies(n))' \/ \E e \in Copies(n)' : Spared(e)'
  <2>1. CASE n \in 1..run
    <3>1. Copies(n)' = Copies(n)
      BY <2>1 DEF Copies, Grows
    <3>2. ByHand(Copies(n)) \/ \E e \in Copies(n) : Spared(e)
      BY <1>4, <2>1, <3>1 DEF KeeperInv
    <3>3. CASE ByHand(Copies(n))
      <4>1. \E r \in rows' : r.target \in Copies(n) /\ ~r.wizard
        BY <3>3 DEF TellsTheSame, ByHand
      <4>2. QED BY <3>1, <4>1 DEF ByHand
    <3>4. QED BY <3>1, <3>2, <3>3, ToldOf
  <2>2. CASE n \notin 1..run
    <3>1. PICK e : e \in Copies(n)'
      BY <1>4
    <3>2. e[2] = n /\ e \in Entries
      <4>1. PICK f \in recorded'[n] : e = <<f, n>>
        BY <3>1 DEF Copies
      <4>2. n \in 1..MaxRuns /\ f \in Files
        BY <1>1, <4>1 DEF InventoryShape
      <4>3. QED BY <4>1, <4>2, EntryFacts
    <3>3. \A r \in rows' : r.target # e
      <4>1. \A r \in rows : r.target # e
        BY <2>2, <3>2, EntryFacts DEF KeeperInv, Scanned
      <4>2. QED BY <4>1 DEF TellsTheSame
    <3>4. Spared(e)'
      BY <3>3 DEF Spared, CurrentRows, CurrentIn, RowsIn
    <3>5. QED BY <3>1, <3>4
  <2>3. QED BY <2>1, <2>2
<1>5. ASSUME NEW u \in Users, Approving(u)'
      PROVE  ByHand({shown[u].plan.keeper})' \/ Spared(shown[u].plan.keeper)'
  <2> DEFINE k == shown[u].plan.keeper
  <2>1. AtWork(u) /\ todo'[u] = todo[u] /\ shown'[u] = shown[u]
    BY <1>5 DEF Approving
  <2>2. Approving(u)
    BY <1>5, <2>1 DEF Approving
  <2>3. ByHand({k}) \/ Spared(k)
    BY <2>2 DEF KeeperInv
  <2>4. shown'[u].plan.keeper = k
    BY <2>1
  <2> HIDE DEF k
  <2>5. CASE Spared(k)
    <3>1. \A r \in rows' : r.target = k /\ r.current => r.choice # "APPROVE_FOR_REVIEW"
      BY <2>5 DEF TellsTheSame, Spared, CurrentRows, CurrentIn, RowsIn
    <3>2. QED BY <2>4, <3>1 DEF Spared, CurrentRows, CurrentIn, RowsIn
  <2>6. CASE ByHand({k})
    <3>1. \E r \in rows' : r.target \in {k} /\ ~r.wizard
      BY <2>6 DEF TellsTheSame, ByHand
    <3>2. QED BY <2>4, <3>1 DEF ByHand
  <2>7. QED BY <2>3, <2>5, <2>6
<1>6. ASSUME NEW u \in Users, AtWork(u)' PROVE Ahead(u)'
  <2>1. CASE AtWork(u) /\ todo'[u] = todo[u]
    <3>1. Ahead(u)
      BY <2>1 DEF KeeperInv
    <3>2. QED BY <1>2, <2>1, <3>1 DEF Ahead, Scanned
  <2>2. QED BY <1>6, <2>1
<1>7. QED BY <1>3, <1>4, <1>5, <1>6 DEF KeeperInv

\* What a recorded decision leaves of the targets it is not about, and of its own.
LEMMA Leaves ==
    ASSUME NEW u \in Users, Replaces(u), NEW d \in Decisions, d = Head(todo[u])
    PROVE  /\ \A e \in Targets : e # d.target /\ Spared(e) => Spared(e)'
           /\ d.choice = "MARK_KEEP" => Spared(d.target)'
           /\ \E r \in rows' : r.target = d.target /\ r.wizard = d.wizard
           /\ \A S : ByHand(S) => ByHand(S)'
           /\ \A q \in rows' : \/ q.target = d.target /\ q.wizard = d.wizard
                               \/ \E r \in rows : q.target = r.target /\ q.wizard = r.wizard
<1>1. /\ \A t \in Targets : t # d.target => RowsOf(t)' = RowsOf(t)
      /\ \A r \in CurrentIn(rows', d.target) : r.choice = d.choice
      /\ \E r \in rows' : r.target = d.target /\ r.wizard = d.wizard
      /\ Covers(rows', rows)
      /\ \A q \in rows' : (q.target = d.target /\ q.wizard = d.wizard) \/ Covers(rows, {q})
  BY DEF Replaces
<1>2. \A e \in Targets : e # d.target /\ Spared(e) => Spared(e)'
  BY <1>1 DEF Spared, CurrentRows, CurrentIn, RowsOf
<1>3. d.choice = "MARK_KEEP" => Spared(d.target)'
  BY <1>1 DEF Spared, CurrentRows
<1>4. ASSUME NEW S, ByHand(S) PROVE ByHand(S)'
  <2>1. PICK r \in rows : r.target \in S /\ ~r.wizard
    BY <1>4 DEF ByHand
  <2>2. PICK q \in rows' : q.target = r.target /\ q.wizard = r.wizard
    BY <1>1 DEF Covers
  <2>3. QED BY <2>1, <2>2 DEF ByHand
<1>5. \A q : Covers(rows, {q}) => \E r \in rows : q.target = r.target /\ q.wizard = r.wizard
  BY DEF Covers
<1>6. QED BY <1>1, <1>2, <1>3, <1>4, <1>5

\* What a wizard writes is the keeper, or an approval of a copy of the same scan.
LEMMA WizardHead ==
    ASSUME ReviewInv, NEW u \in Users, AtWork(u), Head(todo[u]).wizard
    PROVE  LET d == Head(todo[u])
               k == shown[u].plan.keeper
           IN  /\ u \in Threads
               /\ \E n \in 1..run : k \in Copies(n) /\ d.target \in Copies(n)
               /\ k \in Entries
               /\ \/ d.choice = "MARK_KEEP" /\ d.target = k
                  \/ d.choice = "APPROVE_FOR_REVIEW" /\ d.target # k
<1> DEFINE d == Head(todo[u])
           plan == shown[u].plan
<1>1. UserInv(u) /\ todo[u] \in Seq(Decisions)
  BY DEF ReviewInv, UserShape
<1>2. todo[u] # <<>>
  BY <1>1 DEF UserInv
<1>3. d = todo[u][1] /\ 1 \in DOMAIN todo[u]
  BY <1>1, <1>2, HeadFirst
<1>4. u \in Threads /\ AsShown(d, TRUE, plan) /\ PageInv(u)
  BY <1>1, <1>3 DEF UserInv, AsShown
<1>5. WholePlan(plan)
  BY <1>4 DEF AsShown, PageInv
<1> HIDE DEF d, plan
<1>6. PICK n \in 1..run : plan.keeper \in Copies(n) /\ plan.approve = Copies(n) \ {plan.keeper}
  BY <1>5 DEF WholePlan
<1>7. \/ d.choice = "MARK_KEEP" /\ d.target = plan.keeper
      \/ d.choice = "APPROVE_FOR_REVIEW" /\ d.target \in Copies(n) /\ d.target # plan.keeper
  BY <1>4, <1>6 DEF AsShown
<1>8. plan.keeper \in Entries
  <2>1. InventoryShape /\ n \in 1..MaxRuns
    BY <1>6, ReviewAssumption DEF ReviewInv, InventoryShape
  <2>2. QED BY <1>6, <2>1, CopyFacts
<1>9. QED BY <1>4, <1>6, <1>7, <1>8 DEF d, plan

\* A recorded decision leaves each scan a copy that is not approved.
LEMMA KeeperWritten ==
    ASSUME OneThread, ReviewInv, KeeperInv, NEW u \in Users, AtWork(u),
           UNCHANGED <<run, recorded>>, NEW d, d = Head(todo[u]), d \in Decisions,
           Replaces(u),
           NEW n \in 1..run, Copies(n) # {}
    PROVE  ByHand(Copies(n))' \/ \E e \in Copies(n) : Spared(e)'
<1>1. Copies(n)' = Copies(n) /\ Copies(n) \subseteq Entries /\ \A e \in Copies(n) : e[2] = n
  <2>1. InventoryShape /\ n \in 1..MaxRuns
    BY ReviewAssumption DEF ReviewInv, InventoryShape
  <2>2. QED BY <2>1, CopyFacts DEF Copies
<1>2. CASE ByHand(Copies(n))
  <2>1. PICK S : S = Copies(n)
    OBVIOUS
  <2>2. ByHand(S)'
    BY <1>2, <2>1, Leaves
  <2>3. QED BY <1>1, <2>1, <2>2 DEF ByHand
<1>3. CASE d.target \in Copies(n) /\ ~d.wizard
  BY <1>1, <1>3, Leaves DEF ByHand
<1>4. CASE ~ByHand(Copies(n)) /\ d.target \notin Copies(n)
  <2>1. PICK e \in Copies(n) : Spared(e)
    BY <1>4 DEF KeeperInv
  <2>2. e \in Targets /\ e # d.target
    BY <1>1, <1>4, <2>1 DEF Targets
  <2>3. QED BY <2>1, <2>2, Leaves
<1>5. CASE ~ByHand(Copies(n)) /\ d.target \in Copies(n) /\ d.wizard
  <2>0. PICK k : k = shown[u].plan.keeper
    OBVIOUS
  <2>1. AtWork(u) /\ Head(todo[u]).wizard
    BY <1>5
  <2>2. /\ \E m \in 1..run : k \in Copies(m) /\ d.target \in Copies(m)
        /\ k \in Entries
        /\ \/ d.choice = "MARK_KEEP" /\ d.target = k
           \/ d.choice = "APPROVE_FOR_REVIEW" /\ d.target # k
    BY <2>0, <2>1, WizardHead
  <2>3. Approving(u) => ByHand({k}) \/ Spared(k)
    BY <2>0 DEF KeeperInv
  <2>4. CASE d.choice = "MARK_KEEP"
    <3>1. Spared(d.target)'
      BY <2>4, Leaves
    <3>2. QED BY <1>5, <3>1
  <2>5. CASE d.choice = "APPROVE_FOR_REVIEW" /\ d.target # k
    <3>1. k \in Copies(n)
      <4>1. PICK m \in 1..run : k \in Copies(m) /\ d.target \in Copies(m)
        BY <2>2
      <4>2. \A e \in Copies(m) : e[2] = m
        BY DEF Copies
      <4>3. m = n
        BY <1>1, <1>5, <4>1, <4>2
      <4>4. QED BY <4>1, <4>3
    <3>2. Approving(u)
      BY <2>1, <2>5 DEF Approving
    <3>3. ~ByHand({k})
      BY <1>5, <3>1 DEF ByHand
    <3>4. Spared(k)
      BY <2>3, <3>2, <3>3
    <3>5. k \in Targets
      BY <2>2 DEF Targets
    <3>6. Spared(k)'
      BY <2>5, <3>4, <3>5, Leaves
    <3>7. QED BY <3>1, <3>6
  <2>6. QED BY <2>2, <2>4, <2>5
<1>6. QED BY <1>2, <1>3, <1>4, <1>5

\* Nor does it take the keeper of a plan that is being approved.
LEMMA PlannedKeeperWritten ==
    ASSUME OneThread, ReviewInv, KeeperInv, NEW u \in Users, AtWork(u),
           NEW d, d = Head(todo[u]), d \in Decisions,
           Replaces(u),
           NEW v \in Users, Approving(v) \/ (v = u /\ d.wizard)
    PROVE  LET k == shown[v].plan.keeper
           IN  (\E r \in rows' : r.target = k /\ ~r.wizard)
               \/ \A r \in rows' : r.target = k /\ r.current => r.choice # "APPROVE_FOR_REVIEW"
<1>1. PICK k : k = shown[v].plan.keeper
  OBVIOUS
<1>2. AtWork(v) /\ Head(todo[v]).wizard
  BY DEF Approving, AtWork
<1>3. v \in Threads /\ k \in Targets
  BY <1>1, <1>2, WizardHead DEF Targets
<1>4. (\E r \in rows' : r.target = k /\ ~r.wizard) \/ Spared(k)'
  <2>1. CASE ByHand({k})
    <3>1. ByHand({k})'
      BY <2>1, Leaves
    <3>2. QED BY <3>1 DEF ByHand
  <2>2. CASE d.target = k /\ ~d.wizard
    BY <2>2, Leaves
  <2>3. CASE d.target = k /\ d.wizard
    <3>1. u \in Threads
      BY <2>3, WizardHead
    <3>2. v = u
      BY <1>3, <3>1 DEF OneThread
    <3>3. d.choice = "MARK_KEEP"
      BY <1>1, <1>2, <2>3, <3>2, WizardHead
    <3>4. QED BY <2>3, <3>3, Leaves
  <2>4. CASE d.target # k /\ ~ByHand({k})
    <3>1. Approving(v)
      <4>1. CASE v = u /\ d.wizard
        <5>1. d.choice = "APPROVE_FOR_REVIEW"
          BY <1>1, <1>2, <2>4, <4>1, WizardHead
        <5>2. QED BY <1>2, <4>1, <5>1 DEF Approving
      <4>2. QED BY <4>1
    <3>2. Spared(k)
      BY <1>1, <2>4, <3>1 DEF KeeperInv
    <3>3. QED BY <1>3, <2>4, <3>2, Leaves
  <2>5. QED BY <2>1, <2>2, <2>3, <2>4
<1>5. QED BY <1>1, <1>4 DEF Spared, CurrentRows, CurrentIn, RowsIn

LEMMA KeeperWrite ==
    ASSUME OneThread, ReviewInv, SingleInv, KeeperInv, NEW u \in Users, Insert(u) \/ WriteDecision(u)
    PROVE  KeeperInv'
<1>1. PICK d : d = Head(todo[u])
  OBVIOUS
<1>2. /\ AtWork(u) /\ d \in Decisions /\ todo[u] # <<>> /\ UNCHANGED <<run, recorded>>
      /\ \/ rows' = rows /\ Finish(u)
         \/ Replaces(u) /\ Proceed(u)
  <2>1. Recording(u) /\ ((rows' = rows /\ Finish(u)) \/ (Replaces(u) /\ Proceed(u)))
    BY Recorded
  <2>2. AtWork(u)
    BY <2>1 DEF Recording, AtWork
  <2>3. UNCHANGED <<run, recorded>>
    BY DEF Insert, WriteDecision, inventory
  <2>4. QED BY <1>1, <2>1, <2>2, <2>3, ToDo
<1>3. UserShape /\ UserInv(u) /\ InventoryShape
  BY DEF ReviewInv
<1>4. Grows /\ InventoryShape'
  BY <1>2, <1>3, SameRuns
<1>5. CASE rows' = rows /\ Finish(u)
  <2>1. TellsTheSame(rows, rows')
    BY <1>5 DEF TellsTheSame
  <2>2. \A v \in Users : AtWork(v)' =>
              \/ AtWork(v) /\ todo'[v] = todo[v] /\ shown'[v] = shown[v]
              \/ ~Approving(v)' /\ Ahead(v)'
    BY <1>3, <1>5, Finished DEF AtWork, Untouched
  <2>3. QED BY <1>4, <2>1, <2>2, KeeperStays
<1>6. CASE Replaces(u) /\ Proceed(u)
  <2>1. /\ \E r \in rows' : r.target = d.target /\ r.wizard = d.wizard
        /\ \A q \in rows' : \/ q.target = d.target /\ q.wizard = d.wizard
                            \/ \E r \in rows : q.target = r.target /\ q.wizard = r.wizard
    BY <1>1, <1>2, <1>6, Leaves
  <2>2. ASSUME NEW n \in 1..run', Copies(n)' # {}
        PROVE  ByHand(Copies(n))' \/ \E e \in Copies(n)' : Spared(e)'
    <3>1. Copies(n)' = Copies(n) /\ n \in 1..run
      BY <1>2, <2>2 DEF Copies
    <3>2. Copies(n) # {}
      BY <2>2, <3>1
    <3>3. ByHand(Copies(n))' \/ \E e \in Copies(n) : Spared(e)'
      BY <1>1, <1>2, <1>6, <3>1, <3>2, KeeperWritten
    <3>4. QED BY <3>1, <3>3
  <2>3. 1 \in DOMAIN todo[u] /\ d = todo[u][1]
        /\ \A i \in DOMAIN Tail(todo[u]) : i + 1 \in DOMAIN todo[u] /\ Tail(todo[u])[i] = todo[u][i + 1]
    BY <1>1, <1>2, <1>3, HeadFirst DEF UserShape
  <2>4. Scanned(d.target) /\ Ahead(u)
    <3>1. Ahead(u)
      BY <1>2 DEF KeeperInv, AtWork
    <3>2. QED BY <2>3, <3>1 DEF Ahead
  <2>5. \A r \in rows' : Scanned(r.target)' /\ (r.wizard => OfACopy(r.target)')
    <3>1. d.wizard => OfACopy(d.target)
      BY <1>1, <1>2, WizardHead DEF OfACopy
    <3>2. ASSUME NEW q \in rows' PROVE Scanned(q.target) /\ (q.wizard => OfACopy(q.target))
      <4>1. CASE q.target = d.target /\ q.wizard = d.wizard
        BY <2>4, <3>1, <4>1
      <4>2. CASE \E r \in rows : q.target = r.target /\ q.wizard = r.wizard
        BY <4>2 DEF KeeperInv
      <4>3. QED BY <2>1, <4>1, <4>2
    <3>3. QED BY <1>2, <3>2 DEF Scanned, OfACopy, Copies
  <2>6. \A v \in Users \ {u} : Untouched(v)
    <3>1. CASE Finish(u)
      BY <1>3, <3>1, Finished
    <3>2. QED BY <1>2, <1>6, Proceeded
  <2>7. AtWork(u)' => /\ todo'[u] = Tail(todo[u]) /\ shown'[u] = shown[u] /\ Tail(todo[u]) # <<>>
    <3>1. CASE Finish(u)
      BY <1>3, <3>1, Finished DEF AtWork
    <3>2. QED BY <1>3, <1>6, <3>1 DEF UserShape, Proceed
  <2>8. ASSUME NEW v \in Users, AtWork(v)' PROVE Ahead(v)'
    <3>1. CASE v = u
      <4>1. \A i \in DOMAIN Tail(todo[u]) : Scanned(Tail(todo[u])[i].target)
        BY <2>3, <2>4 DEF Ahead
      <4>2. QED BY <1>2, <2>7, <2>8, <3>1, <4>1 DEF Ahead, Scanned
    <3>2. CASE v # u
      <4>1. AtWork(v) /\ todo'[v] = todo[v]
        BY <2>6, <2>8, <3>2 DEF Untouched, AtWork
      <4>2. Ahead(v)
        BY <4>1 DEF KeeperInv
      <4>3. QED BY <1>2, <4>1, <4>2 DEF Ahead, Scanned
    <3>3. QED BY <3>1, <3>2
  <2>9. ASSUME NEW v \in Users, Approving(v)'
        PROVE  ByHand({shown[v].plan.keeper})' \/ Spared(shown[v].plan.keeper)'
    <3>1. Approving(v) \/ (v = u /\ d.wizard)
      <4>1. CASE v = u
        <5>1. AtWork(u)' /\ Head(todo'[u]).wizard
          BY <2>9, <4>1 DEF Approving
        <5>2. todo'[u] = Tail(todo[u]) /\ Tail(todo[u]) # <<>> /\ Tail(todo[u]) \in Seq(Decisions)
          BY <1>2, <1>3, <2>7, <5>1, HeadFirst DEF UserShape
        <5>3. Head(Tail(todo[u])) = Tail(todo[u])[1] /\ 1 \in DOMAIN Tail(todo[u])
          BY <5>2, HeadFirst
        <5>4. todo[u][2].wizard /\ 2 \in DOMAIN todo[u]
          BY <2>3, <5>1, <5>2, <5>3
        <5>5. \A i \in DOMAIN todo[u] : todo[u][i].wizard = todo[u][1].wizard
          BY <1>2, <1>3 DEF UserInv, AtWork
        <5>6. QED BY <2>3, <4>1, <5>4, <5>5
      <4>2. CASE v # u
        BY <2>6, <2>9, <4>2 DEF Untouched, Approving, AtWork
      <4>3. QED BY <4>1, <4>2
    <3>2. PICK k : k = shown[v].plan.keeper
      OBVIOUS
    <3>3. shown'[v].plan.keeper = k
      <4>1. shown'[v] = shown[v]
        BY <2>6, <2>7, <2>9 DEF Untouched, Approving
      <4>2. QED BY <3>2, <4>1
    <3>4. (\E r \in rows' : r.target = k /\ ~r.wizard)
          \/ \A r \in rows' : r.target = k /\ r.current => r.choice # "APPROVE_FOR_REVIEW"
      BY <1>1, <1>2, <1>6, <3>1, <3>2, PlannedKeeperWritten
    <3>5. QED BY <3>3, <3>4 DEF ByHand, Spared, CurrentRows, CurrentIn, RowsIn
  <2>10. QED BY <2>2, <2>5, <2>8, <2>9 DEF KeeperInv
<1>7. QED BY <1>2, <1>5, <1>6

\* The steps of the worker and the polls, and the end of the dashboard.
LEMMA KeeperWorker ==
    ASSUME OneThread, ReviewInv, SingleInv, KeeperInv,
           Worker \/ DashboardEnds \/ \E t \in Threads : Poll(t)
    PROVE  KeeperInv'
<1>1. Grows /\ InventoryShape'
  <2>1. ReviewInv' /\ Grows
    BY EveryStep DEF Next
  <2>2. QED BY <2>1 DEF ReviewInv
<1>2. TellsTheSame(rows, rows')
  BY SingleOthers
<1>3. \A u \in Users : AtWork(u)' => AtWork(u) /\ todo'[u] = todo[u] /\ shown'[u] = shown[u]
  <2>1. CASE Worker \/ \E t \in Threads : Poll(t)
    <3>1. UNCHANGED <<pc, todo, shown>>
      BY <2>1 DEF Worker, Rescan, GroupingBegins, GroupingEnds, ClassifyBegins, ClassifyBatch, Poll, user
    <3>2. QED BY <3>1 DEF AtWork
  <2>2. CASE DashboardEnds
    BY <2>2 DEF DashboardEnds, AtWork
  <2>3. QED BY <2>1, <2>2
<1>4. QED BY <1>1, <1>2, <1>3, KeeperStays

\* The steps of a user that write no decision.
LEMMA KeeperUser ==
    ASSUME OneThread, ReviewInv, SingleInv, KeeperInv, NEW u \in Users, User(u),
           ~Insert(u), ~WriteDecision(u)
    PROVE  KeeperInv'
<1>1. Grows /\ InventoryShape'
  <2>1. ReviewInv' /\ Grows
    BY EveryStep DEF Next
  <2>2. QED BY <2>1 DEF ReviewInv
<1>2. UNCHANGED <<run, recorded>>
  BY DEF User, Decide, Override, DecideGroup, ReadDecision, Retire, Cut, Preview, Apply, Lock, Validate,
         Build, Seal, Export, inventory
<1>3. TellsTheSame(rows, rows')
  BY SingleUser DEF TellsTheSame
<1>4. UserShape /\ run \in Nat /\ run \in 1..run
  BY ReviewAssumption DEF ReviewInv, InventoryShape
<1> DEFINE Fits(v) == AtWork(v)' =>
               \/ AtWork(v) /\ todo'[v] = todo[v] /\ shown'[v] = shown[v]
               \/ ~Approving(v)' /\ Ahead(v)'
<1>5. ASSUME NEW d \in Decisions, ~d.wizard, Scanned(d.target), Begin(u, <<d>>), shown' = shown
      PROVE  \A v \in Users : Fits(v)
  <2>1. todo'[u] = <<d>>
    BY <1>4, <1>5 DEF UserShape, Begin
  <2>2. \A v \in Users : v # u => pc'[v] = pc[v] /\ todo'[v] = todo[v]
    BY <1>4, <1>5 DEF UserShape, Begin
  <2>3. Head(todo'[u]) = d /\ \A i \in DOMAIN todo'[u] : todo'[u][i] = d
    BY <2>1
  <2>4. ~Approving(u)'
    BY <1>5, <2>3 DEF Approving
  <2>5. Ahead(u)'
    BY <1>2, <1>5, <2>3 DEF Ahead, Scanned
  <2>6. QED BY <1>5, <2>2, <2>4, <2>5 DEF AtWork
<1>6. ASSUME NEW e \in Entries, (\E c \in Choices : Decide(u, e, c)) \/ Override(u, e)
      PROVE  \A v \in Users : Fits(v)
  <2>1. CASE \E c \in Choices : Decide(u, e, c)
    <3>1. PICK c \in Choices : Decide(u, e, c)
      BY <2>1
    <3>2. /\ Decision(e, c) \in Decisions /\ ~Decision(e, c).wizard /\ Decision(e, c).target = e
          /\ Begin(u, <<Decision(e, c)>>) /\ shown' = shown /\ e[2] <= run
      BY <3>1 DEF Decide, Decision, Decisions, Targets
    <3>3. e[2] \in 1..run
      BY <1>4, <3>2, EntryFacts, ReviewAssumption
    <3>4. QED BY <1>4, <1>5, <3>2, <3>3 DEF Scanned
  <2>2. CASE Override(u, e)
    <3>1. /\ Decision(Group, "OF_GROUP") \in Decisions /\ ~Decision(Group, "OF_GROUP").wizard
          /\ Scanned(Decision(Group, "OF_GROUP").target)
          /\ Begin(u, <<Decision(Group, "OF_GROUP")>>) /\ shown' = shown
      BY <2>2 DEF Override, Decision, Decisions, Targets, Choices, Scanned
    <3>2. QED BY <1>5, <3>1
  <2>3. QED BY <1>6, <2>1, <2>2
<1>7. ASSUME DecideGroup(u)
      PROVE  \A v \in Users : Fits(v)
  <2>1. /\ Decision(Group, "OF_GROUP") \in Decisions /\ ~Decision(Group, "OF_GROUP").wizard
        /\ Scanned(Decision(Group, "OF_GROUP").target)
        /\ Begin(u, <<Decision(Group, "OF_GROUP")>>) /\ shown' = shown
    BY <1>7 DEF DecideGroup, Decision, Decisions, Targets, Choices, Scanned
  <2>2. QED BY <1>5, <2>1
<1>8. ASSUME Finish(u) PROVE \A v \in Users : Fits(v)
  BY <1>4, <1>8, Finished DEF Untouched, AtWork
<1>9. ASSUME ReadDecision(u) \/ Retire(u) \/ Cut(u) \/ Seal(u) \/ Export(u)
      PROVE  \A v \in Users : Fits(v)
  <2>1. CASE Finish(u)
    BY <1>8, <2>1
  <2>2. CASE ~Finish(u)
    <3>1. /\ UNCHANGED <<todo, shown>>
          /\ \/ pc[u] = "next" /\ pc' = [pc EXCEPT ![u] = "writing"]
             \/ pc[u] = "writing" /\ pc' = [pc EXCEPT ![u] = "inserting"]
             \/ pc' = [pc EXCEPT ![u] = "sealed"]
      BY <1>9, <2>2 DEF ReadDecision, Retire, Cut, Seal, Export
    <3>2. QED BY <1>4, <3>1 DEF UserShape, AtWork
  <2>3. QED BY <2>1, <2>2
<1>10. ASSUME (\E rule \in Rules : Preview(u, rule)) \/ Lock(u) \/ Validate(u) \/ Build(u)
      PROVE  \A v \in Users : Fits(v)
  <2>1. /\ todo' = todo /\ \A v \in Users \ {u} : shown'[v] = shown[v] /\ pc'[v] = pc[v]
        /\ \/ UNCHANGED <<pc, shown>>
           \/ pc'[u] \in {"shown", "validated", "built"}
    BY <1>4, <1>10 DEF Preview, Lock, Validate, Build, UserShape, user
  <2>2. QED BY <2>1 DEF AtWork
<1>11. ASSUME Apply(u)
      PROVE  \A v \in Users : Fits(v)
  <2>1. CASE Finish(u)
    BY <1>8, <2>1
  <2>2. CASE ~Finish(u)
    <3>1. PICK now : now = Plan(shown[u].rule)
      OBVIOUS
    <3>2. /\ shown[u].plan = now /\ ~now.skipped /\ pc[u] = "shown"
          /\ todo' = [todo EXCEPT ![u] = InOrder(now)]
          /\ pc' = [pc EXCEPT ![u] = "next"]
          /\ UNCHANGED <<seen, shown>>
      BY <1>11, <2>2, <3>1 DEF Apply, Matches, Whole
    <3>3. now \in Plans /\ WholePlan(now)
      <4>1. shown[u].plan \in Plans /\ (~shown[u].plan.skipped => WholePlan(shown[u].plan))
        BY <1>4 DEF UserShape, ReviewInv, UserInv, PageInv
      <4>2. QED BY <3>2, <4>1
    <3>4. PICK n \in 1..run : now.keeper \in Copies(n) /\ now.approve = Copies(n) \ {now.keeper}
      BY <3>3 DEF WholePlan
    <3>5. Copies(n) \subseteq Entries /\ \A e \in Copies(n) : e[2] \in 1..run
      <4>1. InventoryShape /\ n \in 1..MaxRuns
        BY ReviewAssumption DEF ReviewInv, InventoryShape
      <4>2. QED BY <4>1, CopyFacts
    <3>6. now.keeper \in Entries
      BY <3>4, <3>5
    <3>7. /\ InOrder(now) \in Seq(Decisions) /\ InOrder(now) # <<>>
          /\ \A i \in DOMAIN InOrder(now) :
               /\ i = 1 => InOrder(now)[i].choice = "MARK_KEEP" /\ InOrder(now)[i].target = now.keeper
               /\ i # 1 => InOrder(now)[i].target \in now.approve
      BY <3>3, <3>6, ShownInOrder
    <3>8. todo'[u] = InOrder(now) /\ \A v \in Users \ {u} :
             pc'[v] = pc[v] /\ todo'[v] = todo[v] /\ shown'[v] = shown[v]
      BY <1>4, <3>2, <3>7 DEF UserShape
    <3>9. ~Approving(u)'
      <4>1. Head(InOrder(now)) = InOrder(now)[1] /\ 1 \in DOMAIN InOrder(now)
        BY <3>7, HeadFirst
      <4>2. Head(todo'[u]).choice = "MARK_KEEP"
        BY <3>7, <3>8, <4>1
      <4>3. QED BY <4>2 DEF Approving
    <3>10. \A i \in DOMAIN InOrder(now) : InOrder(now)[i].target \in Copies(n)
      BY <3>4, <3>7
    <3>11. Ahead(u)'
      BY <1>2, <3>5, <3>8, <3>10 DEF Ahead, Scanned
    <3>12. QED BY <3>8, <3>9, <3>11 DEF AtWork
  <2>3. QED BY <2>1, <2>2
<1>12. \A v \in Users : Fits(v)
  BY <1>6, <1>7, <1>9, <1>10, <1>11 DEF User
<1>13. QED BY <1>1, <1>3, <1>12, KeeperStays

LEMMA KeeperStep ==
    ASSUME OneThread, ReviewInv, SingleInv, KeeperInv, [Next]_vars
    PROVE  KeeperInv'
<1>1. CASE Worker \/ DashboardEnds \/ \E t \in Threads : Poll(t)
  BY <1>1, KeeperWorker
<1>2. ASSUME NEW u \in Users, User(u) PROVE KeeperInv'
  BY <1>2, KeeperWrite, KeeperUser
<1>3. CASE UNCHANGED vars
  <2>1. UNCHANGED <<run, recorded, rows, pc, todo, shown>>
    BY <1>3 DEF vars, inventory, session, tables, user
  <2>2. Grows /\ InventoryShape'
    BY <2>1, SameRuns DEF ReviewInv
  <2>3. TellsTheSame(rows, rows')
    BY <2>1 DEF TellsTheSame
  <2>4. \A u \in Users : AtWork(u)' => AtWork(u) /\ todo'[u] = todo[u] /\ shown'[u] = shown[u]
    BY <2>1 DEF AtWork
  <2>5. QED BY <2>2, <2>3, <2>4, KeeperStays
<1>4. QED BY <1>1, <1>2, <1>3 DEF Next

LEMMA KeeperInit == Init => KeeperInv
<1>1. SUFFICES ASSUME Init PROVE KeeperInv
  OBVIOUS
<1>2. rows = {} /\ \A u \in Users : pc[u] = "idle"
  BY <1>1 DEF Init
<1>3. QED BY <1>2 DEF KeeperInv, Spared, CurrentRows, CurrentIn, RowsIn, Approving, AtWork

THEOREM KeeperCorrect == ASSUME OneThread PROVE Spec => []KeeperInv
<1>1. ReviewInv /\ SingleInv /\ KeeperInv /\ [Next]_vars => KeeperInv'
  BY KeeperStep
<1>2. QED BY <1>1, KeeperInit, ReviewCorrect, SingleCorrect, PTL DEF Spec

\* Where the dashboard works on one request at a time, the applies of the wizard alone
\* leave a member of the group that is not approved, whichever rules they follow and
\* wherever they are cut off (wizard.py, apply_rule: the keeper's decision is recorded
\* first).
THEOREM AKeeperIsLeft == ASSUME OneThread PROVE Spec => []WizardLeavesAKeeper
<1>1. ReviewInv /\ KeeperInv => WizardLeavesAKeeper
  <2>1. SUFFICES ASSUME ReviewInv, KeeperInv, members # {}, \A r \in rows : r.target \in members => r.wizard
                 PROVE  \E e \in members : \A r \in CurrentRows(e) : r.choice # "APPROVE_FOR_REVIEW"
    BY DEF WizardLeavesAKeeper
  <2>2. PICK n \in 1..run : members = Copies(n)
    BY <2>1 DEF ReviewInv, GroupInv
  <2>3. ~ByHand(Copies(n))
    BY <2>1, <2>2 DEF ByHand
  <2>4. QED BY <2>1, <2>2, <2>3 DEF KeeperInv, Spared
<1>2. QED BY <1>1, ReviewCorrect, KeeperCorrect, PTL

---------------------------------------------------------------------------
(* The manifest.                                                            *)

\* Of the files the scan of a manifest saw one is not in it; and no scan is taken back.
ManifestKept ==
    manifest.approved # {} /\ ~manifest.byHand =>
        /\ manifest.run \in 1..run
        /\ \E f \in recorded[manifest.run] : \A e \in manifest.approved : e[1] # f

\* An approval that only the wizard can have made is of a copy of the current run, of
\* which the wizard has spared one.
LEMMA BuiltKept ==
    ASSUME ReviewInv, KeeperInv, NEW u \in Users, Build(u)
    PROVE  ManifestKept'
<1>1. /\ manifest' = [approved |-> Approved, run |-> run,
                      forbidden |-> {e \in Approved : Forbids(e)}, byHand |-> DecidedByHand]
      /\ run' = run /\ recorded' = recorded
  BY DEF Build, inventory
<1>2. manifest'.approved = Approved /\ manifest'.run = run /\ manifest'.byHand = DecidedByHand
  BY <1>1
<1>3. InventoryShape /\ run \in 1..run /\ run \in 1..MaxRuns
  BY ReviewAssumption DEF ReviewInv, InventoryShape
<1>4. SUFFICES ASSUME Approved # {}, ~DecidedByHand
               PROVE  \E f \in recorded[run] : \A e \in Approved : e[1] # f
  BY <1>1, <1>2, <1>3 DEF ManifestKept
<1>5. \A c \in Copies(run) : c \in Current(Entries)
  BY <1>3, CopyFacts DEF Current
<1>6. ~ByHand(Copies(run))
  BY <1>4, <1>5 DEF ByHand, DecidedByHand
<1>7. Copies(run) # {}
  <2>1. PICK e \in Approved : TRUE
    BY <1>4
  <2>2. e \in Entries /\ e[2] = run /\ \E r \in rows : r.target = e
    BY DEF Approved, Listed, Current, CurrentRows, CurrentIn, RowsIn
  <2>3. PICK r \in rows : r.target = e
    BY <2>2
  <2>4. r.wizard
    BY <1>4, <2>2, <2>3 DEF DecidedByHand, Current
  <2>5. PICK n \in 1..run : e \in Copies(n)
    BY <2>3, <2>4 DEF KeeperInv, OfACopy
  <2>6. n \in 1..MaxRuns
    BY <1>3, <2>5, ReviewAssumption
  <2>7. e[2] = n
    BY <1>3, <2>2, <2>5, <2>6, CopyFacts
  <2>8. QED BY <2>2, <2>5, <2>7
<1>8. PICK c \in Copies(run) : Spared(c)
  BY <1>3, <1>6, <1>7 DEF KeeperInv
<1>9. PICK f \in recorded[run] : c = <<f, run>>
  BY <1>8 DEF Copies
<1>10. ASSUME NEW e \in Approved, e[1] = f PROVE FALSE
  <2>1. e \in Entries /\ e[2] = run /\ \E r \in CurrentRows(e) : r.choice = "APPROVE_FOR_REVIEW"
    BY DEF Approved, Listed, Current
  <2>2. e = c
    BY <1>9, <1>10, <2>1, EntryFacts
  <2>3. QED BY <1>8, <2>1, <2>2 DEF Spared
<1>11. QED BY <1>9, <1>10

\* The other steps leave a manifest and what its scan saw as they are.
LEMMA ManifestStays ==
    ASSUME ReviewInv, Grows, ManifestKept, manifest' \in {manifest, NoManifest}
    PROVE  ManifestKept'
<1>1. 1..run \subseteq 1..run' /\ \A n \in 1..run : recorded'[n] = recorded[n]
  BY ReviewAssumption DEF Grows, ReviewInv, InventoryShape
<1>2. CASE manifest' = manifest
  BY <1>1, <1>2 DEF ManifestKept
<1>3. CASE manifest' = NoManifest
  BY <1>3 DEF ManifestKept, NoManifest
<1>4. QED BY <1>2, <1>3

LEMMA ManifestStep ==
    ASSUME OneThread, ReviewInv, KeeperInv, ManifestKept, [Next]_vars
    PROVE  ManifestKept'
<1>1. CASE UNCHANGED vars
  <2>1. UNCHANGED <<run, recorded, manifest>>
    BY <1>1 DEF vars, inventory
  <2>2. QED BY <2>1 DEF ManifestKept
<1>2. CASE Next
  <2>1. Grows
    BY <1>2, EveryStep
  <2>2. ASSUME NEW u \in Users, User(u) PROVE Build(u) \/ manifest' \in {manifest, NoManifest}
    BY <2>2 DEF User, Decide, Override, DecideGroup, ReadDecision, Retire, Insert, WriteDecision, Cut,
                Preview, Apply, Lock, Validate, Seal, Export
  <2>3. ASSUME Worker \/ DashboardEnds \/ \E t \in Threads : Poll(t) PROVE manifest' = manifest
    BY <2>3 DEF Worker, Rescan, GroupingBegins, GroupingEnds, ClassifyBegins, ClassifyBatch,
                DashboardEnds, Poll
  <2>4. QED BY <1>2, <2>1, <2>2, <2>3, BuiltKept, ManifestStays DEF Next
<1>3. QED BY <1>1, <1>2

\* Where the dashboard works on one request at a time, a manifest of decisions that only
\* the wizard has made spares a file its scan saw (manifests.py, _manifest_rows and
\* build_review_manifest), whatever was approved at the runs before.
THEOREM ManifestsLeaveACopy == ASSUME OneThread PROVE Spec => []ManifestLeavesACopy
<1>1. Init => ManifestKept
  BY DEF Init, ManifestKept, NoManifest
<1>2. ReviewInv /\ KeeperInv /\ ManifestKept /\ [Next]_vars => ManifestKept'
  BY ManifestStep
<1>3. ManifestKept => ManifestLeavesACopy
  BY DEF ManifestKept, ManifestLeavesACopy
<1>4. QED BY <1>1, <1>2, <1>3, ReviewCorrect, KeeperCorrect, PTL DEF Spec
=============================================================================
