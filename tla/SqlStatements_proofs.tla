------------------------- MODULE SqlStatements_proofs -------------------------
(****************************************************************************)
(* Proofs about SqlStatements, for any sessions, tables, keys, scan limits  *)
(* and faults: types, deadlocks, what a statement has read, that the cache  *)
(* follows the store, that the store stays consistent, its counters ahead   *)
(* of the keys, and that no row is overwritten.                             *)
(****************************************************************************)
EXTENDS SqlStatements, FiniteSetTheorems, SequenceTheorems, TLAPS

------------------------------------------------------------------------------
(* The inductive invariant *)

\* An ALTER adds a version, so no version is above the number of statements.
MetasNow == {m \in Metas : m.version <= stmts}

\* What the planner has made sure of.
Planned(p) ==
  /\ p.op \in {"create", "alter", "rename", "insert"} => p.meta \in MetasNow
  /\ p.op = "alter" => p.meta.version < stmts /\ p.new.snow = p.meta.snow
  /\ p.op = "rename" => p.name # p.to /\ Db(p.to) = Db(p.name)
  /\ p.op = "drop_db" => \A n \in p.tables : Db(n) = p.db
  /\ p.op = "update" => DOMAIN p.set = p.keys

IsBatch(b) ==
  /\ b.newDbs \subseteq Dbs /\ b.puts \subseteq Names \X Keys
  /\ DOMAIN b.tabs \subseteq Names /\ \A n \in DOMAIN b.tabs : b.tabs[n] \in MetasNow \cup {None}
  /\ DOMAIN b.seqs \subseteq Names /\ \A n \in DOMAIN b.seqs : b.seqs[n] \in 0..MaxKey \cup {None}

TypeStore ==
  /\ kv.dbs \subseteq Dbs /\ kv.tabs \in [Names -> MetasNow \cup {None}]
  /\ kv.seqs \in [Names -> 0..MaxKey \cup {None}] /\ kv.rows \subseteq Names \X Keys
  /\ cache \in [dbs : SUBSET Dbs, tabs : [Names -> MetasNow \cup {None}]]
TypePlans ==
  /\ stmt \in [Sessions -> Plans \cup {None}]
  /\ \A s \in Sessions : stmt[s] # None => Planned(stmt[s])
TypeSteps ==
  /\ pc \in [Sessions -> {"idle", "locking", "checked", "writing", "applying"}]
  /\ \A s \in Sessions :
       /\ (pc[s] = "idle") <=> (stmt[s] = None)
       /\ pc[s] = "checked" => stmt[s].op = "insert"
       /\ pc[s] = "applying" => stmt[s].op \in Ddl
       /\ pc[s] # "idle" => booted
TypeBatches == (\A s \in Sessions : IsBatch(batch[s])) /\ \A b \in inflight : IsBatch(b)
TypeLocks == mu \in [Locks -> Sessions \cup {None}] /\ need \in [Sessions -> Seq(Locks)]
TypeRest ==
  /\ booted \in BOOLEAN /\ limit \in Nat /\ stmts \in 0..MaxStmts /\ faults \in 0..MaxFaults
  /\ batch = [s \in Sessions |-> batch[s]]
TypeInv == TypeStore /\ TypePlans /\ TypeSteps /\ TypeBatches /\ TypeLocks /\ TypeRest

\* The tables that a statement locks.
TableLocks(p) ==
  IF p.op \in {"create_db", "create"} THEN {}
  ELSE IF p.op = "drop_db" THEN p.tables
  ELSE IF p.op = "rename" THEN {p.name, p.to} ELSE {p.name}

\* A session has, or has yet to take, the locks of its plan: insertMu comes
\* before the tables and sequenceMu after them.
LocksOf(s) ==
  /\ pc[s] \in {"writing", "applying"} => need[s] = <<>>
  /\ \A i, j \in 1..Len(need[s]) : i # j => need[s][i] # need[s][j]
  /\ \A i \in 1..Len(need[s]) :
       /\ mu[need[s][i]] # s
       /\ need[s][i] = SequenceMu => i = Len(need[s]) /\ (stmt[s].op = "insert" => pc[s] = "checked")
       /\ need[s][i] = InsertMu => i = 1 /\ stmt[s].op = "insert" /\ pc[s] = "locking" /\ \A n \in Names : mu[n] # s
       /\ need[s][i] \in Names => need[s][i] \in TableLocks(stmt[s]) /\ pc[s] = "locking"
  /\ mu[InsertMu] = s => stmt[s].op = "insert"
  /\ mu[SequenceMu] = s => need[s] = <<>> /\ (stmt[s].op = "insert" => pc[s] # "locking")
  /\ \A n \in Names : mu[n] = s => n \in TableLocks(stmt[s])
  /\ \A n \in TableLocks(stmt[s]) : mu[n] = s \/ \E i \in 1..Len(need[s]) : need[s][i] = n
LocksHeld(s) == IF pc[s] = "idle" THEN need[s] = <<>> /\ \A l \in Locks : mu[l] # s ELSE LocksOf(s)
LocksKept == \A s \in Sessions : LocksHeld(s)

\* What the batch of a statement can be.
PlanTabs(p) ==
  IF p.op = "drop_db" THEN [n \in p.tables |-> None]
  ELSE IF p.op = "create" THEN One(p.name, p.meta)
  ELSE IF p.op = "drop" THEN One(p.name, None)
  ELSE IF p.op = "alter" THEN One(p.name, [p.new EXCEPT !.version = p.meta.version + 1])
  ELSE IF p.op = "rename" THEN Over(One(p.name, None), One(p.to, p.meta)) ELSE <<>>
PlanSeqs(p, q) ==
  /\ p.op \in {"create_db", "alter", "update", "delete"} => q = <<>>
  /\ p.op = "drop_db" => q = [n \in p.tables |-> None]
  /\ p.op = "create" => q = IF p.meta.snow THEN One(p.name, 0) ELSE <<>>
  /\ p.op = "drop" => q = One(p.name, None)
  /\ p.op = "rename" => p.name \in DOMAIN q /\ q[p.name] = None /\ DOMAIN q \subseteq {p.name, p.to}
  /\ p.op = "insert" => DOMAIN q = IF p.meta.snow THEN {p.name} ELSE {}
PlanRows(p, b) ==
  /\ \A r \in b.dels \cup b.puts : r[1] \in TableLocks(p)
  /\ p.op \in {"create_db", "create", "alter"} => b.dels = {} /\ b.puts = {}
  /\ p.op \in {"drop_db", "drop", "delete"} => b.puts = {}
  /\ p.op = "insert" => b.dels = {}
  /\ p.op = "rename" => \E ks \in SUBSET Keys : b.dels = Rows(p.name, ks) /\ b.puts = Rows(p.to, ks)
PlannedBatch(p, b) ==
  /\ b.newDbs = (IF p.op = "create_db" THEN {p.db} ELSE {})
  /\ b.oldDbs = (IF p.op = "drop_db" THEN {p.db} ELSE {})
  /\ b.tabs = PlanTabs(p) /\ PlanSeqs(p, b.seqs) /\ PlanRows(p, b)
BatchesPlanned == \A s \in Sessions : pc[s] \in {"writing", "applying"} => PlannedBatch(stmt[s], batch[s])

\* What a statement has read under its locks is still so.
RowsRead(p, b, met) ==
  /\ b.dels \subseteq kv.rows
  /\ p.op = "insert" => b.puts \cap kv.rows = {}
  /\ p.op = "update" /\ "moved_key" \notin met => b.dels = {} /\ b.puts \subseteq kv.rows
  /\ "scan_cut" \notin met =>
       /\ p.op \in {"drop", "rename"} => b.dels = Rows(p.name, RowsOf(p.name))
       /\ p.op = "drop_db" => \A n \in p.tables : Rows(n, RowsOf(n)) \subseteq b.dels
ReadsKept ==
  "unanswered" \notin exposed =>
    \A s \in Sessions : pc[s] = "writing" => RowsRead(stmt[s], batch[s], exposed)

\* What an UPDATE puts where no row stays is as much as it deletes.
Balanced(b) == Cardinality(b.puts \ (kv.rows \ b.dels)) = Cardinality(b.dels)
RowsBalanced ==
  exposed \cap {"unanswered", "scan_cut"} = {} =>
    \A s \in Sessions : pc[s] = "writing" /\ stmt[s].op = "update" => Balanced(batch[s])

Clean == exposed \cap {"stale_plan", "unapplied", "unanswered"} = {}

\* The statements that have written and not yet changed the cache are the only
\* difference between the two, and write different entries; a catalog that was
\* loaded in part lacks databases and tables.
Pending(s) == pc[s] = "applying"
TablesAgree ==
  \A n \in Names :
    \/ cache.tabs[n] = kv.tabs[n]
    \/ \E s \in Sessions : Pending(s) /\ n \in DOMAIN batch[s].tabs
    \/ cache.tabs[n] = None /\ "partial_catalog" \in exposed
DatabasesAgree ==
  \A d \in Dbs :
    \/ (d \in cache.dbs) <=> (d \in kv.dbs)
    \/ \E s \in Sessions : Pending(s) /\ d \in batch[s].newDbs \cup batch[s].oldDbs
    \/ d \notin cache.dbs /\ "partial_catalog" \in exposed
WrittenIsThere ==
  \A s \in Sessions : Pending(s) =>
    /\ \A n \in DOMAIN batch[s].tabs : kv.tabs[n] = batch[s].tabs[n]
    /\ batch[s].newDbs \subseteq kv.dbs /\ batch[s].oldDbs \cap kv.dbs = {}
    /\ stmt[s].op = "drop_db" => \A n \in Names : Db(n) = stmt[s].db => kv.tabs[n] = None
PendingApart ==
  \A s, t \in Sessions :
    Pending(s) /\ Pending(t) /\ s # t => CatalogEntries(batch[s]) \cap CatalogEntries(batch[t]) = {}
Agree == Clean /\ booted => TablesAgree /\ DatabasesAgree /\ WrittenIsThere /\ PendingApart

\* A row is only put into a table that is there.
Backed ==
  Clean => \A s \in Sessions :
    (pc[s] \in {"checked", "writing"} /\ stmt[s].op = "insert") \/ (pc[s] = "writing" /\ stmt[s].op = "update")
      => kv.tabs[stmt[s].name] # None

Consistent ==
  Clean /\ "scan_cut" \notin exposed =>
    /\ TablesHaveDatabases /\ RowsHaveTables
    /\ "renamed_target" \notin exposed => ForeignKeysResolve

\* The counter that an INSERT or a RENAME writes is not behind the counter that
\* is there, nor behind the keys it puts.
SequencesRead ==
  exposed = {} => \A s \in Sessions : pc[s] = "writing" =>
    /\ stmt[s].op = "rename" /\ stmt[s].meta.snow /\ kv.tabs[stmt[s].name] = stmt[s].meta =>
         \A r \in batch[s].puts :
           stmt[s].to \in DOMAIN batch[s].seqs /\ batch[s].seqs[stmt[s].to] \in 0..MaxKey /\ r[2] <= batch[s].seqs[stmt[s].to]
    /\ stmt[s].op = "insert" /\ stmt[s].meta.snow =>
         /\ batch[s].seqs[stmt[s].name] \in 0..MaxKey /\ Sequence(stmt[s].name) <= batch[s].seqs[stmt[s].name]
         /\ \A r \in batch[s].puts : r[2] <= batch[s].seqs[stmt[s].name]

------------------------------------------------------------------------------
(* Plans, batches and the entries of functions *)

\* What a plan of each kind carries.
LEMMA PlanFields ==
  ASSUME NEW p \in Plans
  PROVE  /\ p.op \in Ddl \cup {"insert", "update", "delete"}
         /\ p.op \in {"create_db", "drop_db"} => p.db \in Dbs
         /\ p.op = "drop_db" => p.tables \subseteq Names
         /\ p.op \notin {"create_db", "drop_db"} => p.name \in Names
         /\ p.op \in {"create", "alter", "rename", "insert"} => p.meta \in Metas
         /\ p.op = "alter" => p.new \in Metas
         /\ p.op = "rename" => p.to \in Names
         /\ p.op = "insert" => p.source \in Names \cup {None}
         /\ p.op \in {"insert", "update", "delete"} => p.keys \subseteq Keys
         /\ p.op = "update" => \E ks \in SUBSET Keys : p.set \in [ks -> Keys]
  BY DEF Plans, Ddl

\* The entries of f over those of g.
LEMMA OverIs ==
  ASSUME NEW f, NEW g
  PROVE  /\ DOMAIN Over(f, g) = DOMAIN f \cup DOMAIN g
         /\ \A x \in DOMAIN f : Over(f, g)[x] = f[x]
         /\ \A x \in DOMAIN g \ DOMAIN f : Over(f, g)[x] = g[x]
  BY DEF Over

\* One entry over a function on S.
LEMMA OverType ==
  ASSUME NEW S, NEW T, NEW f, NEW g \in [S -> T], DOMAIN f \subseteq S, \A x \in DOMAIN f : f[x] \in T
  PROVE  Over(f, g) \in [S -> T]
  BY DEF Over

\* The map of one entry.
LEMMA OneIs ==
  ASSUME NEW n, NEW v
  PROVE  DOMAIN One(n, v) = {n} /\ One(n, v)[n] = v
  BY DEF One

\* A map without entries.
LEMMA NoEntries == DOMAIN <<>> = {}
  OBVIOUS

\* Columns stay columns when one is dropped, or added or modified.
LEMMA ColumnsRestrict ==
  ASSUME NEW cols \in Columns, NEW c
  PROVE  Restrict(cols, DOMAIN cols \ {c}) \in Columns
<1>1. PICK cs \in SUBSET Cols : cols \in [cs -> Tabs \cup {None}]
  BY DEF Columns
<1>2. Restrict(cols, DOMAIN cols \ {c}) \in [cs \ {c} -> Tabs \cup {None}]
  BY <1>1 DEF Restrict
<1>3. cs \ {c} \in SUBSET Cols
  OBVIOUS
<1> QED
  BY <1>2, <1>3 DEF Columns

LEMMA ColumnsAdd ==
  ASSUME NEW cols \in Columns, NEW c \in Cols, NEW ref \in Tabs \cup {None}
  PROVE  Over(One(c, ref), cols) \in Columns
<1>1. PICK cs \in SUBSET Cols : cols \in [cs -> Tabs \cup {None}]
  BY DEF Columns
<1>2. Over(One(c, ref), cols) \in [cs \cup {c} -> Tabs \cup {None}]
  BY <1>1 DEF Over, One
<1>3. cs \cup {c} \in SUBSET Cols
  OBVIOUS
<1> QED
  BY <1>2, <1>3 DEF Columns

\* The tables of a database can be locked in any order, each of them once.
LEMMA OrdersOf ==
  ASSUME NEW S, IsFiniteSet(S), NEW q \in SetToSeqs(S)
  PROVE  /\ q \in Seq(S)
         /\ \A i, j \in 1..Len(q) : i # j => q[i] # q[j]
         /\ \A x \in S : \E i \in 1..Len(q) : q[i] = x
<1> DEFINE D == 1..Cardinality(S)
<1>1. Cardinality(S) \in Nat
  BY FS_CardinalityType
<1>2. q \in [D -> S] /\ \A i, j \in D : i # j => q[i] # q[j]
  BY DEF SetToSeqs
<1>3. q \in Seq(S) /\ Len(q) = Cardinality(S)
  BY <1>1, <1>2, LenProperties, IsASeq
<1>4. q \in Injection(D, S)
  BY <1>2 DEF Injection, IsInjective
<1>5. Cardinality(D) = Cardinality(S)
  BY <1>1, FS_Interval
<1>6. q \in Surjection(D, S)
  BY <1>4, <1>5, FS_Injection
<1> QED
  BY <1>2, <1>3, <1>6 DEF Surjection

\* The executor's two locks are no table locks.
LEMMA LockKinds ==
  /\ InsertMu \notin Names /\ SequenceMu \notin Names /\ InsertMu # SequenceMu
  /\ Names \subseteq Locks /\ InsertMu \in Locks /\ SequenceMu \in Locks
  BY DEF InsertMu, SequenceMu, Names, Locks

\* The empty batch.
LEMMA NoOpsIsBatch == IsBatch(NoOps)
  BY DEF IsBatch, NoOps

\* There are finitely many tables.
LEMMA NamesFinite == IsFiniteSet(Names)
  BY StatementsAssumption, FS_Product DEF Names

\* Sets of keys are finite: Cardinality of them is a number.
LEMMA KeySets ==
  ASSUME NEW ks \in SUBSET Keys
  PROVE  IsFiniteSet(ks) /\ Cardinality(ks) \in Nat
<1>1. IsFiniteSet(Keys)
  BY StatementsAssumption, FS_Interval DEF Keys
<1> QED
  BY <1>1, FS_Subset, FS_CardinalityType

------------------------------------------------------------------------------
(* Types *)

\* A batch stays one when statements are planned.
LEMMA BatchesLast ==
  ASSUME stmts \in Nat, stmts' \in Nat, stmts <= stmts', NEW b, IsBatch(b)
  PROVE  IsBatch(b)'
<1>1. MetasNow \subseteq MetasNow'
  BY DEF MetasNow, Metas
<1> QED
  BY <1>1 DEF IsBatch

\* A fresh store has the types.
LEMMA InitTypes == Init => TypeInv
<1> SUFFICES ASSUME Init PROVE TypeInv
  OBVIOUS
<1> USE StatementsAssumption, NoneAssumption
<1>1. PICK dbs \in SUBSET Dbs, tabs \in [Names -> {None} \cup {m \in Metas : m.version = 0 /\ m.cols = <<>>}],
           count \in [Names -> 0..MaxKey] :
        /\ kv = [dbs |-> dbs, tabs |-> tabs, rows |-> {r \in Names \X Keys : r[2] <= count[r[1]]},
                 seqs |-> [n \in Names |-> IF tabs[n] # None /\ tabs[n].snow THEN count[n] ELSE None]]
        /\ cache = [dbs |-> dbs, tabs |-> tabs]
  BY DEF Init
<1>2. stmts = 0 /\ tabs \in [Names -> MetasNow \cup {None}]
  BY <1>1 DEF Init, MetasNow, Metas
<1>3. TypeStore
  BY <1>1, <1>2 DEF TypeStore
<1>4. TypePlans
  BY DEF Init, TypePlans
<1>5. TypeSteps
  BY DEF Init, TypeSteps
<1>6. TypeBatches
  BY NoOpsIsBatch DEF Init, TypeBatches
<1>7. TypeLocks
  BY DEF Init, TypeLocks
<1>8. TypeRest
  BY DEF Init, TypeRest
<1> QED
  BY <1>3, <1>4, <1>5, <1>6, <1>7, <1>8 DEF TypeInv

\* A statement returns: whatever else it does keeps the types of the rest.
LEMMA FinishTypes ==
  ASSUME TypeInv, NEW s \in Sessions, Finish(s), TypeStore', UNCHANGED <<limit, stmts, booted>>,
         faults' \in 0..MaxFaults, inflight' \subseteq inflight \cup {batch[s]}
  PROVE  TypeInv'
<1> USE NoneAssumption DEF TypeInv
<1>1. \A b : IsBatch(b) => IsBatch(b)'
  BY DEF IsBatch, MetasNow
<1>2. TypePlans'
  <2>1. stmt' \in [Sessions -> Plans \cup {None}]
    BY DEF TypePlans, Finish
  <2>2. ASSUME NEW t \in Sessions, stmt'[t] # None PROVE Planned(stmt[t])' /\ stmt'[t] = stmt[t]
    BY <2>2 DEF TypePlans, Finish, Planned, MetasNow
  <2> QED
    BY <2>1, <2>2 DEF TypePlans
<1>3. TypeSteps'
  BY DEF TypePlans, TypeSteps, Finish
<1>4. TypeBatches'
  <2>1. ASSUME NEW t \in Sessions PROVE batch'[t] = batch[t] \/ batch'[t] = NoOps
    BY DEF Finish, TypeRest
  <2>2. \A t \in Sessions : IsBatch(batch'[t])
    BY <2>1, NoOpsIsBatch DEF TypeBatches
  <2> QED
    BY <1>1, <2>2, NoOpsIsBatch DEF TypeBatches
<1>5. TypeLocks'
  BY DEF TypeLocks, Finish
<1>6. TypeRest'
  BY DEF TypeRest, Finish
<1> QED
  BY <1>2, <1>3, <1>4, <1>5, <1>6

\* A statement sends its batch.
LEMMA SendTypes ==
  ASSUME TypeInv, NEW s \in Sessions, pc[s] \in {"locking", "checked"}, NEW b, IsBatch(b), NEW found, Send(s, b, found)
  PROVE  TypeInv'
<1> USE NoneAssumption DEF TypeInv, bounds
<1>1. \A c : IsBatch(c) => IsBatch(c)'
  BY DEF IsBatch, MetasNow, Send
<1>2. TypePlans'
  <2>1. ASSUME NEW t \in Sessions, stmt'[t] # None PROVE Planned(stmt[t])' /\ stmt'[t] = stmt[t]
    BY <2>1 DEF TypePlans, Send, Planned, MetasNow
  <2> QED
    BY <2>1 DEF TypePlans, Send
<1>3. TypeSteps'
  BY DEF TypePlans, TypeSteps, Send
<1>4. TypeBatches'
  <2>1. ASSUME NEW t \in Sessions PROVE batch'[t] = batch[t] \/ batch'[t] = b
    BY DEF Send, TypeRest
  <2> QED
    BY <1>1, <2>1 DEF TypeBatches, Send
<1>5. TypeLocks'
  BY DEF TypeLocks, Send
<1>6. TypeRest'
  BY DEF TypeRest, Send
<1>7. TypeStore'
  BY DEF TypeStore, Send, MetasNow
<1> QED
  BY <1>2, <1>3, <1>4, <1>5, <1>6, <1>7

\* A statement that fails releases its locks and leaves the types as they are.
LEMMA RejectTypes ==
  ASSUME TypeInv, NEW s \in Sessions, Reject(s)
  PROVE  TypeInv'
<1>1. TypeStore'
  BY DEF Reject, TypeInv, TypeStore, MetasNow, bounds
<1> QED
  BY <1>1, FinishTypes DEF Reject, bounds, TypeInv, TypeRest

\* Every batch that is put together is well-formed.
LEMMA CreateDatabaseBatch ==
  ASSUME NEW d \in Dbs
  PROVE  IsBatch(BuildCreateDatabaseOps(d))
  BY DEF IsBatch, BuildCreateDatabaseOps, NoOps

\* The batch of each kind of statement has the type of a batch: buildDropDatabaseOps,
LEMMA DropDatabaseBatch ==
  ASSUME NEW d, NEW ns \in SUBSET Names, NEW rows
  PROVE  IsBatch([BuildDropDatabaseOps(d, ns) EXCEPT !.dels = rows])
  BY DEF IsBatch, BuildDropDatabaseOps, NoOps

\* the ops of CREATE TABLE,
LEMMA CreateTableBatch ==
  ASSUME NEW n \in Names, NEW meta \in MetasNow
  PROVE  IsBatch([NoOps EXCEPT !.tabs = One(n, meta), !.seqs = IF meta.snow THEN One(n, 0) ELSE <<>>])
<1>1. meta.snow \in BOOLEAN /\ 0 \in 0..MaxKey
  BY StatementsAssumption DEF MetasNow, Metas
<1>2. CASE meta.snow
  BY <1>1, <1>2 DEF IsBatch, One, NoOps
<1>3. CASE ~meta.snow
  BY <1>3 DEF IsBatch, One, NoOps
<1> QED
  BY <1>1, <1>2, <1>3

\* buildDropTableOps,
LEMMA DropTableBatch ==
  ASSUME NEW n \in Names, NEW rows
  PROVE  IsBatch([BuildDropTableOps(n) EXCEPT !.dels = rows])
  BY DEF IsBatch, BuildDropTableOps, One, NoOps

\* buildAlterTableOps, whose new version is not above the number of statements,
LEMMA AlterTableBatch ==
  ASSUME stmts \in 0..MaxStmts, NEW n \in Names, NEW old \in MetasNow, NEW new \in Metas, old.version < stmts
  PROVE  IsBatch(BuildAlterTableOps(n, old, new))
<1>1. [new EXCEPT !.version = old.version + 1] \in MetasNow
  BY StatementsAssumption DEF MetasNow, Metas
<1> QED
  BY <1>1 DEF IsBatch, BuildAlterTableOps, One, NoOps

\* the ops of RENAME, with the counter if there is one,
LEMMA RenameTableBatch ==
  ASSUME kv.seqs \in [Names -> 0..MaxKey \cup {None}], NEW n \in Names, NEW m \in Names, NEW meta \in MetasNow,
         NEW rows, NEW puts \in SUBSET (Names \X Keys)
  PROVE  IsBatch([BuildRenameTableOps(n, m, meta) EXCEPT !.dels = rows, !.puts = puts])
<1>1. kv.seqs[n] \in 0..MaxKey \cup {None}
  OBVIOUS
<1>2. LET q == RenamedSeq(n, m) IN DOMAIN q \subseteq Names /\ \A x \in DOMAIN q : q[x] \in 0..MaxKey \cup {None}
  BY <1>1 DEF RenamedSeq, Over, One
<1>3. LET q == Over(One(n, None), One(m, meta))
      IN  DOMAIN q \subseteq Names /\ \A x \in DOMAIN q : q[x] \in MetasNow \cup {None}
  BY DEF Over, One
<1> HIDE DEF Over, One, RenamedSeq
<1> QED
  BY <1>2, <1>3 DEF IsBatch, BuildRenameTableOps, NoOps

\* the rows of UPDATE and DELETE,
LEMMA RowsBatch ==
  ASSUME NEW n \in Names, NEW rows, NEW ks \in SUBSET Keys
  PROVE  IsBatch([NoOps EXCEPT !.dels = rows, !.puts = Rows(n, ks)])
  BY DEF IsBatch, NoOps, Rows

\* and the rows and the counter of INSERT.
LEMMA InsertBatch ==
  ASSUME NEW n \in Names, NEW last \in 0..MaxKey, NEW ks \in SUBSET Keys, NEW snow \in BOOLEAN
  PROVE  IsBatch([NoOps EXCEPT !.seqs = IF snow THEN One(n, last) ELSE <<>>, !.puts = Rows(n, ks)])
<1>1. Rows(n, ks) \subseteq Names \X Keys
  BY DEF Rows
<1>2. CASE snow
  BY <1>1, <1>2 DEF IsBatch, NoOps, One
<1>3. CASE ~snow
  BY <1>1, <1>3 DEF IsBatch, NoOps
<1> QED
  BY <1>2, <1>3

\* The counter that an INSERT writes: the last key it has made, or the counter
\* that is there when it makes none.
LEMMA LastKey ==
  ASSUME TypeInv, NEW n \in Names, NEW ks \in SUBSET Keys, (Sequence(n) + 1)..(Sequence(n) + Cardinality(ks)) \subseteq Keys
  PROVE  Sequence(n) \in 0..MaxKey /\ Sequence(n) + Cardinality(ks) \in 0..MaxKey
<1>1. Cardinality(ks) \in Nat
  BY KeySets
<1>2. Sequence(n) \in 0..MaxKey
  BY StatementsAssumption DEF Sequence, TypeInv, TypeStore
<1>3. CASE Cardinality(ks) = 0
  BY <1>2, <1>3, StatementsAssumption
<1>4. CASE Cardinality(ks) > 0
  <2>1. Sequence(n) + Cardinality(ks) \in (Sequence(n) + 1)..(Sequence(n) + Cardinality(ks))
    BY <1>1, <1>2, <1>4, StatementsAssumption
  <2> QED
    BY <1>1, <1>2, <2>1, StatementsAssumption DEF Keys
<1> QED
  BY <1>1, <1>3, <1>4

\* A statement that is under way has a plan.
LEMMA HasPlan ==
  ASSUME TypeInv, NEW s \in Sessions, pc[s] # "idle"
  PROVE  stmt[s] \in Plans /\ stmt[s] # None /\ Planned(stmt[s])
  BY NoneAssumption DEF TypeInv, TypePlans, TypeSteps

\* A scan returns rows of its table.
LEMMA ScannedKeys ==
  ASSUME NEW n
  PROVE  Scanned(n) \subseteq RowsOf(n) /\ RowsOf(n) \subseteq Keys
  BY DEF Scanned, RowsOf

\* INSERT ... SELECT reads its keys from another table.
LEMMA SelectTypes ==
  ASSUME TypeInv, NEW s \in Sessions, InsertSelectSource(s)
  PROVE  TypeInv'
<1> USE NoneAssumption DEF TypeInv, bounds
<1> DEFINE p == stmt[s]
           q == [op |-> "insert", name |-> p.name, meta |-> p.meta, keys |-> Scanned(p.source), source |-> None]
<1>1. pc[s] = "locking" /\ p.op = "insert" /\ p.source # None
  BY DEF InsertSelectSource, Ready
<1>2. p \in Plans /\ Planned(p)
  BY <1>1, HasPlan
<1>3. p \in [op : {"insert"}, name : Names, meta : Metas, keys : SUBSET Keys, source : Names \cup {None}]
  BY <1>1, <1>2 DEF Plans
<1>4. stmt' = [stmt EXCEPT ![s] = q]
  BY <1>3 DEF InsertSelectSource, TypePlans
<1>5. q \in Plans
  BY <1>3, ScannedKeys DEF Plans
<1>6. Planned(q)
  BY <1>1, <1>2 DEF Planned
<1>7. MetasNow' = MetasNow
  BY DEF InsertSelectSource, MetasNow
<1>8. TypePlans'
  <2>1. stmt' \in [Sessions -> Plans \cup {None}]
    BY <1>4, <1>5 DEF TypePlans
  <2>2. ASSUME NEW t \in Sessions, stmt'[t] # None PROVE Planned(stmt'[t])
    BY <2>2, <1>4, <1>6 DEF TypePlans
  <2>3. stmts' = stmts
    BY DEF InsertSelectSource
  <2> QED
    BY <2>1, <2>2, <2>3, <1>7 DEF TypePlans, Planned
<1>9. TypeSteps'
  BY <1>1, <1>4, <1>5 DEF TypePlans, TypeSteps, InsertSelectSource
<1>10. TypeBatches'
  BY <1>7 DEF TypeBatches, IsBatch, InsertSelectSource
<1>11. TypeLocks' /\ TypeRest' /\ TypeStore'
  BY <1>7 DEF TypeLocks, TypeRest, TypeStore, InsertSelectSource
<1> QED
  BY <1>8, <1>9, <1>10, <1>11

\* INSERT checks its keys and goes on to write or to the sequence lock.
LEMMA CheckTypes ==
  ASSUME TypeInv, NEW s \in Sessions, InsertCheck(s)
  PROVE  TypeInv'
<1> USE NoneAssumption DEF TypeInv, bounds
<1>1. CASE ~StillThere(stmt[s].name)
  BY <1>1, RejectTypes DEF InsertCheck
<1>2. CASE StillThere(stmt[s].name)
  <2>1. /\ pc' = [pc EXCEPT ![s] = "checked"]
        /\ need' = [need EXCEPT ![s] = IF stmt[s].meta.snow THEN <<SequenceMu>> ELSE <<>>]
        /\ UNCHANGED <<kv, cache, mu, stmt, batch, inflight, booted, limit, stmts, faults, exposed>>
        /\ pc[s] = "locking" /\ stmt[s].op = "insert"
    BY <1>2 DEF InsertCheck, Ready
  <2>2. MetasNow' = MetasNow
    BY <2>1 DEF MetasNow
  <2>3. TypePlans' /\ TypeStore' /\ TypeBatches'
    BY <2>1, <2>2 DEF TypePlans, Planned, TypeStore, TypeBatches, IsBatch
  <2>4. TypeSteps'
    BY <2>1 DEF TypeSteps
  <2>5. need' \in [Sessions -> Seq(Locks)]
    BY <2>1, LockKinds DEF TypeLocks
  <2> QED
    BY <2>1, <2>3, <2>4, <2>5 DEF TypeLocks, TypeRest
<1> QED
  BY <1>1, <1>2

\* Putting a batch together keeps the types.
LEMMA BuildTypes ==
  ASSUME TypeInv, NEW s \in Sessions, Build(s)
  PROVE  TypeInv'
<1> DEFINE p == stmt[s]
<1>1. pc[s] \in {"locking", "checked"} /\ (pc[s] = "checked" => p.op = "insert")
  BY DEF Build, BuildCreateDatabase, BuildDropDatabase, BuildCreateTable, BuildDropTable, BuildAlterTable,
         BuildRenameTable, InsertSelectSource, InsertCheck, BuildInsert, BuildUpdate, BuildDelete, Ready, TypeInv, TypeSteps
<1>2. p \in Plans /\ Planned(p)
  BY <1>1, HasPlan
<1>3. kv.seqs \in [Names -> 0..MaxKey \cup {None}] /\ stmts \in 0..MaxStmts
  BY DEF TypeInv, TypeStore, TypeRest
<1>4. CASE BuildCreateDatabase(s)
  <2>1. p.db \in Dbs /\ Send(s, BuildCreateDatabaseOps(p.db), {})
    BY <1>2, <1>4, PlanFields DEF BuildCreateDatabase, Ready
  <2> QED
    BY <1>1, <2>1, CreateDatabaseBatch, SendTypes
<1>5. CASE BuildDropDatabase(s)
  <2>1. PICK rows : Send(s, [BuildDropDatabaseOps(p.db, p.tables) EXCEPT !.dels = rows], Cut(p.tables))
    BY <1>5 DEF BuildDropDatabase
  <2>2. p.tables \in SUBSET Names
    BY <1>2, <1>5, PlanFields DEF BuildDropDatabase, Ready
  <2> QED
    BY <1>1, <2>1, <2>2, DropDatabaseBatch, SendTypes
<1>6. CASE BuildCreateTable(s)
  <2>1. p.name \in Names /\ p.meta \in MetasNow
    BY <1>2, <1>6, PlanFields DEF BuildCreateTable, Ready, Planned
  <2>2. CASE CreateAllowed(p.name)
    <3>1. Send(s, [NoOps EXCEPT !.tabs = One(p.name, p.meta),
                     !.seqs = IF p.meta.snow THEN One(p.name, 0) ELSE <<>>], {})
      BY <1>6, <2>2 DEF BuildCreateTable
    <3> QED
      BY <1>1, <2>1, <3>1, CreateTableBatch, SendTypes
  <2>3. CASE ~CreateAllowed(p.name)
    BY <1>6, <2>3, RejectTypes DEF BuildCreateTable
  <2> QED
    BY <2>2, <2>3
<1>7. CASE BuildDropTable(s)
  <2>1. Send(s, [BuildDropTableOps(p.name) EXCEPT !.dels = Rows(p.name, Scanned(p.name))], Cut({p.name}))
    BY <1>7 DEF BuildDropTable
  <2>2. p.name \in Names
    BY <1>2, <1>7, PlanFields DEF BuildDropTable, Ready
  <2> QED
    BY <1>1, <2>1, <2>2, DropTableBatch, SendTypes
<1>8. CASE BuildAlterTable(s)
  <2>1. Send(s, BuildAlterTableOps(p.name, p.meta, p.new), {})
    BY <1>8 DEF BuildAlterTable
  <2>2. p.name \in Names /\ p.meta \in MetasNow /\ p.new \in Metas /\ p.meta.version < stmts
    BY <1>2, <1>8, PlanFields DEF BuildAlterTable, Ready, Planned
  <2> QED
    BY <1>1, <1>3, <2>1, <2>2, AlterTableBatch, SendTypes
<1>9. CASE BuildRenameTable(s)
  <2>1. Send(s, [BuildRenameTableOps(p.name, p.to, p.meta) EXCEPT !.dels = Rows(p.name, Scanned(p.name)),
                   !.puts = Rows(p.to, Scanned(p.name))], Cut({p.name}))
    BY <1>9 DEF BuildRenameTable
  <2>2. p.name \in Names /\ p.to \in Names /\ p.meta \in MetasNow
    BY <1>2, <1>9, PlanFields DEF BuildRenameTable, Ready, Planned
  <2>3. Rows(p.to, Scanned(p.name)) \in SUBSET (Names \X Keys)
    BY <2>2, ScannedKeys DEF Rows
  <2> QED
    BY <1>1, <1>3, <2>1, <2>2, <2>3, RenameTableBatch, SendTypes
<1>10. CASE InsertSelectSource(s)
  BY <1>10, SelectTypes
<1>11. CASE InsertCheck(s)
  BY <1>11, CheckTypes
<1>12. CASE BuildInsert(s)
  <2> DEFINE last == Sequence(p.name) + Cardinality(p.keys)
             ks == IF p.meta.snow THEN (Sequence(p.name) + 1)..last ELSE p.keys
  <2>1. /\ ks \subseteq Keys
        /\ \/ Send(s, [NoOps EXCEPT !.seqs = IF p.meta.snow THEN One(p.name, last) ELSE <<>>,
                         !.puts = Rows(p.name, ks)], {})
           \/ Reject(s)
    BY <1>12 DEF BuildInsert
  <2>2. p.op = "insert" /\ p.name \in Names /\ p.keys \subseteq Keys /\ p.meta \in Metas /\ p.meta.snow \in BOOLEAN
    BY <1>1, <1>2, <1>12, PlanFields DEF BuildInsert, Metas
  <2>3. ASSUME Send(s, [NoOps EXCEPT !.seqs = IF p.meta.snow THEN One(p.name, last) ELSE <<>>,
                         !.puts = Rows(p.name, ks)], {})
        PROVE  TypeInv'
    <3>1. CASE p.meta.snow
      <4>1. last \in 0..MaxKey
        BY <2>1, <2>2, <3>1, LastKey
      <4> HIDE DEF last
      <4> QED
        BY <1>1, <2>1, <2>2, <2>3, <4>1, InsertBatch, SendTypes
    <3>2. CASE ~p.meta.snow
      <4>1. [NoOps EXCEPT !.seqs = IF p.meta.snow THEN One(p.name, last) ELSE <<>>, !.puts = Rows(p.name, ks)]
              = [NoOps EXCEPT !.seqs = IF p.meta.snow THEN One(p.name, 0) ELSE <<>>, !.puts = Rows(p.name, ks)]
        BY <3>2
      <4>2. 0 \in 0..MaxKey
        BY StatementsAssumption
      <4> HIDE DEF last
      <4> QED
        BY <1>1, <2>1, <2>2, <2>3, <4>1, <4>2, InsertBatch, SendTypes
    <3> QED
      BY <3>1, <3>2
  <2> QED
    BY <2>1, <2>3, RejectTypes
<1>13. CASE BuildUpdate(s)
  <2> DEFINE cands == Scanned(p.name) \cap p.keys
             moved == {k \in cands : p.set[k] # k}
             found == Cut({p.name}) \cup IF moved = {} THEN {} ELSE {"moved_key"}
  <2>1. Send(s, [NoOps EXCEPT !.dels = Rows(p.name, moved), !.puts = Rows(p.name, {p.set[k] : k \in cands})], found)
          \/ Reject(s)
    BY <1>13 DEF BuildUpdate
  <2>2. p.name \in Names /\ {p.set[k] : k \in cands} \in SUBSET Keys
    BY <1>2, <1>13, PlanFields DEF BuildUpdate, Ready, Planned
  <2> QED
    BY <1>1, <2>1, <2>2, RowsBatch, SendTypes, RejectTypes
<1>14. CASE BuildDelete(s)
  <2>1. Send(s, [NoOps EXCEPT !.dels = Rows(p.name, Scanned(p.name) \cap p.keys)], Cut({p.name})) \/ Reject(s)
    BY <1>14 DEF BuildDelete
  <2>2. IsBatch([NoOps EXCEPT !.dels = Rows(p.name, Scanned(p.name) \cap p.keys)])
    BY DEF IsBatch, NoOps
  <2> QED
    BY <1>1, <2>1, <2>2, SendTypes, RejectTypes
<1> QED
  BY <1>4, <1>5, <1>6, <1>7, <1>8, <1>9, <1>10, <1>11, <1>12, <1>13, <1>14 DEF Build

\* The plans that the planner makes, and the locks they will take.
NewPlan(p, locks) ==
  \/ locks = <<>> /\ p.op \in {"create_db", "create"}
  \/ p.op = "drop_db" /\ locks \in SetToSeqs(p.tables)
  \/ locks = <<p.name>> /\ p.op \in {"drop", "alter", "update", "delete"}
  \/ locks = <<p.name, p.to, SequenceMu>> /\ p.op = "rename"
  \/ locks = <<InsertMu, p.name>> /\ p.op = "insert"

\* Planning: a well-formed plan, of the current catalog.
LEMMA PlansAreMade ==
  ASSUME TypeInv, NEW s \in Sessions, PlanStatement(s)
  PROVE  \E p \in Plans, locks \in Seq(Locks) :
           /\ Plan(s, p, locks) /\ NewPlan(p, locks) /\ stmts' = stmts + 1 /\ stmts < MaxStmts
           /\ Planned(p)'
<1> USE NoneAssumption
<1>1. stmts \in 0..MaxStmts /\ stmts < MaxStmts /\ MaxStmts \in Nat /\ stmts' = stmts + 1
  BY StatementsAssumption, ZenonT(40) DEF PlanStatement, TypeInv, TypeRest, PlanCreateDatabase, PlanDropDatabase, PlanCreateTable,
     PlanDropTable, PlanDropColumn, PlanAddOrModify, PlanAlterSchema, PlanRenameTable, PlanInsert, PlanUpdate, PlanDelete, Plan
<1>2. cache.tabs \in [Names -> MetasNow \cup {None}]
  BY DEF TypeInv, TypeStore
<1>3. MetasNow' = {m \in Metas : m.version <= stmts + 1} /\ MetasNow \subseteq MetasNow' /\ MetasNow \subseteq Metas
  BY <1>1 DEF MetasNow, Metas
<1>4. \A n \in Names : <<n>> \in Seq(Locks) /\ <<InsertMu, n>> \in Seq(Locks)
  BY LockKinds
<1>5. \A n, m \in Names : <<n, m, SequenceMu>> \in Seq(Locks)
  BY LockKinds
<1>6. <<>> \in Seq(Locks)
  OBVIOUS
<1>7. ASSUME NEW d \in Dbs, PlanCreateDatabase(s, d)
      PROVE  \E p \in Plans, locks \in Seq(Locks) : Plan(s, p, locks) /\ NewPlan(p, locks) /\ Planned(p)'
  <2>1. PICK p : p = [op |-> "create_db", db |-> d]
    OBVIOUS
  <2>2. p \in Plans
    BY <2>1 DEF Plans
  <2>3. Plan(s, p, <<>>) /\ NewPlan(p, <<>>)
    BY <1>7, <2>1 DEF PlanCreateDatabase, NewPlan
  <2>4. Planned(p)'
    BY <1>7, <1>1, <1>2, <1>3, <2>1 DEF Planned, MetasNow, Metas, PlanCreateDatabase, TableExists, GetTable
  <2> QED
    BY <1>4, <1>5, <1>6, <2>2, <2>3, <2>4
<1>8. ASSUME NEW d \in Dbs, PlanDropDatabase(s, d)
      PROVE  \E p \in Plans, locks \in Seq(Locks) : Plan(s, p, locks) /\ NewPlan(p, locks) /\ Planned(p)'
  <2>1. PICK ns : ns = ListTables(d)
    OBVIOUS
  <2>2. PICK p : p = [op |-> "drop_db", db |-> d, tables |-> ns]
    OBVIOUS
  <2>3. p \in Plans /\ ns \subseteq Names /\ \A n \in ns : Db(n) = d
    BY <2>1, <2>2 DEF Plans, ListTables
  <2>4. PICK order \in SetToSeqs(ns) : Plan(s, p, order)
    BY <1>8, <2>1, <2>2 DEF PlanDropDatabase
  <2>5. order \in Seq(ns)
    BY <2>3, NamesFinite, FS_Subset, OrdersOf
  <2>6. order \in Seq(Locks)
    BY <2>3, <2>5, LockKinds, SeqMonotonic
  <2>7. NewPlan(p, order) /\ Planned(p)'
    BY <2>2, <2>3 DEF NewPlan, Planned
  <2> QED
    BY <2>3, <2>4, <2>6, <2>7
<1>9. ASSUME NEW n \in Names, NEW snow \in BOOLEAN, NEW cols \in Columns, PlanCreateTable(s, n, snow, cols)
      PROVE  \E p \in Plans, locks \in Seq(Locks) : Plan(s, p, locks) /\ NewPlan(p, locks) /\ Planned(p)'
  <2>1. PICK p : p = [op |-> "create", name |-> n, meta |-> [cols |-> cols, version |-> 0, snow |-> snow]]
    OBVIOUS
  <2>2. p \in Plans
    BY <2>1, <1>1 DEF Plans, Metas
  <2>3. Plan(s, p, <<>>) /\ NewPlan(p, <<>>)
    BY <1>9, <2>1 DEF PlanCreateTable, NewPlan
  <2>4. Planned(p)'
    BY <1>9, <1>1, <1>2, <1>3, <2>1 DEF Planned, MetasNow, Metas, PlanCreateTable, TableExists, GetTable
  <2> QED
    BY <1>4, <1>5, <1>6, <2>2, <2>3, <2>4
<1>10. ASSUME NEW n \in Names, PlanDropTable(s, n)
      PROVE  \E p \in Plans, locks \in Seq(Locks) : Plan(s, p, locks) /\ NewPlan(p, locks) /\ Planned(p)'
  <2>1. PICK p : p = [op |-> "drop", name |-> n]
    OBVIOUS
  <2>2. p \in Plans
    BY <2>1 DEF Plans
  <2>3. Plan(s, p, <<n>>) /\ NewPlan(p, <<n>>)
    BY <1>10, <2>1 DEF PlanDropTable, NewPlan
  <2>4. Planned(p)'
    BY <1>10, <1>1, <1>2, <1>3, <2>1 DEF Planned, MetasNow, Metas, PlanDropTable, TableExists, GetTable
  <2> QED
    BY <1>4, <1>5, <1>6, <2>2, <2>3, <2>4
<1>11. ASSUME NEW n \in Names, NEW cols \in Columns, TableExists(n), PlanAlterSchema(s, n, cols)
      PROVE  \E p \in Plans, locks \in Seq(Locks) : Plan(s, p, locks) /\ NewPlan(p, locks) /\ Planned(p)'
  <2>1. PICK old : old = cache.tabs[n]
    OBVIOUS
  <2>2. PICK new : new = [old EXCEPT !.cols = cols]
    OBVIOUS
  <2>3. PICK p : p = [op |-> "alter", name |-> n, meta |-> old, new |-> new]
    OBVIOUS
  <2>4. old \in MetasNow
    BY <1>2, <1>11, <2>1 DEF TableExists, GetTable
  <2>5. new \in Metas /\ new.snow = old.snow
    BY <1>3, <1>11, <2>2, <2>4 DEF Metas
  <2>6. p \in Plans
    BY <1>3, <2>3, <2>4, <2>5 DEF Plans
  <2>7. Plan(s, p, <<n>>) /\ NewPlan(p, <<n>>)
    BY <1>11, <2>1, <2>2, <2>3 DEF PlanAlterSchema, GetTable, NewPlan
  <2>8. Planned(p)'
    BY <1>1, <1>3, <2>3, <2>4, <2>5 DEF Planned, MetasNow, Metas
  <2> QED
    BY <1>4, <2>6, <2>7, <2>8
<1>12. ASSUME NEW n \in Names, NEW m \in Names, PlanRenameTable(s, n, m)
      PROVE  \E p \in Plans, locks \in Seq(Locks) : Plan(s, p, locks) /\ NewPlan(p, locks) /\ Planned(p)'
  <2>1. PICK meta : meta = cache.tabs[n]
    OBVIOUS
  <2>2. PICK p : p = [op |-> "rename", name |-> n, to |-> m, meta |-> meta]
    OBVIOUS
  <2>3. meta \in MetasNow
    BY <1>2, <1>12, <2>1 DEF PlanRenameTable, TableExists, GetTable
  <2>4. p \in Plans
    BY <1>3, <2>2, <2>3 DEF Plans
  <2>5. Plan(s, p, <<n, m, SequenceMu>>) /\ NewPlan(p, <<n, m, SequenceMu>>)
    BY <1>12, <2>1, <2>2 DEF PlanRenameTable, GetTable, NewPlan
  <2>6. Planned(p)'
    BY <1>12, <1>3, <2>2, <2>3 DEF Planned, PlanRenameTable, TableExists, GetTable
  <2> QED
    BY <1>4, <1>5, <2>4, <2>5, <2>6
<1>13. ASSUME NEW n \in Names, NEW ks \in SUBSET Keys, NEW m \in Names \cup {None}, PlanInsert(s, n, ks, m)
      PROVE  \E p \in Plans, locks \in Seq(Locks) : Plan(s, p, locks) /\ NewPlan(p, locks) /\ Planned(p)'
  <2>1. PICK meta : meta = cache.tabs[n]
    OBVIOUS
  <2>2. PICK p : p = [op |-> "insert", name |-> n, meta |-> meta, keys |-> ks, source |-> m]
    OBVIOUS
  <2>3. meta \in MetasNow
    BY <1>2, <1>13, <2>1 DEF PlanInsert, TableExists, GetTable
  <2>4. p \in Plans
    BY <1>3, <2>2, <2>3 DEF Plans
  <2>5. Plan(s, p, <<InsertMu, n>>) /\ NewPlan(p, <<InsertMu, n>>)
    BY <1>13, <2>1, <2>2 DEF PlanInsert, GetTable, NewPlan, InsertLocks
  <2>6. Planned(p)'
    BY <1>13, <1>3, <2>2, <2>3 DEF Planned, PlanInsert, TableExists, GetTable
  <2> QED
    BY <1>4, <1>5, <2>4, <2>5, <2>6
<1>14. ASSUME NEW n \in Names, NEW ks \in SUBSET Keys, NEW set \in [ks -> Keys], PlanUpdate(s, n, ks, set)
      PROVE  \E p \in Plans, locks \in Seq(Locks) : Plan(s, p, locks) /\ NewPlan(p, locks) /\ Planned(p)'
  <2>1. PICK p : p = [op |-> "update", name |-> n, keys |-> ks, set |-> set]
    OBVIOUS
  <2>2. p \in Plans
    BY <2>1 DEF Plans
  <2>3. Plan(s, p, <<n>>) /\ NewPlan(p, <<n>>)
    BY <1>14, <2>1 DEF PlanUpdate, NewPlan
  <2>4. Planned(p)'
    BY <1>14, <1>1, <1>2, <1>3, <2>1 DEF Planned, MetasNow, Metas, PlanUpdate, TableExists, GetTable
  <2> QED
    BY <1>4, <1>5, <1>6, <2>2, <2>3, <2>4
<1>15. ASSUME NEW n \in Names, NEW ks \in SUBSET Keys, PlanDelete(s, n, ks)
      PROVE  \E p \in Plans, locks \in Seq(Locks) : Plan(s, p, locks) /\ NewPlan(p, locks) /\ Planned(p)'
  <2>1. PICK p : p = [op |-> "delete", name |-> n, keys |-> ks]
    OBVIOUS
  <2>2. p \in Plans
    BY <2>1 DEF Plans
  <2>3. Plan(s, p, <<n>>) /\ NewPlan(p, <<n>>)
    BY <1>15, <2>1 DEF PlanDelete, NewPlan
  <2>4. Planned(p)'
    BY <1>15, <1>1, <1>2, <1>3, <2>1 DEF Planned, MetasNow, Metas, PlanDelete, TableExists, GetTable
  <2> QED
    BY <1>4, <1>5, <1>6, <2>2, <2>3, <2>4
<1>16. ASSUME NEW n \in Names, TableExists(n) PROVE cache.tabs[n].cols \in Columns
  BY <1>2, <1>3, <1>16 DEF TableExists, GetTable, Metas
<1>17. ASSUME NEW n \in Names, NEW c \in Cols, PlanDropColumn(s, n, c)
      PROVE  \E p \in Plans, locks \in Seq(Locks) : Plan(s, p, locks) /\ NewPlan(p, locks) /\ Planned(p)'
  BY <1>11, <1>16, <1>17, ColumnsRestrict DEF PlanDropColumn, GetTable
<1>18. ASSUME NEW n \in Names, NEW c \in Cols, NEW ref \in Tabs \cup {None}, PlanAddOrModify(s, n, c, ref)
      PROVE  \E p \in Plans, locks \in Seq(Locks) : Plan(s, p, locks) /\ NewPlan(p, locks) /\ Planned(p)'
  BY <1>11, <1>16, <1>18, ColumnsAdd DEF PlanAddOrModify, GetTable
<1>19. \E p \in Plans, locks \in Seq(Locks) : Plan(s, p, locks) /\ NewPlan(p, locks) /\ Planned(p)'
  BY <1>7, <1>8, <1>9, <1>10, <1>12, <1>13, <1>14, <1>15, <1>17, <1>18 DEF PlanStatement
<1> QED
  BY <1>1, <1>19

\* Planning keeps the types, for each statement.
LEMMA PlanTypes ==
  ASSUME TypeInv, NEW s \in Sessions, PlanStatement(s)
  PROVE  TypeInv'
<1> USE NoneAssumption, StatementsAssumption DEF TypeInv
<1>1. PICK p \in Plans, locks \in Seq(Locks) :
        Plan(s, p, locks) /\ stmts' = stmts + 1 /\ stmts < MaxStmts /\ Planned(p)'
  BY PlansAreMade
<1>2. booted /\ pc[s] = "idle" /\ stmts \in 0..MaxStmts
  BY DEF PlanStatement, TypeRest
<1>3. MetasNow \subseteq MetasNow'
  BY <1>1, <1>2 DEF MetasNow, Metas
<1>4. TypeStore'
  BY <1>1, <1>3 DEF TypeStore, Plan
<1>5. TypePlans'
  <2>1. stmt' = [stmt EXCEPT ![s] = p]
    BY <1>1 DEF Plan
  <2>2. stmt' \in [Sessions -> Plans \cup {None}]
    BY <2>1 DEF TypePlans
  <2>3. ASSUME NEW q, Planned(q) PROVE Planned(q)'
    BY <1>1, <1>2, <1>3, <2>3 DEF Planned, MetasNow, Metas
  <2>4. ASSUME NEW t \in Sessions, stmt'[t] # None PROVE Planned(stmt[t])' \/ t = s
    <3>1. SUFFICES ASSUME t # s PROVE Planned(stmt[t])'
      OBVIOUS
    <3>2. PICK q : q = stmt[t]
      OBVIOUS
    <3>3. stmt'[t] = q /\ Planned(q)
      BY <2>1, <2>4, <3>1, <3>2 DEF TypePlans
    <3>4. Planned(q)'
      BY <2>3, <3>3
    <3> QED
      BY <3>3, <3>4
  <2>5. stmt'[s] = p
    BY <2>1 DEF TypePlans
  <2> QED
    BY <1>1, <2>2, <2>4, <2>5 DEF TypePlans
<1>6. TypeSteps'
  BY <1>1, <1>2 DEF TypePlans, TypeSteps, Plan
<1>7. TypeBatches'
  <2>1. ASSUME NEW b, IsBatch(b) PROVE IsBatch(b)'
    BY <1>1, <1>2, <2>1, BatchesLast
  <2>2. UNCHANGED <<batch, inflight>>
    BY <1>1 DEF Plan
  <2>3. ASSUME NEW t \in Sessions PROVE IsBatch(batch[t])'
    <3>1. PICK b : b = batch[t]
      OBVIOUS
    <3>2. IsBatch(b)' /\ batch'[t] = b
      BY <2>1, <2>2, <3>1 DEF TypeBatches
    <3> QED
      BY <3>2
  <2>4. ASSUME NEW b \in inflight PROVE IsBatch(b)'
    BY <2>1 DEF TypeBatches
  <2> QED
    BY <2>2, <2>3, <2>4 DEF TypeBatches
<1>8. TypeLocks'
  BY <1>1 DEF TypeLocks, Plan
<1>9. TypeRest'
  BY <1>1, <1>2 DEF TypeRest, Plan
<1> QED
  BY <1>4, <1>5, <1>6, <1>7, <1>8, <1>9

\* Taking a lock keeps the types.
LEMMA AcquireTypes ==
  ASSUME TypeInv, NEW s \in Sessions, Acquire(s)
  PROVE  TypeInv'
<1> USE NoneAssumption DEF TypeInv, bounds
<1>1. MetasNow' = MetasNow /\ UNCHANGED <<kv, cache, pc, stmt, batch, inflight, booted, limit, stmts, faults>>
  BY DEF Acquire, MetasNow
<1>2. TypeStore' /\ TypePlans' /\ TypeSteps' /\ TypeBatches' /\ TypeRest'
  BY <1>1 DEF TypeStore, TypePlans, Planned, TypeSteps, TypeBatches, IsBatch, TypeRest
<1>3. need[s] \in Seq(Locks) /\ need[s] # <<>>
  BY DEF Acquire, TypeLocks
<1>4. Head(need[s]) \in Locks /\ Tail(need[s]) \in Seq(Locks)
  BY <1>3, HeadTailProperties
<1>5. TypeLocks'
  BY <1>4 DEF TypeLocks, Acquire
<1> QED
  BY <1>2, <1>5

\* A batch that commits leaves a well-formed store.
LEMMA CommittedTypes ==
  ASSUME TypeStore, NEW b, IsBatch(b), kv' = Committed(b), UNCHANGED <<cache, stmts>>
  PROVE  TypeStore'
<1>1. MetasNow' = MetasNow
  BY DEF MetasNow
<1>2. kv'.tabs = Over(b.tabs, kv.tabs) /\ kv'.seqs = Over(b.seqs, kv.seqs)
  BY DEF Committed
<1>3. kv'.tabs \in [Names -> MetasNow \cup {None}]
  <2>1. kv.tabs \in [Names -> MetasNow \cup {None}]
    BY DEF TypeStore
  <2>2. DOMAIN b.tabs \subseteq Names /\ \A n \in DOMAIN b.tabs : b.tabs[n] \in MetasNow \cup {None}
    BY DEF IsBatch
  <2>3. Over(b.tabs, kv.tabs) \in [Names -> MetasNow \cup {None}]
    BY <2>1, <2>2, OverType
  <2> QED
    BY <1>2, <2>3
<1>4. kv'.seqs \in [Names -> 0..MaxKey \cup {None}]
  <2>1. kv.seqs \in [Names -> 0..MaxKey \cup {None}]
    BY DEF TypeStore
  <2>2. DOMAIN b.seqs \subseteq Names /\ \A n \in DOMAIN b.seqs : b.seqs[n] \in 0..MaxKey \cup {None}
    BY DEF IsBatch
  <2>3. Over(b.seqs, kv.seqs) \in [Names -> 0..MaxKey \cup {None}]
    BY <2>1, <2>2, OverType
  <2> QED
    BY <1>2, <2>3
<1>5. kv'.dbs \subseteq Dbs /\ kv'.rows \subseteq Names \X Keys
  BY DEF Committed, TypeStore, IsBatch
<1> QED
  BY <1>1, <1>3, <1>4, <1>5 DEF TypeStore

\* WriteBatch keeps the types, whether it commits, is refused or is left unanswered.
LEMMA WriteTypes ==
  ASSUME TypeInv, NEW s \in Sessions, Write(s)
  PROVE  TypeInv'
<1> USE NoneAssumption DEF bounds
<1>1. IsBatch(batch[s]) /\ TypeStore /\ UNCHANGED <<cache, inflight, booted, limit, stmts, faults>>
  BY DEF Write, TypeInv, TypeBatches
<1>2. TypeStore'
  BY <1>1, CommittedTypes DEF Write
<1>3. CASE stmt[s].op \notin Ddl
  BY <1>1, <1>2, <1>3, FinishTypes DEF Write, TypeInv, TypeRest
<1>4. CASE stmt[s].op \in Ddl
  <2>1. pc' = [pc EXCEPT ![s] = "applying"] /\ UNCHANGED <<mu, stmt, need, batch>> /\ pc[s] = "writing"
    BY <1>4 DEF Write
  <2>2. MetasNow' = MetasNow
    BY <1>1 DEF MetasNow
  <2>3. TypePlans' /\ TypeBatches' /\ TypeRest' /\ TypeLocks'
    BY <1>1, <2>1, <2>2 DEF TypeInv, TypePlans, Planned, TypeBatches, IsBatch, TypeRest, TypeLocks
  <2>4. TypeSteps'
    BY <1>1, <1>4, <2>1 DEF TypeInv, TypeSteps
  <2> QED
    BY <1>2, <2>3, <2>4 DEF TypeInv
<1> QED
  BY <1>3, <1>4

\* Changing the cache after the write keeps the types.
LEMMA ApplyTypes ==
  ASSUME TypeInv, NEW s \in Sessions, Apply(s)
  PROVE  TypeInv'
<1> USE NoneAssumption DEF bounds
<1>1. stmt[s] \in Plans /\ stmt[s].op \in Ddl
  BY HasPlan DEF Apply, TypeInv, TypeSteps
<1>2. UNCHANGED <<kv, inflight, booted, limit, stmts, faults>> /\ MetasNow' = MetasNow /\ IsBatch(batch[s])
  BY DEF Apply, MetasNow, TypeInv, TypeBatches
<1>3. AppliedDatabases(stmt[s]) \subseteq Dbs
  BY <1>1, PlanFields DEF AppliedDatabases, TypeInv, TypeStore, Ddl
<1>4. AppliedTables(stmt[s], batch[s]) \in [Names -> MetasNow \cup {None}]
  <2>1. cache.tabs \in [Names -> MetasNow \cup {None}]
    BY DEF TypeInv, TypeStore
  <2>2. Over(batch[s].tabs, cache.tabs) \in [Names -> MetasNow \cup {None}]
    BY <1>2, <2>1, OverType DEF IsBatch
  <2> QED
    BY <2>1, <2>2 DEF AppliedTables
<1>5. cache' \in [dbs : SUBSET Dbs, tabs : [Names -> MetasNow \cup {None}]]
  BY <1>3, <1>4 DEF Apply
<1>6. TypeStore'
  BY <1>2, <1>5 DEF TypeInv, TypeStore
<1> QED
  BY <1>2, <1>6, FinishTypes DEF Apply, TypeInv, TypeRest

\* A call that fails ends its statement; a batch without an answer stays in flight.
LEMMA FaultTypes ==
  ASSUME TypeInv, NEW s \in Sessions, CallFails(s) \/ CallUnanswered(s)
  PROVE  TypeInv'
<1>1. Finish(s) /\ UNCHANGED <<kv, cache, booted, limit, stmts>> /\ inflight' \subseteq inflight \cup {batch[s]}
  BY DEF CallFails, CallUnanswered
<1>2. faults' \in 0..MaxFaults
  BY StatementsAssumption DEF CallFails, CallUnanswered, Fault, TypeInv, TypeRest
<1>3. TypeStore'
  BY <1>1 DEF TypeInv, TypeStore, MetasNow
<1> QED
  BY <1>1, <1>2, <1>3, FinishTypes

\* A batch whose call failed commits late.
LEMMA LateCommitTypes ==
  ASSUME TypeInv, LateCommit
  PROVE  TypeInv'
<1> USE DEF session, bounds
<1>1. PICK b \in inflight : kv' = Committed(b) /\ inflight' = inflight \ {b}
  BY DEF LateCommit
<1>2. IsBatch(b) /\ TypeStore
  BY DEF TypeInv, TypeBatches
<1>3. UNCHANGED <<cache, mu, pc, stmt, need, batch, booted, limit, stmts, faults>> /\ MetasNow' = MetasNow
  BY DEF LateCommit, MetasNow
<1>4. TypeStore'
  BY <1>1, <1>2, <1>3, CommittedTypes
<1>5. TypePlans' /\ TypeBatches' /\ TypeRest' /\ TypeLocks' /\ TypeSteps'
  BY <1>1, <1>3 DEF TypeInv, TypePlans, Planned, TypeBatches, IsBatch, TypeRest, TypeLocks, TypeSteps
<1> QED
  BY <1>4, <1>5 DEF TypeInv

\* A restart reloads the catalog from the store.
LEMMA RestartTypes ==
  ASSUME TypeInv, Restart
  PROVE  TypeInv'
<1> USE NoneAssumption
<1>1. /\ pc' = [s \in Sessions |-> "idle"] /\ stmt' = [s \in Sessions |-> None]
      /\ need' = [s \in Sessions |-> <<>>] /\ batch' = [s \in Sessions |-> NoOps]
      /\ mu' = [l \in Locks |-> None]
      /\ UNCHANGED <<kv, inflight, limit, stmts>> /\ MetasNow' = MetasNow
  BY DEF Restart, MetasNow
<1>2. PICK dbs \in SUBSET kv.dbs, seen \in SUBSET Stored :
        booted' = Bootable(dbs, seen) /\ cache' = IF Bootable(dbs, seen) THEN NewCatalog(dbs, seen) ELSE cache
  BY DEF Restart, Delivered
<1>3. NewCatalog(dbs, seen) \in [dbs : SUBSET Dbs, tabs : [Names -> MetasNow \cup {None}]]
  BY DEF NewCatalog, TypeInv, TypeStore
<1>4. cache' \in [dbs : SUBSET Dbs, tabs : [Names -> MetasNow \cup {None}]]
  BY <1>2, <1>3 DEF TypeInv, TypeStore
<1>5. booted' \in BOOLEAN
  BY <1>2 DEF Bootable
<1>6. TypeStore'
  BY <1>1, <1>4 DEF TypeInv, TypeStore
<1>7. TypePlans' /\ TypeSteps'
  BY <1>1 DEF TypePlans, TypeSteps
<1>8. TypeBatches'
  <2>1. ASSUME NEW b, IsBatch(b) PROVE IsBatch(b)'
    BY <1>1, <2>1 DEF IsBatch
  <2>2. \A b \in inflight' : IsBatch(b)'
    BY <1>1, <2>1 DEF TypeInv, TypeBatches
  <2>3. \A s \in Sessions : batch'[s] = NoOps
    BY <1>1
  <2> QED
    BY <2>1, <2>2, <2>3, NoOpsIsBatch DEF TypeBatches
<1>9. TypeLocks'
  BY <1>1 DEF TypeLocks
<1>10. faults' \in 0..MaxFaults
  BY StatementsAssumption DEF Restart, Fault, TypeInv, TypeRest
<1>11. TypeRest'
  BY <1>1, <1>5, <1>10 DEF TypeInv, TypeRest
<1> QED
  BY <1>6, <1>7, <1>8, <1>9, <1>11 DEF TypeInv

\* Every step keeps the types.
LEMMA TypeStep == TypeInv /\ [Next]_vars => TypeInv'
<1> SUFFICES ASSUME TypeInv, [Next]_vars PROVE TypeInv'
  OBVIOUS
<1>1. CASE UNCHANGED vars
  <2>1. UNCHANGED <<kv, cache, mu, pc, stmt, need, batch, inflight, booted, limit, stmts, faults>> /\ MetasNow' = MetasNow
    BY <1>1 DEF vars, MetasNow
  <2> QED
    BY <2>1 DEF TypeInv, TypeStore, TypePlans, Planned, TypeSteps, TypeBatches, IsBatch, TypeLocks, TypeRest
<1> QED
  BY <1>1, PlanTypes, AcquireTypes, BuildTypes, WriteTypes, ApplyTypes, FaultTypes, LateCommitTypes, RestartTypes DEF Next

\* The store, the cache, the locks and the plans keep their types, and a session
\* carries a plan exactly while its statement is executed.
THEOREM TypeCorrect == Spec => []TypeOK
<1>1. TypeInv => TypeOK
  <2> SUFFICES ASSUME TypeInv PROVE TypeOK
    OBVIOUS
  <2>1. MetasNow \subseteq Metas
    BY DEF MetasNow
  <2>2. /\ kv.dbs \subseteq Dbs /\ kv.tabs \in [Names -> Metas \cup {None}]
        /\ kv.seqs \in [Names -> 0..MaxKey \cup {None}] /\ kv.rows \subseteq Names \X Keys
        /\ cache.dbs \subseteq Dbs /\ cache.tabs \in [Names -> Metas \cup {None}]
    BY <2>1 DEF TypeInv, TypeStore
  <2> QED
    BY <2>2 DEF TypeInv, TypePlans, TypeSteps, TypeLocks, TypeRest, TypeOK
<1> QED
  BY <1>1, InitTypes, TypeStep, PTL DEF Spec

------------------------------------------------------------------------------
(* Locks *)

\* What other sessions do with their locks does not matter to a session.
LEMMA OtherLocks ==
  ASSUME TypeInv, NEW t \in Sessions, LocksHeld(t),
         pc'[t] = pc[t], stmt'[t] = stmt[t], need'[t] = need[t], \A l \in Locks : (mu'[l] = t) <=> (mu[l] = t)
  PROVE  LocksHeld(t)'
<1>1. CASE pc[t] = "idle"
  BY <1>1 DEF LocksHeld
<1>2. CASE pc[t] # "idle"
  <2>1. LocksOf(t)
    BY <1>2 DEF LocksHeld
  <2>2. \A i \in 1..Len(need[t]) : need[t][i] \in Locks
    BY DEF TypeInv, TypeLocks
  <2>3. \A n \in Names : (mu'[n] = t) <=> (mu[n] = t)
    BY LockKinds
  <2>4. ((mu'[InsertMu] = t) <=> (mu[InsertMu] = t)) /\ ((mu'[SequenceMu] = t) <=> (mu[SequenceMu] = t))
    BY LockKinds
  <2>5. TableLocks(stmt[t])' = TableLocks(stmt[t])
    BY DEF TableLocks
  <2>6. TableLocks(stmt[t]) \subseteq Names
    BY <1>2, HasPlan, PlanFields DEF TableLocks, Ddl
  <2>7. LocksOf(t)'
    BY <2>1, <2>2, <2>3, <2>4, <2>5, <2>6 DEF LocksOf
  <2> QED
    BY <1>2, <2>7 DEF LocksHeld
<1> QED
  BY <1>1, <1>2

\* No lock is held at the start.
LEMMA InitLocks == Init => LocksKept
  BY NoneAssumption DEF Init, LocksKept, LocksHeld

\* A statement returns and gives up all of its locks.
LEMMA FinishLocks ==
  ASSUME TypeInv, LocksKept, NEW s \in Sessions, Finish(s)
  PROVE  LocksKept'
<1> USE NoneAssumption
<1>1. LocksHeld(s)'
  BY DEF Finish, LocksHeld, TypeInv, TypeSteps, TypeLocks
<1>2. ASSUME NEW t \in Sessions, t # s PROVE LocksHeld(t)'
  <2>1. pc'[t] = pc[t] /\ stmt'[t] = stmt[t] /\ need'[t] = need[t] /\ \A l \in Locks : (mu'[l] = t) <=> (mu[l] = t)
    BY <1>2 DEF Finish, TypeInv, TypeSteps, TypeLocks, TypePlans
  <2> QED
    BY <2>1, OtherLocks DEF LocksKept
<1> QED
  BY <1>1, <1>2 DEF LocksKept

\* The tables that a plan locks, and that nobody takes InsertMu or SequenceMu for.
LEMMA PlanLocks ==
  ASSUME TypeInv, LocksKept, NEW s \in Sessions, PlanStatement(s)
  PROVE  LocksKept'
<1> USE NoneAssumption
<1>1. PICK p \in Plans, locks \in Seq(Locks) : Plan(s, p, locks) /\ NewPlan(p, locks) /\ Planned(p)'
  BY PlansAreMade
<1>2. pc[s] = "idle" /\ \A l \in Locks : mu[l] # s
  BY DEF PlanStatement, LocksKept, LocksHeld
<1>3. mu' = mu /\ pc'[s] = "locking" /\ stmt'[s] = p /\ need'[s] = locks
  BY <1>1 DEF Plan, TypeInv, TypeSteps, TypePlans, TypeLocks
<1>4. ASSUME NEW t \in Sessions, t # s PROVE LocksHeld(t)'
  <2>1. pc'[t] = pc[t] /\ stmt'[t] = stmt[t] /\ need'[t] = need[t]
    BY <1>1, <1>4 DEF Plan, TypeInv, TypeSteps, TypeLocks, TypePlans
  <2> QED
    BY <1>3, <2>1, OtherLocks DEF LocksKept
<1>5. p.op = "rename" => p.name # p.to
  BY <1>1 DEF Planned
<1>6. TableLocks(p) \subseteq Names
  BY PlanFields DEF TableLocks, Ddl
<1>7. \A i \in 1..Len(locks) : locks[i] \in Locks /\ mu[locks[i]] # s
  BY <1>2
<1>8. \A n \in Names : mu[n] # s
  BY <1>2, LockKinds
<1>9. mu[InsertMu] # s /\ mu[SequenceMu] # s
  BY <1>2, LockKinds
<1> DEFINE Ordered ==
             /\ \A i, j \in 1..Len(locks) : i # j => locks[i] # locks[j]
             /\ \A i \in 1..Len(locks) :
                  /\ locks[i] = SequenceMu => i = Len(locks) /\ p.op # "insert"
                  /\ locks[i] = InsertMu => i = 1 /\ p.op = "insert"
                  /\ locks[i] \in Names => locks[i] \in TableLocks(p)
             /\ \A n \in TableLocks(p) : \E i \in 1..Len(locks) : locks[i] = n
<1>10. Ordered
  <2>1. CASE locks = <<>> /\ p.op \in {"create_db", "create"}
    BY <2>1 DEF TableLocks
  <2>2. CASE p.op = "drop_db" /\ locks \in SetToSeqs(p.tables)
    <3>1. p.tables \subseteq Names /\ TableLocks(p) = p.tables
      BY <2>2, PlanFields DEF TableLocks
    <3>2. IsFiniteSet(p.tables)
      BY <3>1, NamesFinite, FS_Subset
    <3>3. /\ locks \in Seq(p.tables)
          /\ \A i, j \in 1..Len(locks) : i # j => locks[i] # locks[j]
          /\ \A x \in p.tables : \E i \in 1..Len(locks) : locks[i] = x
      BY <2>2, <3>2, OrdersOf
    <3>4. \A i \in 1..Len(locks) : locks[i] \in Names /\ locks[i] \in p.tables
      BY <3>1, <3>3
    <3> QED
      BY <3>1, <3>3, <3>4, LockKinds
  <2>3. CASE locks = <<p.name>> /\ p.op \in {"drop", "alter", "update", "delete"}
    <3>1. Len(locks) = 1 /\ locks[1] = p.name /\ p.name \in Names /\ TableLocks(p) = {p.name}
      BY <2>3, PlanFields DEF TableLocks
    <3> QED
      BY <3>1, LockKinds
  <2>4. CASE locks = <<p.name, p.to, SequenceMu>> /\ p.op = "rename"
    <3>1. /\ Len(locks) = 3 /\ locks[1] = p.name /\ locks[2] = p.to /\ locks[3] = SequenceMu
          /\ p.name \in Names /\ p.to \in Names /\ TableLocks(p) = {p.name, p.to}
      BY <2>4, PlanFields DEF TableLocks
    <3> QED
      BY <1>5, <2>4, <3>1, LockKinds
  <2>5. CASE locks = <<InsertMu, p.name>> /\ p.op = "insert"
    <3>1. /\ Len(locks) = 2 /\ locks[1] = InsertMu /\ locks[2] = p.name
          /\ p.name \in Names /\ TableLocks(p) = {p.name}
      BY <2>5, PlanFields DEF TableLocks
    <3> QED
      BY <2>5, <3>1, LockKinds
  <2> QED
    BY <1>1, <2>1, <2>2, <2>3, <2>4, <2>5 DEF NewPlan
<1>11. LocksOf(s)'
  <2>1. TableLocks(stmt[s])' = TableLocks(p)
    BY <1>3 DEF TableLocks
  <2> QED
    BY <1>3, <1>6, <1>7, <1>8, <1>9, <1>10, <2>1 DEF LocksOf
<1>12. LocksHeld(s)'
  BY <1>3, <1>11 DEF LocksHeld
<1> QED
  BY <1>4, <1>12 DEF LocksKept

\* A session takes the first of the locks it needs, when nobody holds it.
LEMMA AcquireLocks ==
  ASSUME TypeInv, LocksKept, NEW s \in Sessions, Acquire(s)
  PROVE  LocksKept'
<1> USE NoneAssumption
<1> DEFINE q == need[s]
           l == Head(q)
<1>1. pc[s] \in {"locking", "checked"} /\ q \in Seq(Locks) /\ q # <<>> /\ mu[l] = None
  BY DEF Acquire, TypeInv, TypeLocks
<1>2. /\ Len(q) \in Nat /\ Len(q) >= 1 /\ l = q[1] /\ l \in Locks /\ Len(Tail(q)) = Len(q) - 1
      /\ \A i \in 1..Len(Tail(q)) : Tail(q)[i] = q[i+1]
  BY <1>1, HeadTailProperties
<1>3. /\ mu'[l] = s /\ (\A k \in Locks : k # l => mu'[k] = mu[k])
      /\ need'[s] = Tail(q) /\ UNCHANGED <<pc, stmt>>
  BY <1>2 DEF Acquire, TypeInv, TypeLocks
<1>4. ASSUME NEW t \in Sessions, t # s PROVE LocksHeld(t)'
  <2>1. pc'[t] = pc[t] /\ stmt'[t] = stmt[t] /\ need'[t] = need[t]
    BY <1>3, <1>4 DEF Acquire, TypeInv, TypeLocks
  <2>2. \A k \in Locks : (mu'[k] = t) <=> (mu[k] = t)
    BY <1>1, <1>3, <1>4
  <2> QED
    BY <2>1, <2>2, OtherLocks DEF LocksKept
<1>5. LocksOf(s)
  BY <1>1 DEF LocksKept, LocksHeld
<1>6. LocksOf(s)'
  <2> DEFINE r == Tail(q)
  <2>1. need'[s] = r /\ Len(r) \in Nat /\ Len(r) + 1 = Len(q) /\ \A i \in 1..Len(r) : r[i] = q[i+1] /\ i+1 \in 1..Len(q)
    BY <1>2, <1>3
  <2>2. TableLocks(stmt[s])' = TableLocks(stmt[s]) /\ TableLocks(stmt[s]) \subseteq Names
    BY <1>1, <1>3, HasPlan, PlanFields DEF TableLocks, Ddl
  <2>3. \A i \in 1..Len(q) : q[i] \in Locks
    BY <1>1
  <2>4. 1 \in 1..Len(q)
    BY <1>2
  <2> HIDE DEF q, l, r
  <2>5. /\ \A i, j \in 1..Len(q) : i # j => q[i] # q[j]
        /\ \A i \in 1..Len(q) :
             /\ mu[q[i]] # s
             /\ q[i] = SequenceMu => i = Len(q) /\ (stmt[s].op = "insert" => pc[s] = "checked")
             /\ q[i] = InsertMu => i = 1 /\ stmt[s].op = "insert" /\ pc[s] = "locking" /\ \A n \in Names : mu[n] # s
             /\ q[i] \in Names => q[i] \in TableLocks(stmt[s]) /\ pc[s] = "locking"
    BY <1>5 DEF LocksOf, q
  <2>6. \A i, j \in 1..Len(r) : i # j => r[i] # r[j]
    BY <2>1, <2>5
  <2>7. ASSUME NEW i \in 1..Len(r)
        PROVE  /\ mu'[r[i]] # s
               /\ r[i] = SequenceMu => i = Len(r) /\ (stmt[s].op = "insert" => pc[s] = "checked")
               /\ r[i] # InsertMu
               /\ r[i] \in Names => r[i] \in TableLocks(stmt[s]) /\ pc[s] = "locking"
    <3>1. i+1 \in 1..Len(q) /\ r[i] = q[i+1] /\ i+1 # 1 /\ r[i] \in Locks
      BY <2>1, <2>3
    <3>2. r[i] # l
      BY <1>2, <2>4, <2>5, <3>1
    <3> QED
      BY <1>3, <2>1, <2>5, <3>1, <3>2
  <2>8. mu[InsertMu] = s \/ l = InsertMu => stmt[s].op = "insert"
    BY <1>2, <1>5, <2>4, <2>5 DEF LocksOf
  <2>9. mu[SequenceMu] # s
    BY <1>1, <1>5 DEF LocksOf, q
  <2>10. l = SequenceMu => r = <<>> /\ (stmt[s].op = "insert" => pc[s] # "locking")
    <3>1. PICK k \in Nat, j \in Nat : k = Len(r) /\ j = Len(q)
      BY <1>2, <2>1
    <3>2. k + 1 = j
      BY <2>1, <3>1
    <3>3. q[1] = SequenceMu => 1 = j /\ (stmt[s].op = "insert" => pc[s] = "checked")
      BY <2>4, <2>5, <3>1
    <3>4. 1 = j => k < 1
      BY <3>2
    <3>5. k < 1 => r = <<>>
      BY <1>1, <3>1, EmptySeq, HeadTailProperties DEF r
    <3> QED
      BY <1>2, <3>3, <3>4, <3>5
  <2>11. \A n \in Names : mu'[n] = s => n \in TableLocks(stmt[s])
    <3>1. l \in Names => l \in TableLocks(stmt[s])
      BY <1>2, <2>4, <2>5
    <3>2. \A n \in Names : mu[n] = s => n \in TableLocks(stmt[s])
      BY <1>5 DEF LocksOf
    <3> QED
      BY <1>3, <3>1, <3>2, LockKinds
  <2>12. ASSUME NEW n \in TableLocks(stmt[s]) PROVE mu'[n] = s \/ \E i \in 1..Len(r) : r[i] = n
    <3>1. n \in Locks
      BY <2>2, LockKinds
    <3>2. mu[n] = s \/ \E i \in 1..Len(q) : q[i] = n
      BY <1>5 DEF LocksOf, q
    <3>3. CASE mu[n] = s
      BY <1>1, <1>3, <3>1, <3>3
    <3>4. ASSUME NEW i \in 1..Len(q), q[i] = n PROVE mu'[n] = s \/ \E j \in 1..Len(r) : r[j] = n
      <4>1. CASE i = 1
        BY <1>2, <1>3, <3>4, <4>1
      <4>2. CASE i # 1
        <5>1. i - 1 \in 1..Len(r) /\ (i - 1) + 1 = i
          BY <2>1, <4>2
        <5> QED
          BY <2>1, <3>4, <5>1
      <4> QED
        BY <4>1, <4>2
    <3> QED
      BY <3>2, <3>3, <3>4
  <2>13. mu'[InsertMu] = s => stmt[s].op = "insert"
    BY <1>3, <2>8, LockKinds
  <2>14. mu'[SequenceMu] = s => r = <<>> /\ (stmt[s].op = "insert" => pc[s] # "locking")
    BY <1>3, <2>9, <2>10, LockKinds
  <2>15. pc'[s] = pc[s] /\ stmt'[s] = stmt[s] /\ (pc[s] \in {"writing", "applying"} => r = <<>>)
    BY <1>1, <1>3
  <2> QED
    BY <2>1, <2>2, <2>6, <2>7, <2>11, <2>12, <2>13, <2>14, <2>15, SMTT(30) DEF LocksOf
<1>7. LocksHeld(s)'
  BY <1>1, <1>3, <1>6 DEF LocksHeld
<1> QED
  BY <1>4, <1>7 DEF LocksKept

\* A step that changes neither the locks nor the plans, and lets a session that
\* has all of its locks go on.
LEMMA StepLocks ==
  ASSUME TypeInv, LocksKept, NEW s \in Sessions, pc[s] # "idle", need[s] = <<>>, pc' = [pc EXCEPT ![s] = pc'[s]],
         pc'[s] \in {"checked", "writing", "applying"}, UNCHANGED <<mu, stmt, need>>
  PROVE  LocksKept'
<1>1. ASSUME NEW t \in Sessions, t # s PROVE LocksHeld(t)'
  <2>1. pc'[t] = pc[t]
    BY <1>1 DEF TypeInv, TypeSteps
  <2> QED
    BY <2>1, OtherLocks DEF LocksKept
<1>2. LocksOf(s)
  BY DEF LocksKept, LocksHeld
<1>3. LocksOf(s)'
  <2>1. Len(need[s]) = 0 /\ need'[s] = <<>>
    BY EmptySeq
  <2> QED
    BY <1>2, <2>1 DEF LocksOf, TableLocks
<1>4. LocksHeld(s)'
  BY <1>3 DEF LocksHeld
<1> QED
  BY <1>1, <1>4 DEF LocksKept

\* INSERT asks for sequenceMu when its other locks are held.
LEMMA CheckLocks ==
  ASSUME TypeInv, LocksKept, NEW s \in Sessions, InsertCheck(s)
  PROVE  LocksKept'
<1>1. CASE ~StillThere(stmt[s].name)
  BY <1>1, FinishLocks DEF InsertCheck, Reject
<1>2. CASE StillThere(stmt[s].name)
  <2>1. /\ pc' = [pc EXCEPT ![s] = "checked"]
        /\ need' = [need EXCEPT ![s] = IF stmt[s].meta.snow THEN <<SequenceMu>> ELSE <<>>]
        /\ UNCHANGED <<mu, stmt>>
        /\ pc[s] = "locking" /\ stmt[s].op = "insert" /\ need[s] = <<>>
    BY <1>2 DEF InsertCheck, Ready
  <2>2. ASSUME NEW t \in Sessions, t # s PROVE LocksHeld(t)'
    <3>1. pc'[t] = pc[t] /\ need'[t] = need[t]
      BY <2>1, <2>2 DEF TypeInv, TypeSteps, TypeLocks
    <3> QED
      BY <2>1, <3>1, OtherLocks DEF LocksKept
  <2>3. LocksOf(s)
    BY <2>1 DEF LocksKept, LocksHeld
  <2>4. pc'[s] = "checked" /\ (need'[s] = <<>> \/ need'[s] = <<SequenceMu>>)
    BY <2>1 DEF TypeInv, TypeSteps, TypeLocks
  <2>5. Len(need[s]) = 0 /\ mu[SequenceMu] # s
    BY <2>1, <2>3, EmptySeq DEF LocksOf
  <2>6. /\ mu[InsertMu] = s => stmt[s].op = "insert"
        /\ \A n \in Names : mu[n] = s => n \in TableLocks(stmt[s])
        /\ \A n \in TableLocks(stmt[s]) : mu[n] = s
    BY <2>3, <2>5 DEF LocksOf
  <2>7. LocksOf(s)'
    <3>1. CASE need'[s] = <<>>
      <4>1. Len(need'[s]) = 0
        BY <3>1
      <4> QED
        BY <2>1, <2>4, <2>5, <2>6, <3>1, <4>1 DEF LocksOf, TableLocks
    <3>2. CASE need'[s] = <<SequenceMu>>
      <4>1. Len(need'[s]) = 1 /\ need'[s][1] = SequenceMu
        BY <3>2
      <4> QED
        BY <2>1, <2>4, <2>5, <2>6, <4>1, LockKinds DEF LocksOf, TableLocks
    <3> QED
      BY <2>4, <3>1, <3>2
  <2>8. LocksHeld(s)'
    BY <2>4, <2>7 DEF LocksHeld
  <2> QED
    BY <2>2, <2>8 DEF LocksKept
<1> QED
  BY <1>1, <1>2

\* INSERT ... SELECT keeps the locks it has.
LEMMA SelectLocks ==
  ASSUME TypeInv, LocksKept, NEW s \in Sessions, InsertSelectSource(s)
  PROVE  LocksKept'
<1>1. pc[s] = "locking" /\ stmt[s].op = "insert" /\ need[s] = <<>> /\ UNCHANGED <<mu, pc, need>>
  BY DEF InsertSelectSource, Ready
<1>2. stmt' = [stmt EXCEPT ![s].keys = Scanned(stmt[s].source), ![s].source = None]
  BY DEF InsertSelectSource
<1>3. stmt'[s].op = stmt[s].op /\ stmt'[s].name = stmt[s].name
  <2>1. stmt[s] \in [op : {"insert"}, name : Names, meta : Metas, keys : SUBSET Keys, source : Names \cup {None}]
    BY <1>1, HasPlan DEF Plans
  <2> QED
    BY <1>2, <2>1 DEF TypeInv, TypePlans
<1>4. ASSUME NEW t \in Sessions, t # s PROVE LocksHeld(t)'
  <2>1. stmt'[t] = stmt[t]
    BY <1>2, <1>4 DEF TypeInv, TypePlans
  <2> QED
    BY <1>1, <2>1, OtherLocks DEF LocksKept
<1>5. LocksOf(s)
  BY <1>1 DEF LocksKept, LocksHeld
<1>6. TableLocks(stmt[s])' = TableLocks(stmt[s])
  BY <1>1, <1>3 DEF TableLocks
<1>7. LocksOf(s)'
  <2>1. Len(need[s]) = 0
    BY <1>1, EmptySeq
  <2> QED
    BY <1>1, <1>3, <1>5, <1>6, <2>1 DEF LocksOf
<1>8. LocksHeld(s)'
  BY <1>1, <1>7 DEF LocksHeld
<1> QED
  BY <1>4, <1>8 DEF LocksKept

\* The nine kinds of Build that send a batch do it with all locks taken.
LEMMA BuildSends ==
  ASSUME TypeInv, NEW s \in Sessions, Build(s), ~InsertSelectSource(s), ~InsertCheck(s)
  PROVE  /\ pc[s] \in {"locking", "checked"} /\ need[s] = <<>>
         /\ Reject(s) \/ \E b, found : Send(s, b, found)
  BY DEF Build, BuildCreateDatabase, BuildDropDatabase, BuildCreateTable, BuildDropTable, BuildAlterTable,
         BuildRenameTable, BuildInsert, BuildUpdate, BuildDelete, Ready

\* Every step keeps the discipline of the locks.
LEMMA LocksStep == TypeInv /\ LocksKept /\ [Next]_vars => LocksKept'
<1> SUFFICES ASSUME TypeInv, LocksKept, [Next]_vars PROVE LocksKept'
  OBVIOUS
<1>1. ASSUME UNCHANGED <<pc, stmt, need, mu>> PROVE LocksKept'
  <2>1. ASSUME NEW t \in Sessions PROVE LocksHeld(t)'
    BY <1>1, OtherLocks DEF LocksKept
  <2> QED
    BY <2>1 DEF LocksKept
<1>2. ASSUME NEW s \in Sessions, Build(s) PROVE LocksKept'
  <2>1. CASE InsertSelectSource(s) \/ InsertCheck(s)
    BY <2>1, SelectLocks, CheckLocks
  <2>2. CASE Reject(s)
    BY <2>2, FinishLocks DEF Reject
  <2>3. ASSUME NEW b, NEW found, Send(s, b, found), pc[s] # "idle", need[s] = <<>> PROVE LocksKept'
    <3>1. pc' = [pc EXCEPT ![s] = "writing"] /\ UNCHANGED <<mu, stmt, need>> /\ pc'[s] = "writing"
      BY <2>3 DEF Send, TypeInv, TypeSteps
    <3> QED
      BY <2>3, <3>1, StepLocks
  <2> QED
    BY <1>2, <2>1, <2>2, <2>3, BuildSends
<1>3. ASSUME NEW s \in Sessions, Write(s) PROVE LocksKept'
  <2>1. CASE stmt[s].op \notin Ddl
    BY <1>3, <2>1, FinishLocks DEF Write
  <2>2. CASE stmt[s].op \in Ddl
    <3>1. pc' = [pc EXCEPT ![s] = "applying"] /\ UNCHANGED <<mu, stmt, need>> /\ pc'[s] = "applying" /\ pc[s] = "writing"
      BY <1>3, <2>2 DEF Write, TypeInv, TypeSteps
    <3>2. need[s] = <<>>
      BY <3>1 DEF LocksKept, LocksHeld, LocksOf
    <3> QED
      BY <3>1, <3>2, StepLocks
  <2> QED
    BY <2>1, <2>2
<1>4. ASSUME NEW s \in Sessions, Apply(s) \/ CallFails(s) \/ CallUnanswered(s) PROVE LocksKept'
  BY <1>4, FinishLocks DEF Apply, CallFails, CallUnanswered
<1>5. CASE LateCommit
  BY <1>1, <1>5 DEF LateCommit, session
<1>6. CASE Restart
  BY <1>6, NoneAssumption DEF Restart, LocksKept, LocksHeld
<1> QED
  BY <1>1, <1>2, <1>3, <1>4, <1>5, <1>6, PlanLocks, AcquireLocks DEF Next, vars

\* A set with two different elements has at least two.
LEMMA TwoElements ==
  ASSUME NEW T, IsFiniteSet(T), NEW x \in T, NEW y \in T, x # y
  PROVE  Cardinality(T) >= 2 /\ Cardinality(T) \in Nat
<1>1. Cardinality(T) \in Nat
  BY FS_CardinalityType
<1>2. IsFiniteSet(T \ {x}) /\ Cardinality(T \ {x}) = Cardinality(T) - 1 /\ y \in T \ {x}
  BY FS_RemoveElement
<1>3. Cardinality((T \ {x}) \ {y}) = Cardinality(T \ {x}) - 1 /\ IsFiniteSet((T \ {x}) \ {y})
  BY <1>2, FS_RemoveElement
<1>4. Cardinality((T \ {x}) \ {y}) \in Nat
  BY <1>3, FS_CardinalityType
<1> QED
  BY <1>1, <1>2, <1>3, <1>4

\* A session that waits has not come to its batch, and holds neither sequenceMu
\* nor the lock it waits for.
LEMMA Waiting ==
  ASSUME TypeInv, LocksKept, NEW s \in Sessions, need[s] # <<>>
  PROVE  /\ pc[s] # "idle" /\ stmt[s] \in Plans /\ Head(need[s]) \in Locks
         /\ mu[SequenceMu] # s /\ mu[Head(need[s])] # s
         /\ mu[InsertMu] = s => stmt[s].op = "insert"
         /\ Head(need[s]) = InsertMu => \A n \in Names : mu[n] # s
         /\ Head(need[s]) \in Names => Head(need[s]) \in TableLocks(stmt[s])
         /\ \A n \in Names : mu[n] = s => n \in TableLocks(stmt[s])
<1>1. need[s] \in Seq(Locks)
  BY DEF TypeInv, TypeLocks
<1>2. Head(need[s]) = need[s][1] /\ 1 \in 1..Len(need[s]) /\ Head(need[s]) \in Locks
  BY <1>1, HeadTailProperties
<1>3. pc[s] # "idle" /\ LocksOf(s)
  BY DEF LocksKept, LocksHeld
<1>4. stmt[s] \in Plans
  BY <1>3, HasPlan
<1> QED
  BY <1>2, <1>3, <1>4 DEF LocksOf

\* Whoever holds a table and waits, waits for another one, and so has a plan with
\* several tables.
LEMMA HolderWaitsForTable ==
  ASSUME TypeInv, LocksKept, NEW w \in SUBSET Sessions, Cycle(w), NEW t \in w, NEW n \in Names, mu[n] = t
  PROVE  /\ ManyTables(stmt[t])
         /\ Head(need[t]) \in Names /\ mu[Head(need[t])] \in w /\ mu[Head(need[t])] # t
<1> USE NoneAssumption
<1>1. t \in Sessions /\ need[t] # <<>>
  BY DEF Cycle, Waits
<1>2. /\ stmt[t] \in Plans /\ Head(need[t]) \in Locks
      /\ mu[Head(need[t])] # t /\ n \in TableLocks(stmt[t])
      /\ Head(need[t]) \in Names => Head(need[t]) \in TableLocks(stmt[t])
      /\ Head(need[t]) # InsertMu
  BY <1>1, Waiting
<1>3. mu[Head(need[t])] \in w
  BY DEF Cycle, Waits
<1>4. Head(need[t]) # SequenceMu
  BY <1>3, Waiting DEF Cycle, Waits
<1>5. Head(need[t]) \in Names /\ Head(need[t]) # n /\ Head(need[t]) \in TableLocks(stmt[t])
  BY <1>2, <1>4 DEF Locks
<1>6. PICK m : m = Head(need[t])
  OBVIOUS
<1>7. stmt[t].op = "rename" \/ (stmt[t].op = "drop_db" /\ n \in stmt[t].tables /\ m \in stmt[t].tables /\ m # n)
  BY <1>2, <1>5, <1>6, PlanFields DEF TableLocks, Ddl
<1>8. stmt[t].op = "drop_db" => Cardinality(stmt[t].tables) > 1
  <2> SUFFICES ASSUME stmt[t].op = "drop_db" PROVE Cardinality(stmt[t].tables) > 1
    OBVIOUS
  <2> DEFINE T == stmt[t].tables
  <2>1. IsFiniteSet(T) /\ n \in T /\ m \in T /\ m # n
    BY <1>2, <1>7, PlanFields, NamesFinite, FS_Subset
  <2> HIDE DEF T
  <2>2. Cardinality(T) >= 2 /\ Cardinality(T) \in Nat
    BY <2>1, TwoElements
  <2>3. Cardinality(T) > 1
    BY <2>2
  <2> QED
    BY <2>3 DEF T
<1> QED
  BY <1>2, <1>3, <1>5, <1>7, <1>8 DEF ManyTables

\* insertMu and sequenceMu add no deadlock: the sessions of a cycle include two
\* that hold one table and wait for another, and these are RENAME or DROP
\* DATABASE statements with several tables.
THEOREM DeadlocksNeedRenameOrDrop == Spec => []DeadlocksNeedTwo
<1>1. TypeInv /\ LocksKept => DeadlocksNeedTwo
  <2> USE NoneAssumption
  <2> SUFFICES ASSUME TypeInv, LocksKept, NEW w \in SUBSET Sessions, Cycle(w)
               PROVE  Cardinality({s \in w : ManyTables(stmt[s])}) >= 2
    BY DEF DeadlocksNeedTwo
  <2>1. PICK s \in w : TRUE
    BY DEF Cycle
  <2>2. \E t \in w : need[t] # <<>> /\ Head(need[t]) \in Names
    <3>1. need[s] # <<>> /\ mu[Head(need[s])] \in w
      BY DEF Cycle, Waits
    <3>2. Head(need[s]) \in Locks /\ Head(need[s]) # SequenceMu
      BY <3>1, Waiting DEF Cycle, Waits
    <3>3. CASE Head(need[s]) \in Names
      BY <3>1, <3>3
    <3>4. CASE Head(need[s]) = InsertMu
      <4>1. PICK t \in w : t = mu[InsertMu]
        BY <3>1, <3>4
      <4>2. need[t] # <<>> /\ mu[Head(need[t])] \in w
        BY DEF Cycle, Waits
      <4>3. Head(need[t]) \in Locks /\ Head(need[t]) # SequenceMu /\ Head(need[t]) # InsertMu
        BY <4>1, <4>2, Waiting DEF Cycle, Waits
      <4> QED
        BY <4>2, <4>3 DEF Locks
    <3> QED
      BY <3>2, <3>3, <3>4 DEF Locks
  <2>3. PICK t \in w : need[t] # <<>> /\ Head(need[t]) \in Names
    BY <2>2
  <2>4. PICK n, u : n = Head(need[t]) /\ u = mu[n]
    OBVIOUS
  <2>5. n \in Names /\ u \in w /\ mu[n] = u
    BY <2>3, <2>4 DEF Cycle, Waits
  <2>6. ManyTables(stmt[u]) /\ Head(need[u]) \in Names /\ mu[Head(need[u])] \in w /\ mu[Head(need[u])] # u
    BY <2>5, HolderWaitsForTable
  <2>7. PICK m, v : m = Head(need[u]) /\ v = mu[m]
    OBVIOUS
  <2>8. m \in Names /\ v \in w /\ mu[m] = v /\ v # u
    BY <2>6, <2>7
  <2>9. ManyTables(stmt[v])
    BY <2>8, HolderWaitsForTable
  <2> DEFINE M == {x \in w : ManyTables(stmt[x])}
  <2>10. IsFiniteSet(M) /\ u \in M /\ v \in M
    BY <2>5, <2>6, <2>8, <2>9, StatementsAssumption, FS_Subset
  <2> HIDE DEF M
  <2>11. Cardinality(M) >= 2
    BY <2>8, <2>10, TwoElements
  <2> QED
    BY <2>11 DEF M
<1>2. Init => TypeInv /\ LocksKept
  BY InitTypes, InitLocks
<1>3. TypeInv /\ LocksKept /\ [Next]_vars => (TypeInv /\ LocksKept)'
  BY TypeStep, LocksStep
<1> QED
  BY <1>1, <1>2, <1>3, PTL DEF Spec

------------------------------------------------------------------------------
(* The batches that statements put together *)

\* What a statement knows of its table and counters when it has put b together.
CountersRead(p, b) ==
  /\ p.op = "rename" => b.seqs = RenamedSeq(p.name, p.to)
  /\ p.op = "insert" /\ p.meta.snow =>
       /\ b.seqs[p.name] \in 0..MaxKey /\ Sequence(p.name) <= b.seqs[p.name]
       /\ \A r \in b.puts : r[2] <= b.seqs[p.name]
\* The batch b, with what its scans found, is sent: it follows the plan and what was read.
Put(s, b, found) ==
  /\ Send(s, b, found) /\ PlannedBatch(stmt[s], b) /\ RowsRead(stmt[s], b, found) /\ CountersRead(stmt[s], b)
  /\ stmt[s].op = "insert" => pc[s] = "checked"
  /\ stmt[s].op = "update" => TableExists(stmt[s].name) /\ ("scan_cut" \notin found => Balanced(b))

\* What a statement deletes it has scanned.
LEMMA RowsAre ==
  ASSUME TypeInv, NEW n \in Names
  PROVE  /\ Rows(n, Scanned(n)) \subseteq kv.rows /\ \A ks \in SUBSET Scanned(n) : Rows(n, ks) \subseteq kv.rows
         /\ "scan_cut" \notin Cut({n}) => Scanned(n) = RowsOf(n)
<1>1. \A k \in Scanned(n) : <<n, k>> \in kv.rows
  BY DEF Scanned, RowsOf
<1>2. ASSUME NEW ks \in SUBSET Scanned(n) PROVE Rows(n, ks) \subseteq kv.rows
  BY <1>1 DEF Rows
<1>3. "scan_cut" \notin Cut({n}) => Scanned(n) = RowsOf(n)
  BY DEF Cut
<1> QED
  BY <1>2, <1>3

\* Sets of rows are finite.
LEMMA RowsFinite ==
  ASSUME NEW S \in SUBSET (Names \X Keys)
  PROVE  IsFiniteSet(S) /\ Cardinality(S) \in Nat
<1>1. IsFiniteSet(Keys)
  BY KeySets
<1>2. IsFiniteSet(Names \X Keys)
  BY <1>1, NamesFinite, FS_Product
<1> QED
  BY <1>2, FS_Subset, FS_CardinalityType

\* Rows that get different keys, in their table or in another, are as many as before.
LEMMA MovedRows ==
  ASSUME NEW n, NEW m, NEW ks \in SUBSET Keys, NEW g, \A j, k \in ks : g[j] = g[k] => j = k,
         NEW image, image = {g[k] : k \in ks}
  PROVE  Cardinality(Rows(m, image)) = Cardinality(Rows(n, ks))
<1> DEFINE h == [k \in ks |-> <<m, g[k]>>]
           i == [k \in ks |-> <<n, k>>]
<1>1. IsFiniteSet(ks)
  BY KeySets
<1>2. i \in Bijection(ks, Rows(n, ks))
  <2>1. i \in [ks -> Rows(n, ks)] /\ \A j, k \in ks : i[j] = i[k] => j = k
    BY DEF Rows
  <2>2. \A r \in Rows(n, ks) : \E k \in ks : i[k] = r
    BY DEF Rows
  <2> QED
    BY <2>1, <2>2 DEF Bijection, Injection, Surjection, IsInjective
<1>3. h \in Bijection(ks, Rows(m, image))
  <2>1. h \in [ks -> Rows(m, image)]
    BY DEF Rows
  <2>2. \A j, k \in ks : h[j] = h[k] => j = k
    OBVIOUS
  <2>3. \A r \in Rows(m, image) : \E k \in ks : h[k] = r
    BY DEF Rows
  <2> QED
    BY <2>1, <2>2, <2>3 DEF Bijection, Injection, Surjection, IsInjective
<1>4. ExistsBijection(ks, Rows(n, ks)) /\ ExistsBijection(ks, Rows(m, image))
  BY <1>2, <1>3 DEF ExistsBijection
<1> QED
  BY <1>1, <1>4, FS_Bijection

\* An UPDATE that finds no collision puts every moved row where none stays.
LEMMA UpdateBalanced ==
  ASSUME TypeInv, NEW n \in Names, NEW cands \in SUBSET RowsOf(n), NEW set,
         \A k \in cands : set[k] \in Keys, ~Collides(cands, RowsOf(n), set), NEW b,
         b.dels = Rows(n, {k \in cands : set[k] # k}), b.puts = Rows(n, {set[k] : k \in cands})
  PROVE  Balanced(b)
<1> DEFINE moved == {k \in cands : set[k] # k}
           fresh == {set[k] : k \in moved}
<1>1. \A j, k \in cands : set[j] = set[k] => j = k
  <2>1. IsInjective([k \in cands |-> set[k]])
    BY DEF Collides
  <2> QED
    BY <2>1 DEF IsInjective
<1>2. \A k \in moved : set[k] \in RowsOf(n) => set[k] \in moved
  BY DEF Collides
<1>3. moved \in SUBSET Keys
  BY DEF RowsOf
<1>4. \A x : <<n, x>> \in b.dels <=> x \in moved
  BY DEF Rows
<1>5. \A x \in Keys : <<n, x>> \in kv.rows <=> x \in RowsOf(n)
  BY DEF RowsOf
<1>6. Rows(n, fresh) \subseteq b.puts \ (kv.rows \ b.dels)
  <2> SUFFICES ASSUME NEW k \in moved
               PROVE  <<n, set[k]>> \in b.puts /\ (<<n, set[k]>> \in kv.rows => <<n, set[k]>> \in b.dels)
    BY DEF Rows
  <2> QED
    BY <1>2, <1>4, <1>5 DEF Rows
<1>7. b.puts \ (kv.rows \ b.dels) \subseteq Rows(n, fresh)
  <2> SUFFICES ASSUME NEW k \in cands, <<n, set[k]>> \notin kv.rows \/ <<n, set[k]>> \in b.dels
               PROVE  k \in moved
    BY DEF Rows
  <2> QED
    BY <1>4, <1>5 DEF RowsOf
<1>8. Cardinality(Rows(n, fresh)) = Cardinality(Rows(n, moved))
  <2> HIDE DEF moved
  <2>1. \A j, k \in moved : set[j] = set[k] => j = k
    BY <1>1 DEF moved
  <2>2. PICK image : image = fresh
    OBVIOUS
  <2>3. Cardinality(Rows(n, image)) = Cardinality(Rows(n, moved))
    BY <1>3, <2>1, <2>2, MovedRows
  <2> QED
    BY <2>2, <2>3
<1> QED
  BY <1>6, <1>7, <1>8 DEF Balanced

\* Each Build action ends in a batch that follows the plan, or in a rejection: CREATE DATABASE,
LEMMA CreateDatabasePut ==
  ASSUME TypeInv, NEW s \in Sessions, BuildCreateDatabase(s)
  PROVE  \E b, found : Put(s, b, found)
<1> DEFINE p == stmt[s]
           b == BuildCreateDatabaseOps(p.db)
<1>1. p.op = "create_db" /\ Send(s, b, {})
  BY DEF BuildCreateDatabase, Ready
<1>2. PlannedBatch(p, b)
  BY <1>1 DEF PlannedBatch, PlanTabs, PlanSeqs, PlanRows, BuildCreateDatabaseOps, NoOps
<1>3. RowsRead(p, b, {}) /\ CountersRead(p, b)
  BY <1>1 DEF RowsRead, CountersRead, BuildCreateDatabaseOps, NoOps
<1> QED
  BY <1>1, <1>2, <1>3 DEF Put

\* DROP DATABASE,
LEMMA DropDatabasePut ==
  ASSUME TypeInv, NEW s \in Sessions, BuildDropDatabase(s)
  PROVE  \E b, found : Put(s, b, found)
<1> DEFINE p == stmt[s]
           ns == p.tables
           rows == UNION {Rows(n, Scanned(n)) : n \in ns}
           b == [BuildDropDatabaseOps(p.db, ns) EXCEPT !.dels = rows]
<1>1. p.op = "drop_db" /\ pc[s] = "locking" /\ Send(s, b, Cut(ns))
  BY DEF BuildDropDatabase, Ready
<1>2. ns \subseteq Names
  BY <1>1, HasPlan, PlanFields
<1>3. \A r \in rows : r[1] \in ns
  BY DEF Rows
<1>4. rows \subseteq kv.rows
  BY <1>2, RowsAre
<1>5. "scan_cut" \notin Cut(ns) => \A n \in ns : Rows(n, RowsOf(n)) \subseteq rows
  BY DEF Cut
<1> HIDE DEF rows
<1>6. /\ b.newDbs = {} /\ b.oldDbs = {p.db} /\ b.tabs = [n \in ns |-> None] /\ b.seqs = [n \in ns |-> None]
      /\ b.dels = rows /\ b.puts = {}
  BY DEF BuildDropDatabaseOps, NoOps
<1> HIDE DEF b
<1>7. PlannedBatch(p, b)
  BY <1>1, <1>3, <1>6 DEF PlannedBatch, PlanTabs, PlanSeqs, PlanRows, TableLocks
<1>8. RowsRead(p, b, Cut(ns)) /\ CountersRead(p, b)
  BY <1>1, <1>4, <1>5, <1>6 DEF RowsRead, CountersRead
<1> QED
  BY <1>1, <1>7, <1>8 DEF Put

\* CREATE TABLE,
LEMMA CreateTablePut ==
  ASSUME TypeInv, NEW s \in Sessions, BuildCreateTable(s)
  PROVE  Reject(s) \/ \E b, found : Put(s, b, found)
<1> DEFINE p == stmt[s]
           q == IF p.meta.snow THEN One(p.name, 0) ELSE <<>>
           b == [NoOps EXCEPT !.tabs = One(p.name, p.meta), !.seqs = q]
<1>1. p.op = "create" /\ (Send(s, b, {}) \/ Reject(s))
  BY DEF BuildCreateTable, Ready
<1> HIDE DEF q
<1>2. b.newDbs = {} /\ b.oldDbs = {} /\ b.tabs = One(p.name, p.meta) /\ b.seqs = q /\ b.dels = {} /\ b.puts = {}
  BY DEF NoOps
<1> HIDE DEF b
<1>3. PlannedBatch(p, b)
  BY <1>1, <1>2 DEF PlannedBatch, PlanTabs, PlanSeqs, PlanRows, q
<1>4. RowsRead(p, b, {}) /\ CountersRead(p, b)
  BY <1>1, <1>2 DEF RowsRead, CountersRead
<1> QED
  BY <1>1, <1>3, <1>4 DEF Put

\* DROP TABLE,
LEMMA DropTablePut ==
  ASSUME TypeInv, NEW s \in Sessions, BuildDropTable(s)
  PROVE  \E b, found : Put(s, b, found)
<1> DEFINE p == stmt[s]
           n == p.name
           b == [BuildDropTableOps(n) EXCEPT !.dels = Rows(n, Scanned(n))]
<1>1. p.op = "drop" /\ pc[s] = "locking" /\ Send(s, b, Cut({n}))
  BY DEF BuildDropTable, Ready
<1>2. n \in Names
  BY <1>1, HasPlan, PlanFields
<1>3. /\ b.newDbs = {} /\ b.oldDbs = {} /\ b.tabs = One(n, None) /\ b.seqs = One(n, None)
      /\ b.dels = Rows(n, Scanned(n)) /\ b.puts = {}
  BY DEF BuildDropTableOps, NoOps
<1> HIDE DEF b
<1>4. \A r \in Rows(n, Scanned(n)) : r[1] = n
  BY DEF Rows
<1>5. PlannedBatch(p, b)
  BY <1>1, <1>3, <1>4 DEF PlannedBatch, PlanTabs, PlanSeqs, PlanRows, TableLocks
<1>6. RowsRead(p, b, Cut({n})) /\ CountersRead(p, b)
  BY <1>1, <1>2, <1>3, RowsAre DEF RowsRead, CountersRead
<1> QED
  BY <1>1, <1>5, <1>6 DEF Put

\* ALTER TABLE,
LEMMA AlterTablePut ==
  ASSUME TypeInv, NEW s \in Sessions, BuildAlterTable(s)
  PROVE  \E b, found : Put(s, b, found)
<1> DEFINE p == stmt[s]
           new == [p.new EXCEPT !.version = p.meta.version + 1]
           b == BuildAlterTableOps(p.name, p.meta, p.new)
<1>1. p.op = "alter" /\ Send(s, b, {})
  BY DEF BuildAlterTable, Ready
<1>2. b.newDbs = {} /\ b.oldDbs = {} /\ b.tabs = One(p.name, new) /\ b.seqs = <<>> /\ b.dels = {} /\ b.puts = {}
  BY DEF BuildAlterTableOps, NoOps
<1> HIDE DEF b
<1>3. PlannedBatch(p, b)
  BY <1>1, <1>2 DEF PlannedBatch, PlanTabs, PlanSeqs, PlanRows
<1>4. RowsRead(p, b, {}) /\ CountersRead(p, b)
  BY <1>1, <1>2 DEF RowsRead, CountersRead
<1> QED
  BY <1>1, <1>3, <1>4 DEF Put

\* ALTER TABLE ... RENAME,
LEMMA RenameTablePut ==
  ASSUME TypeInv, NEW s \in Sessions, BuildRenameTable(s)
  PROVE  \E b, found : Put(s, b, found)
<1> DEFINE p == stmt[s]
           n == p.name
           m == p.to
           b == [BuildRenameTableOps(n, m, p.meta) EXCEPT !.dels = Rows(n, Scanned(n)), !.puts = Rows(m, Scanned(n))]
<1>1. p.op = "rename" /\ pc[s] = "locking" /\ Send(s, b, Cut({n}))
  BY DEF BuildRenameTable, Ready
<1>2. n \in Names /\ m \in Names
  BY <1>1, HasPlan, PlanFields
<1>3. /\ b.newDbs = {} /\ b.oldDbs = {} /\ b.tabs = Over(One(n, None), One(m, p.meta)) /\ b.seqs = RenamedSeq(n, m)
      /\ b.dels = Rows(n, Scanned(n)) /\ b.puts = Rows(m, Scanned(n))
  BY DEF BuildRenameTableOps, NoOps
<1> HIDE DEF b
<1>4. \A r \in Rows(n, Scanned(n)) \cup Rows(m, Scanned(n)) : r[1] \in {n, m}
  BY DEF Rows
<1>5. Scanned(n) \in SUBSET Keys
  BY ScannedKeys
<1>6. LET q == RenamedSeq(n, m) IN n \in DOMAIN q /\ q[n] = None /\ DOMAIN q \subseteq {n, m}
  BY DEF RenamedSeq, Over, One
<1>7. PlanRows(p, b)
  BY <1>1, <1>3, <1>4, <1>5 DEF PlanRows, TableLocks
<1>8. PlanSeqs(p, b.seqs)
  BY <1>1, <1>3, <1>6 DEF PlanSeqs
<1>9. PlannedBatch(p, b)
  BY <1>1, <1>3, <1>7, <1>8 DEF PlannedBatch, PlanTabs
<1>10. RowsRead(p, b, Cut({n})) /\ CountersRead(p, b)
  BY <1>1, <1>2, <1>3, RowsAre DEF RowsRead, CountersRead
<1> QED
  BY <1>1, <1>9, <1>10 DEF Put

\* INSERT,
LEMMA InsertPut ==
  ASSUME TypeInv, NEW s \in Sessions, BuildInsert(s)
  PROVE  Reject(s) \/ \E b, found : Put(s, b, found)
<1> DEFINE p == stmt[s]
           n == p.name
           last == Sequence(n) + Cardinality(p.keys)
           ks == IF p.meta.snow THEN (Sequence(n) + 1)..last ELSE p.keys
           q == IF p.meta.snow THEN One(n, last) ELSE <<>>
           b == [NoOps EXCEPT !.seqs = q, !.puts = Rows(n, ks)]
<1> SUFFICES ASSUME ~Reject(s) PROVE \E bb, found : Put(s, bb, found)
  OBVIOUS
<1>1. pc[s] = "checked" /\ ks \subseteq Keys /\ ks \cap RowsOf(n) = {} /\ Send(s, b, {})
  BY DEF BuildInsert
<1>2. p.op = "insert" /\ n \in Names /\ p.keys \subseteq Keys /\ p.meta.snow \in BOOLEAN
  <2>1. p.op = "insert" /\ p \in Plans
    BY <1>1, HasPlan DEF TypeInv, TypeSteps
  <2> QED
    BY <2>1, PlanFields DEF Metas
<1>3. p.meta.snow => /\ Sequence(n) \in 0..MaxKey /\ last \in 0..MaxKey /\ Sequence(n) <= last
                     /\ \A k \in ks : k <= last
  <2> SUFFICES ASSUME p.meta.snow
               PROVE  Sequence(n) \in 0..MaxKey /\ last \in 0..MaxKey /\ Sequence(n) <= last /\ \A k \in ks : k <= last
    OBVIOUS
  <2>1. Sequence(n) \in 0..MaxKey /\ last \in 0..MaxKey
    BY <1>1, <1>2, LastKey
  <2>2. Cardinality(p.keys) \in Nat
    BY <1>2, KeySets
  <2>3. ks = (Sequence(n) + 1)..last
    OBVIOUS
  <2> QED
    BY <2>1, <2>2, <2>3, StatementsAssumption
<1>4. \A k \in ks : <<n, k>> \notin kv.rows
  BY <1>1 DEF RowsOf
<1>5. DOMAIN q = (IF p.meta.snow THEN {n} ELSE {}) /\ (p.meta.snow => q[n] = last)
  BY DEF One
<1> HIDE DEF last, ks, q
<1>6. Rows(n, ks) \cap kv.rows = {} /\ \A r \in Rows(n, ks) : r[1] = n /\ r[2] \in ks
  BY <1>4 DEF Rows
<1>7. b.newDbs = {} /\ b.oldDbs = {} /\ b.tabs = <<>> /\ b.seqs = q /\ b.dels = {} /\ b.puts = Rows(n, ks)
  BY DEF NoOps
<1> HIDE DEF b
<1>8. PlannedBatch(p, b)
  BY <1>2, <1>5, <1>6, <1>7 DEF PlannedBatch, PlanTabs, PlanSeqs, PlanRows, TableLocks
<1>9. RowsRead(p, b, {})
  BY <1>2, <1>6, <1>7 DEF RowsRead
<1>10. CountersRead(p, b)
  BY <1>2, <1>3, <1>5, <1>6, <1>7, StatementsAssumption DEF CountersRead
<1> QED
  BY <1>1, <1>2, <1>8, <1>9, <1>10 DEF Put

\* UPDATE,
LEMMA UpdatePut ==
  ASSUME TypeInv, NEW s \in Sessions, BuildUpdate(s)
  PROVE  Reject(s) \/ \E b, found : Put(s, b, found)
<1> DEFINE p == stmt[s]
           n == p.name
           set == p.set
           cands == Scanned(n) \cap p.keys
           moved == {k \in cands : set[k] # k}
           found == Cut({n}) \cup IF moved = {} THEN {} ELSE {"moved_key"}
           news == {set[k] : k \in cands}
           b == [NoOps EXCEPT !.dels = Rows(n, moved), !.puts = Rows(n, news)]
<1> SUFFICES ASSUME ~Reject(s) PROVE \E bb, ff : Put(s, bb, ff)
  OBVIOUS
<1>0. ~Collides(cands, Scanned(n), set)
  BY DEF BuildUpdate
<1>1. p.op = "update" /\ pc[s] = "locking" /\ TableExists(n) /\ Send(s, b, found)
  BY DEF BuildUpdate, Ready
<1>2. n \in Names
  BY <1>1, HasPlan, PlanFields
<1>3. cands \in SUBSET Scanned(n) /\ moved \in SUBSET Scanned(n)
  OBVIOUS
<1>4. Rows(n, moved) \subseteq kv.rows /\ Rows(n, cands) \subseteq kv.rows
  BY <1>2, <1>3, RowsAre
<1>5. "moved_key" \notin found => Rows(n, moved) = {} /\ news = cands
  BY DEF Rows
<1> HIDE DEF moved, news, found, cands
<1>6. b.newDbs = {} /\ b.oldDbs = {} /\ b.tabs = <<>> /\ b.seqs = <<>> /\ b.dels = Rows(n, moved) /\ b.puts = Rows(n, news)
  BY DEF NoOps
<1> HIDE DEF b
<1>7. \A r \in Rows(n, moved) \cup Rows(n, news) : r[1] = n
  BY DEF Rows
<1>8. PlannedBatch(p, b)
  BY <1>1, <1>6, <1>7 DEF PlannedBatch, PlanTabs, PlanSeqs, PlanRows, TableLocks
<1>9. RowsRead(p, b, found) /\ CountersRead(p, b)
  BY <1>1, <1>4, <1>5, <1>6 DEF RowsRead, CountersRead
<1>10. "scan_cut" \notin found => Balanced(b)
  <2> SUFFICES ASSUME "scan_cut" \notin found PROVE Balanced(b)
    OBVIOUS
  <2>1. Scanned(n) = RowsOf(n)
    BY <1>2, RowsAre DEF found
  <2>2. ~Collides(cands, RowsOf(n), set)
    BY <1>0, <2>1 DEF cands
  <2>3. \A k \in cands : set[k] \in Keys
    <3>1. Planned(p) /\ p \in Plans
      BY <1>1, HasPlan
    <3>2. PICK ks \in SUBSET Keys : set \in [ks -> Keys]
      BY <1>1, <3>1, PlanFields
    <3>3. cands \subseteq DOMAIN set
      BY <1>1, <3>1 DEF Planned, cands
    <3> QED
      BY <3>2, <3>3
  <2>4. b.dels = Rows(n, {k \in cands : set[k] # k}) /\ b.puts = Rows(n, {set[k] : k \in cands})
    BY <1>6 DEF moved, news
  <2>5. cands \in SUBSET RowsOf(n)
    BY <1>3, <2>1
  <2> QED
    BY <1>2, <2>2, <2>3, <2>4, <2>5, UpdateBalanced
<1> QED
  BY <1>1, <1>8, <1>9, <1>10 DEF Put

\* and DELETE.
LEMMA DeletePut ==
  ASSUME TypeInv, NEW s \in Sessions, BuildDelete(s)
  PROVE  Reject(s) \/ \E b, found : Put(s, b, found)
<1> DEFINE p == stmt[s]
           n == p.name
           ks == Scanned(n) \cap p.keys
           b == [NoOps EXCEPT !.dels = Rows(n, ks)]
<1>1. p.op = "delete" /\ pc[s] = "locking" /\ (Send(s, b, Cut({n})) \/ Reject(s))
  BY DEF BuildDelete, Ready
<1>2. n \in Names /\ ks \in SUBSET Scanned(n)
  BY <1>1, HasPlan, PlanFields
<1>3. Rows(n, ks) \subseteq kv.rows /\ \A r \in Rows(n, ks) : r[1] = n
  BY <1>2, RowsAre DEF Rows
<1> HIDE DEF ks
<1>4. b.newDbs = {} /\ b.oldDbs = {} /\ b.tabs = <<>> /\ b.seqs = <<>> /\ b.dels = Rows(n, ks) /\ b.puts = {}
  BY DEF NoOps
<1> HIDE DEF b
<1>5. PlannedBatch(p, b)
  BY <1>1, <1>3, <1>4 DEF PlannedBatch, PlanTabs, PlanSeqs, PlanRows, TableLocks
<1>6. RowsRead(p, b, Cut({n})) /\ CountersRead(p, b)
  BY <1>1, <1>3, <1>4 DEF RowsRead, CountersRead
<1> QED
  BY <1>1, <1>5, <1>6 DEF Put

\* What the nine kinds of Build that send a batch have in common.
LEMMA BuildPuts ==
  ASSUME TypeInv, NEW s \in Sessions, Build(s), ~InsertSelectSource(s), ~InsertCheck(s)
  PROVE  /\ pc[s] \in {"locking", "checked"} /\ need[s] = <<>>
         /\ Reject(s) \/ \E b, found : Put(s, b, found)
  BY BuildSends, CreateDatabasePut, DropDatabasePut, CreateTablePut, DropTablePut, AlterTablePut, RenameTablePut,
     InsertPut, UpdatePut, DeletePut DEF Build

------------------------------------------------------------------------------
(* The kinds of steps: most of them change neither the store nor the cache *)

\* A step of s leaves the other sessions alone; one that also leaves store and cache;
\* one that ends in a batch to send; one that changes none of these.
Apart(s) == \A t \in Sessions : t # s => pc'[t] = pc[t] /\ stmt'[t] = stmt[t] /\ batch'[t] = batch[t]
Quiet(s) ==
  /\ UNCHANGED <<kv, cache, booted>> /\ exposed \subseteq exposed' /\ Apart(s)
  /\ pc[s] # "applying" /\ pc'[s] \in {"idle", "locking", "checked"}
  /\ pc'[s] = "checked" =>
       /\ stmt'[s] = stmt[s] /\ stmt[s].op = "insert"
       /\ pc[s] = "checked" \/ (need[s] = <<>> /\ pc[s] = "locking" /\ TableExists(stmt[s].name))
Puts(s) == need[s] = <<>> /\ pc[s] \in {"locking", "checked"} /\ \E b, found : Put(s, b, found)
Idles == UNCHANGED <<kv, cache, booted, pc, stmt, batch, exposed>>

\* A statement that ends leaves the others where they are.
LEMMA FinishApart ==
  ASSUME TypeInv, NEW s \in Sessions, Finish(s)
  PROVE  Apart(s) /\ pc'[s] = "idle"
  BY DEF Finish, Apart, TypeInv, TypeSteps, TypePlans, TypeRest

\* Every step is of one of these kinds.
LEMMA KindsOfSteps ==
  ASSUME TypeInv, [Next]_vars
  PROVE  \/ \E s \in Sessions : Quiet(s) \/ Puts(s) \/ Write(s) \/ Apply(s)
         \/ LateCommit \/ Restart \/ Idles
<1> USE DEF bounds
<1>1. ASSUME NEW s \in Sessions, PlanStatement(s) PROVE Quiet(s)
  <2>1. PICK p \in Plans, locks \in Seq(Locks) : Plan(s, p, locks)
    BY <1>1, PlansAreMade
  <2>2. pc[s] = "idle"
    BY <1>1 DEF PlanStatement
  <2> QED
    BY <2>1, <2>2 DEF Plan, Quiet, Apart, TypeInv, TypeSteps, TypePlans
<1>2. ASSUME NEW s \in Sessions, Acquire(s) PROVE Quiet(s)
  BY <1>2 DEF Acquire, Quiet, Apart, TypeInv, TypeSteps
<1>3. ASSUME NEW s \in Sessions, InsertSelectSource(s) PROVE Quiet(s)
  BY <1>3 DEF InsertSelectSource, Ready, Quiet, Apart, TypeInv, TypeSteps, TypePlans
<1>4. ASSUME NEW s \in Sessions, Reject(s), pc[s] # "applying" PROVE Quiet(s)
  BY <1>4, FinishApart DEF Reject, Quiet
<1>5. ASSUME NEW s \in Sessions, InsertCheck(s) PROVE Quiet(s)
  <2>1. CASE ~StillThere(stmt[s].name)
    BY <1>4, <1>5, <2>1 DEF InsertCheck, Ready
  <2>2. CASE StillThere(stmt[s].name)
    BY <1>5, <2>2 DEF InsertCheck, Ready, StillThere, Quiet, Apart, TypeInv, TypeSteps, TypePlans
  <2> QED
    BY <2>1, <2>2
<1>6. ASSUME NEW s \in Sessions, Build(s) PROVE Quiet(s) \/ Puts(s)
  BY <1>3, <1>4, <1>5, <1>6, BuildPuts DEF Puts
<1>7. ASSUME NEW s \in Sessions, CallFails(s) \/ CallUnanswered(s) PROVE Quiet(s)
  BY <1>7, FinishApart DEF CallFails, CallUnanswered, Quiet
<1>8. UNCHANGED vars => Idles
  BY DEF vars, Idles
<1> QED
  BY <1>1, <1>2, <1>6, <1>7, <1>8 DEF Next

\* A session puts its batch together; the others are where they were.
LEMMA PutIs ==
  ASSUME TypeInv, NEW s \in Sessions, NEW b, NEW found, Put(s, b, found)
  PROVE  /\ Apart(s) /\ pc'[s] = "writing" /\ stmt'[s] = stmt[s] /\ batch'[s] = b
         /\ UNCHANGED <<kv, cache, booted>> /\ exposed' = exposed \cup found
  BY DEF Put, Send, Apart, TypeInv, TypeSteps, TypePlans, TypeRest

\* What WriteBatch changes: the store, or nothing, or it leaves the batch in flight.
LEMMA WriteIs ==
  ASSUME TypeInv, NEW s \in Sessions, Write(s)
  PROVE  /\ Apart(s) /\ pc[s] = "writing" /\ pc'[s] \in {"applying", "idle"} /\ UNCHANGED <<cache, booted>>
         /\ pc'[s] = "applying" => stmt'[s] = stmt[s] /\ batch'[s] = batch[s] /\ stmt[s].op \in Ddl
         /\ stmt[s].op \in Ddl => pc'[s] = "applying"
         /\ exposed \subseteq exposed'
         /\ "stale_plan" \notin exposed' => ~Stale(stmt[s])
         /\ "renamed_target" \notin exposed' => ~LeavesReferences(stmt[s])
         /\ "unapplied" \notin exposed' => ~Overtakes(s)
<1>1. CASE stmt[s].op \in Ddl
  BY <1>1 DEF Write, Apart, TypeInv, TypeSteps, TypePlans, TypeRest
<1>2. CASE stmt[s].op \notin Ddl
  BY <1>2, FinishApart DEF Write
<1> QED
  BY <1>1, <1>2

\* What the end of a DDL statement changes: the cache.
LEMMA ApplyIs ==
  ASSUME TypeInv, NEW s \in Sessions, Apply(s)
  PROVE  /\ Apart(s) /\ pc[s] = "applying" /\ pc'[s] = "idle" /\ UNCHANGED <<kv, booted, exposed>>
         /\ cache' = [dbs |-> AppliedDatabases(stmt[s]), tabs |-> AppliedTables(stmt[s], batch[s])]
  BY FinishApart DEF Apply

\* What a restart changes: everything but the store.
LEMMA RestartIs ==
  ASSUME TypeInv, Restart
  PROVE  /\ kv' = kv /\ exposed \subseteq exposed' /\ \A s \in Sessions : pc'[s] = "idle"
         /\ booted' => \E dbs \in SUBSET kv.dbs, seen \in SUBSET Stored :
                         /\ cache' = NewCatalog(dbs, seen)
                         /\ (dbs = kv.dbs /\ seen = Stored) \/ "partial_catalog" \in exposed'
  BY DEF Restart, Delivered

\* At the start nothing is being written.
LEMMA InitBatches == Init => BatchesPlanned
  BY DEF Init, BatchesPlanned

\* Every step keeps batches as their plans say.
LEMMA BatchesStep == TypeInv /\ BatchesPlanned /\ [Next]_vars => BatchesPlanned'
<1> SUFFICES ASSUME TypeInv, BatchesPlanned, [Next]_vars, NEW t \in Sessions, pc'[t] \in {"writing", "applying"}
             PROVE  PlannedBatch(stmt'[t], batch'[t])
  BY DEF BatchesPlanned, PlannedBatch, PlanTabs, PlanSeqs, PlanRows, TableLocks
<1>1. ASSUME pc'[t] = pc[t], stmt'[t] = stmt[t], batch'[t] = batch[t] PROVE PlannedBatch(stmt'[t], batch'[t])
  BY <1>1 DEF BatchesPlanned
<1>2. ASSUME NEW s \in Sessions, Quiet(s) PROVE PlannedBatch(stmt'[t], batch'[t])
  BY <1>1, <1>2 DEF Quiet, Apart
<1>3. ASSUME NEW s \in Sessions, NEW b, NEW found, Put(s, b, found) PROVE PlannedBatch(stmt'[t], batch'[t])
  BY <1>1, <1>3, PutIs DEF Apart, Put
<1>4. ASSUME NEW s \in Sessions, Write(s) PROVE PlannedBatch(stmt'[t], batch'[t])
  BY <1>1, <1>4, WriteIs DEF Apart, BatchesPlanned
<1>5. ASSUME NEW s \in Sessions, Apply(s) PROVE PlannedBatch(stmt'[t], batch'[t])
  BY <1>1, <1>5, ApplyIs DEF Apart
<1>6. CASE LateCommit
  BY <1>1, <1>6 DEF LateCommit, session
<1>7. CASE Restart
  BY <1>7, RestartIs
<1>8. CASE Idles
  BY <1>1, <1>8 DEF Idles
<1> QED
  BY <1>2, <1>3, <1>4, <1>5, <1>6, <1>7, <1>8, KindsOfSteps DEF Puts

------------------------------------------------------------------------------
(* What a statement has read under its locks *)

\* A statement with no lock left to take holds the locks of its tables.
LEMMA HoldsTables ==
  ASSUME TypeInv, LocksKept, NEW s \in Sessions, pc[s] # "idle", need[s] = <<>>
  PROVE  \A n \in TableLocks(stmt[s]) : mu[n] = s
<1>1. Len(need[s]) = 0
  BY EmptySeq
<1> QED
  BY <1>1 DEF LocksKept, LocksHeld, LocksOf

\* Statements that have taken all of their locks work on different tables.
LEMMA TablesApart ==
  ASSUME TypeInv, LocksKept, NEW s \in Sessions, NEW t \in Sessions, s # t,
         pc[s] # "idle", pc[t] # "idle", need[s] = <<>>, need[t] = <<>>
  PROVE  TableLocks(stmt[s]) \cap TableLocks(stmt[t]) = {}
  BY HoldsTables

\* A statement that writes has no lock left to take.
LEMMA WritersReady ==
  ASSUME TypeInv, LocksKept, NEW s \in Sessions, pc[s] \in {"writing", "applying"}
  PROVE  need[s] = <<>> /\ pc[s] # "idle"
  BY DEF LocksKept, LocksHeld, LocksOf

\* A write leaves the rows of tables that it has not locked alone.
LEMMA WriteRows ==
  ASSUME TypeInv, BatchesPlanned, NEW s \in Sessions, Write(s), NEW n \in Names, n \notin TableLocks(stmt[s])
  PROVE  RowsOf(n)' = RowsOf(n) /\ \A r : r[1] = n => (r \in kv'.rows <=> r \in kv.rows)
<1>1. kv'.rows = (kv.rows \ batch[s].dels) \cup batch[s].puts /\ pc[s] = "writing"
  BY DEF Write, Committed
<1>2. \A r \in batch[s].dels \cup batch[s].puts : r[1] \in TableLocks(stmt[s])
  BY <1>1 DEF BatchesPlanned, PlannedBatch, PlanRows
<1>3. \A r : r[1] = n => (r \in kv'.rows <=> r \in kv.rows)
  BY <1>1, <1>2
<1>4. \A k \in Keys : <<n, k>> \in kv'.rows <=> <<n, k>> \in kv.rows
  <2> SUFFICES ASSUME NEW k \in Keys PROVE <<n, k>> \in kv'.rows <=> <<n, k>> \in kv.rows
    OBVIOUS
  <2>1. <<n, k>>[1] = n
    OBVIOUS
  <2> QED
    BY <1>3, <2>1
<1> QED
  BY <1>3, <1>4 DEF RowsOf

\* What has been read only concerns the rows of tables that are locked.
LEMMA ReadsLast ==
  ASSUME NEW p \in Plans, NEW b, PlanRows(p, b), NEW met, NEW later, met \subseteq later, RowsRead(p, b, met),
         \A n \in TableLocks(p) : RowsOf(n)' = RowsOf(n) /\ \A r : r[1] = n => (r \in kv'.rows <=> r \in kv.rows)
  PROVE  RowsRead(p, b, later)'
<1>1. \A r \in b.dels \cup b.puts : r \in kv'.rows <=> r \in kv.rows
  BY DEF PlanRows
<1>2. p.op \in {"drop", "rename"} => p.name \in TableLocks(p)
  BY DEF TableLocks
<1>3. p.op = "drop_db" => TableLocks(p) = p.tables
  BY DEF TableLocks
<1>4. p.op \in {"drop", "rename"} => Rows(p.name, RowsOf(p.name)') = Rows(p.name, RowsOf(p.name))
  BY <1>2
<1>5. p.op = "drop_db" => \A n \in p.tables : Rows(n, RowsOf(n)') = Rows(n, RowsOf(n))
  BY <1>3
<1>6. b.dels \subseteq kv'.rows
  BY <1>1 DEF RowsRead
<1>7. p.op = "insert" => b.puts \cap kv'.rows = {}
  BY <1>1 DEF RowsRead
<1>8. p.op = "update" /\ "moved_key" \notin later => b.dels = {} /\ b.puts \subseteq kv'.rows
  BY <1>1 DEF RowsRead
<1>9. "scan_cut" \notin later /\ p.op \in {"drop", "rename"} => b.dels = Rows(p.name, RowsOf(p.name)')
  BY <1>4 DEF RowsRead
<1>10. "scan_cut" \notin later /\ p.op = "drop_db" => \A n \in p.tables : Rows(n, RowsOf(n)') \subseteq b.dels
  BY <1>5 DEF RowsRead
<1> QED
  BY <1>6, <1>7, <1>8, <1>9, <1>10 DEF RowsRead, Rows

\* At the start nothing has been read.
LEMMA InitReads == Init => ReadsKept
  BY DEF Init, ReadsKept

\* Every step keeps what a statement has read under its locks.
LEMMA ReadsStep == TypeInv /\ LocksKept /\ BatchesPlanned /\ ReadsKept /\ [Next]_vars => ReadsKept'
<1> SUFFICES ASSUME TypeInv, LocksKept, BatchesPlanned, ReadsKept, [Next]_vars, "unanswered" \notin exposed',
                    NEW t \in Sessions, pc'[t] = "writing"
             PROVE  RowsRead(stmt[t], batch[t], exposed)'
  BY DEF ReadsKept
<1> DEFINE Same == pc'[t] = pc[t] /\ stmt'[t] = stmt[t] /\ batch'[t] = batch[t]
<1>1. ASSUME Same, exposed \subseteq exposed',
             \A n \in TableLocks(stmt[t]) : RowsOf(n)' = RowsOf(n) /\ \A r : r[1] = n => (r \in kv'.rows <=> r \in kv.rows)
      PROVE  RowsRead(stmt[t], batch[t], exposed)'
  <2>1. PICK p, b, met, later : p = stmt[t] /\ b = batch[t] /\ met = exposed /\ later = exposed'
    OBVIOUS
  <2>2. p \in Plans
    BY <1>1, <2>1, HasPlan
  <2>3. PlanRows(p, b)
    BY <1>1, <2>1 DEF BatchesPlanned, PlannedBatch
  <2>4. RowsRead(p, b, met)
    BY <1>1, <2>1 DEF ReadsKept
  <2>5. RowsRead(p, b, later)'
    BY <1>1, <2>1, <2>2, <2>3, <2>4, ReadsLast
  <2> QED
    BY <1>1, <2>1, <2>5
<1>2. ASSUME Same, exposed \subseteq exposed', kv' = kv PROVE RowsRead(stmt[t], batch[t], exposed)'
  BY <1>1, <1>2 DEF RowsOf
<1>3. ASSUME NEW s \in Sessions, Quiet(s) PROVE RowsRead(stmt[t], batch[t], exposed)'
  BY <1>2, <1>3 DEF Quiet, Apart
<1>4. ASSUME NEW s \in Sessions, NEW b, NEW found, Put(s, b, found) PROVE RowsRead(stmt[t], batch[t], exposed)'
  <2>1. CASE s # t
    BY <1>2, <1>4, <2>1, PutIs DEF Apart
  <2>2. CASE s = t
    <3>1. PICK p : p = stmt[t]
      OBVIOUS
    <3>2. RowsRead(p, b, found) /\ kv' = kv /\ found \subseteq exposed' /\ stmt'[t] = p /\ batch'[t] = b
      BY <1>4, <2>2, <3>1, PutIs DEF Put
    <3>3. PICK later : later = exposed'
      OBVIOUS
    <3>4. RowsRead(p, b, later)'
      BY <3>2, <3>3 DEF RowsRead, RowsOf
    <3> QED
      BY <3>2, <3>3, <3>4
  <2> QED
    BY <2>1, <2>2
<1>5. ASSUME NEW s \in Sessions, Write(s) PROVE RowsRead(stmt[t], batch[t], exposed)'
  <2>1. s # t /\ Same /\ pc[s] = "writing" /\ pc[t] = "writing" /\ exposed \subseteq exposed'
    BY <1>5, WriteIs DEF Apart
  <2>2. TableLocks(stmt[s]) \cap TableLocks(stmt[t]) = {}
    BY <2>1, WritersReady, TablesApart
  <2>3. TableLocks(stmt[t]) \subseteq Names
    BY <2>1, HasPlan, PlanFields DEF TableLocks, Ddl
  <2>4. \A n \in TableLocks(stmt[t]) : RowsOf(n)' = RowsOf(n) /\ \A r : r[1] = n => (r \in kv'.rows <=> r \in kv.rows)
    BY <1>5, <2>2, <2>3, WriteRows
  <2> QED
    BY <1>1, <2>1, <2>4
<1>6. ASSUME NEW s \in Sessions, Apply(s) PROVE RowsRead(stmt[t], batch[t], exposed)'
  BY <1>2, <1>6, ApplyIs DEF Apart
<1>7. CASE LateCommit
  BY <1>7 DEF LateCommit
<1>8. CASE Restart
  BY <1>8, RestartIs
<1>9. CASE Idles
  BY <1>2, <1>9 DEF Idles
<1> QED
  BY <1>3, <1>4, <1>5, <1>6, <1>7, <1>8, <1>9, KindsOfSteps DEF Puts

\* Between its reads and its write a statement's tables do not change: nobody
\* else writes to a table that it has locked.
THEOREM ReadsHoldUntilWrite == Spec => []ReadsAreStable
<1> DEFINE I == TypeInv /\ LocksKept /\ BatchesPlanned /\ ReadsKept
<1>1. Init => I
  BY InitTypes, InitLocks, InitBatches, InitReads
<1>2. I /\ [Next]_vars => I'
  BY TypeStep, LocksStep, BatchesStep, ReadsStep
<1>3. I => ReadsAreStable
  BY DEF ReadsAreStable, ReadsKept, RowsRead
<1> QED
  BY <1>1, <1>2, <1>3, PTL DEF Spec

------------------------------------------------------------------------------
(* The cache follows the store *)

\* What a plan that is not stale was based on is still so.
LEMMA FreshPlan ==
  ASSUME NEW p \in Plans, ~Stale(p)
  PROVE  /\ p.op = "create_db" => p.db \notin kv.dbs
         /\ p.op = "drop_db" => p.db \in kv.dbs /\ {n \in Stored : Db(n) = p.db} = p.tables
         /\ p.op = "create" => /\ Db(p.name) \in kv.dbs /\ kv.tabs[p.name] = None
                               /\ \A t \in ForeignKeys(p.meta.cols) : <<Db(p.name), t>> \in Stored
         /\ p.op = "drop" => kv.tabs[p.name] # None /\ \A m \in Referring(p.name) : m = p.name
         /\ p.op = "alter" => /\ kv.tabs[p.name] = p.meta
                              /\ \A t \in ForeignKeys(p.new.cols) \ ForeignKeys(p.meta.cols) : <<Db(p.name), t>> \in Stored
         /\ p.op = "rename" => kv.tabs[p.name] = p.meta /\ p.to \notin Stored
         /\ p.op = "insert" => kv.tabs[p.name] = None \/ kv.tabs[p.name].snow = p.meta.snow
<1> USE DEF Stale, Dangling
<1>1. CASE p.op = "create_db"
  BY <1>1
<1>2. CASE p.op = "drop_db"
  BY <1>2
<1>3. CASE p.op = "create"
  BY <1>3
<1>4. CASE p.op = "drop"
  BY <1>4
<1>5. CASE p.op = "alter"
  BY <1>5
<1>6. CASE p.op = "rename"
  BY <1>6
<1>7. CASE p.op = "insert"
  BY <1>7
<1>8. CASE p.op \in {"update", "delete"}
  BY <1>8
<1> QED
  BY <1>1, <1>2, <1>3, <1>4, <1>5, <1>6, <1>7, <1>8, PlanFields DEF Ddl

\* What a write does to the databases, the tables and the counters.
LEMMA WriteEntries ==
  ASSUME TypeInv, NEW s \in Sessions, Write(s)
  PROVE  LET b == batch[s]
         IN  /\ kv'.dbs = (kv.dbs \ b.oldDbs) \cup b.newDbs
             /\ DOMAIN b.tabs \subseteq Names /\ DOMAIN b.seqs \subseteq Names
             /\ \A n \in Names : kv'.tabs[n] = IF n \in DOMAIN b.tabs THEN b.tabs[n] ELSE kv.tabs[n]
             /\ \A n \in Names : kv'.seqs[n] = IF n \in DOMAIN b.seqs THEN b.seqs[n] ELSE kv.seqs[n]
<1> DEFINE b == batch[s]
<1>1. /\ kv'.dbs = (kv.dbs \ b.oldDbs) \cup b.newDbs
      /\ kv'.tabs = Over(b.tabs, kv.tabs) /\ kv'.seqs = Over(b.seqs, kv.seqs)
  BY DEF Write, Committed
<1>2. DOMAIN b.tabs \subseteq Names /\ DOMAIN b.seqs \subseteq Names
  BY DEF TypeInv, TypeBatches, IsBatch
<1>3. DOMAIN kv.tabs = Names /\ DOMAIN kv.seqs = Names
  BY DEF TypeInv, TypeStore
<1>4. \A n \in Names : Over(b.tabs, kv.tabs)[n] = IF n \in DOMAIN b.tabs THEN b.tabs[n] ELSE kv.tabs[n]
  BY <1>3 DEF Over
<1>5. \A n \in Names : Over(b.seqs, kv.seqs)[n] = IF n \in DOMAIN b.seqs THEN b.seqs[n] ELSE kv.seqs[n]
  BY <1>3 DEF Over
<1> QED
  BY <1>1, <1>2, <1>4, <1>5

\* The catalog entries of a batch, by the kind of statement.
LEMMA BatchTabs ==
  ASSUME TypeInv, BatchesPlanned, NEW s \in Sessions, pc[s] \in {"writing", "applying"}
  PROVE  LET p == stmt[s]
             b == batch[s]
         IN  /\ p \in Plans
             /\ p.op \notin {"drop_db", "create", "drop", "alter", "rename"} => DOMAIN b.tabs = {}
             /\ p.op = "drop_db" => DOMAIN b.tabs = p.tables /\ \A n \in p.tables : b.tabs[n] = None
             /\ p.op \in {"create", "drop", "alter"} => DOMAIN b.tabs = {p.name}
             /\ p.op = "create" => b.tabs[p.name] = p.meta
             /\ p.op = "drop" => b.tabs[p.name] = None
             /\ p.op = "alter" => b.tabs[p.name] = [p.new EXCEPT !.version = p.meta.version + 1]
             /\ p.op = "rename" => /\ DOMAIN b.tabs = {p.name, p.to} /\ p.name # p.to
                                   /\ b.tabs[p.name] = None /\ b.tabs[p.to] = p.meta
             /\ b.newDbs = (IF p.op = "create_db" THEN {p.db} ELSE {})
             /\ b.oldDbs = (IF p.op = "drop_db" THEN {p.db} ELSE {})
<1> DEFINE p == stmt[s]
           b == batch[s]
<1>1. p \in Plans /\ Planned(p)
  BY HasPlan
<1>2. /\ b.newDbs = (IF p.op = "create_db" THEN {p.db} ELSE {})
      /\ b.oldDbs = (IF p.op = "drop_db" THEN {p.db} ELSE {})
      /\ b.tabs = PlanTabs(p)
  BY DEF BatchesPlanned, PlannedBatch
<1>3. p.op = "rename" => p.name # p.to
  BY <1>1 DEF Planned
<1>4. CASE p.op = "drop_db"
  BY <1>1, <1>2, <1>4 DEF PlanTabs
<1>5. CASE p.op \in {"create", "drop", "alter"}
  BY <1>1, <1>2, <1>5 DEF PlanTabs, One
<1>6. CASE p.op = "rename"
  BY <1>1, <1>2, <1>3, <1>6 DEF PlanTabs, One, Over
<1>7. CASE p.op \notin {"drop_db", "create", "drop", "alter", "rename"}
  <2>1. PlanTabs(p) = <<>>
    BY <1>7 DEF PlanTabs
  <2>2. DOMAIN b.tabs = {}
    BY <1>2, <2>1, NoEntries
  <2> QED
    BY <1>1, <1>2, <1>7, <2>2
<1> QED
  BY <1>4, <1>5, <1>6, <1>7

\* Who writes a table's entry without its lock creates the table.
LEMMA EntriesLocked ==
  ASSUME TypeInv, BatchesPlanned, NEW s \in Sessions, pc[s] \in {"writing", "applying"}, stmt[s].op # "create"
  PROVE  DOMAIN batch[s].tabs \subseteq TableLocks(stmt[s]) /\ DOMAIN batch[s].seqs \subseteq TableLocks(stmt[s])
<1> DEFINE p == stmt[s]
           b == batch[s]
<1>1. p \in Plans /\ PlanSeqs(p, b.seqs)
  BY HasPlan DEF BatchesPlanned, PlannedBatch
<1>2. DOMAIN b.tabs \subseteq TableLocks(p)
  BY BatchTabs, PlanFields DEF TableLocks, Ddl
<1>3. DOMAIN b.seqs \subseteq TableLocks(p)
  <2>1. CASE p.op \in {"create_db", "alter", "update", "delete"}
    BY <1>1, <2>1 DEF PlanSeqs
  <2>2. CASE p.op \in {"drop", "drop_db"}
    BY <1>1, <2>2 DEF PlanSeqs, TableLocks, One
  <2>3. CASE p.op \in {"rename", "insert"}
    BY <1>1, <2>3 DEF PlanSeqs, TableLocks
  <2> QED
    BY <1>1, <2>1, <2>2, <2>3, PlanFields DEF Ddl
<1> QED
  BY <1>2, <1>3

\* At the start the cache and the store are empty.
LEMMA InitAgree == Init => Agree
<1> SUFFICES ASSUME Init PROVE Agree
  OBVIOUS
<1>1. cache.dbs = kv.dbs /\ cache.tabs = kv.tabs /\ \A s \in Sessions : pc[s] = "idle"
  BY DEF Init
<1> QED
  BY <1>1 DEF Agree, TablesAgree, DatabasesAgree, WrittenIsThere, PendingApart, Pending

\* A step that changes neither side, nor who is applying, keeps the agreement.
LEMMA AgreeSame ==
  ASSUME Agree, UNCHANGED <<kv, cache, booted>>, exposed \subseteq exposed',
         \A t \in Sessions : /\ pc'[t] = "applying" <=> pc[t] = "applying"
                             /\ pc[t] = "applying" => stmt'[t] = stmt[t] /\ batch'[t] = batch[t]
  PROVE  Agree'
<1> SUFFICES ASSUME Clean', booted' PROVE (TablesAgree /\ DatabasesAgree /\ WrittenIsThere /\ PendingApart)'
  BY DEF Agree
<1>1. TablesAgree /\ DatabasesAgree /\ WrittenIsThere /\ PendingApart
  BY DEF Agree, Clean
<1>2. TablesAgree'
  BY <1>1 DEF TablesAgree, Pending
<1>3. DatabasesAgree'
  BY <1>1 DEF DatabasesAgree, Pending
<1>4. WrittenIsThere'
  BY <1>1 DEF WrittenIsThere, Pending
<1>5. PendingApart'
  BY <1>1 DEF PendingApart, Pending, CatalogEntries
<1> QED
  BY <1>2, <1>3, <1>4, <1>5

\* A write adds one pending statement, over entries that no other pending one has.
LEMMA WriteAgree ==
  ASSUME TypeInv, BatchesPlanned, Agree, NEW s \in Sessions, Write(s)
  PROVE  Agree'
<1> SUFFICES ASSUME Clean', booted' PROVE (TablesAgree /\ DatabasesAgree /\ WrittenIsThere /\ PendingApart)'
  BY DEF Agree
<1> DEFINE p == stmt[s]
           b == batch[s]
<1>1. /\ Apart(s) /\ pc[s] = "writing" /\ pc'[s] \in {"applying", "idle"} /\ UNCHANGED <<cache, booted>>
      /\ pc'[s] = "applying" => stmt'[s] = p /\ batch'[s] = b
      /\ p.op \in Ddl => pc'[s] = "applying"
      /\ exposed \subseteq exposed' /\ ~Stale(p) /\ ~Overtakes(s)
  BY WriteIs DEF Clean
<1>2. TablesAgree /\ DatabasesAgree /\ WrittenIsThere /\ PendingApart
  BY <1>1 DEF Agree, Clean
<1>3. /\ kv'.dbs = (kv.dbs \ b.oldDbs) \cup b.newDbs
      /\ DOMAIN b.tabs \subseteq Names
      /\ \A n \in Names : kv'.tabs[n] = IF n \in DOMAIN b.tabs THEN b.tabs[n] ELSE kv.tabs[n]
  BY WriteEntries
<1>4. ASSUME NEW t \in Sessions, t # s, pc'[t] = "applying"
      PROVE  /\ pc[t] = "applying" /\ stmt'[t] = stmt[t] /\ batch'[t] = batch[t]
             /\ CatalogEntries(batch[t]) \cap CatalogEntries(b) = {}
  BY <1>1, <1>4 DEF Apart, Overtakes
<1>5. pc'[s] # "applying" => b.newDbs = {} /\ b.oldDbs = {} /\ DOMAIN b.tabs = {}
  BY <1>1, BatchTabs DEF Ddl
<1>6. TablesAgree'
  <2> SUFFICES ASSUME NEW n \in Names, cache'.tabs[n] # kv'.tabs[n],
                      ~(cache'.tabs[n] = None /\ "partial_catalog" \in exposed')
               PROVE  \E t \in Sessions : pc'[t] = "applying" /\ n \in DOMAIN batch'[t].tabs
    BY DEF TablesAgree, Pending
  <2>1. CASE n \in DOMAIN b.tabs
    BY <1>1, <1>5, <2>1
  <2>2. CASE n \notin DOMAIN b.tabs
    <3>1. cache.tabs[n] # kv.tabs[n]
      BY <1>1, <1>3, <2>2
    <3>2. PICK t \in Sessions : pc[t] = "applying" /\ n \in DOMAIN batch[t].tabs
      BY <1>1, <1>2, <3>1 DEF TablesAgree, Pending
    <3> QED
      BY <1>1, <3>2 DEF Apart
  <2> QED
    BY <2>1, <2>2
<1>7. DatabasesAgree'
  <2> SUFFICES ASSUME NEW d \in Dbs, ~((d \in cache'.dbs) <=> (d \in kv'.dbs)),
                      ~(d \notin cache'.dbs /\ "partial_catalog" \in exposed')
               PROVE  \E t \in Sessions : pc'[t] = "applying" /\ d \in batch'[t].newDbs \cup batch'[t].oldDbs
    BY DEF DatabasesAgree, Pending
  <2>1. CASE d \in b.newDbs \cup b.oldDbs
    BY <1>1, <1>5, <2>1
  <2>2. CASE d \notin b.newDbs \cup b.oldDbs
    <3>1. ~((d \in cache.dbs) <=> (d \in kv.dbs))
      BY <1>1, <1>3, <2>2
    <3>2. PICK t \in Sessions : pc[t] = "applying" /\ d \in batch[t].newDbs \cup batch[t].oldDbs
      BY <1>1, <1>2, <3>1 DEF DatabasesAgree, Pending
    <3> QED
      BY <1>1, <3>2 DEF Apart
  <2> QED
    BY <2>1, <2>2
<1>8. WrittenIsThere'
  <2> DEFINE There(t) ==
               /\ \A n \in DOMAIN batch'[t].tabs : kv'.tabs[n] = batch'[t].tabs[n]
               /\ batch'[t].newDbs \subseteq kv'.dbs /\ batch'[t].oldDbs \cap kv'.dbs = {}
               /\ stmt'[t].op = "drop_db" => \A n \in Names : Db(n) = stmt'[t].db => kv'.tabs[n] = None
  <2>1. ASSUME NEW t \in Sessions, t # s, pc'[t] = "applying" PROVE There(t)
    <3>1. /\ pc[t] = "applying" /\ stmt'[t] = stmt[t] /\ batch'[t] = batch[t]
          /\ CatalogEntries(batch[t]) \cap CatalogEntries(b) = {}
      BY <1>4, <2>1
    <3>2. /\ \A n \in DOMAIN batch[t].tabs : kv.tabs[n] = batch[t].tabs[n]
          /\ batch[t].newDbs \subseteq kv.dbs /\ batch[t].oldDbs \cap kv.dbs = {}
          /\ stmt[t].op = "drop_db" => \A n \in Names : Db(n) = stmt[t].db => kv.tabs[n] = None
      BY <1>2, <3>1 DEF WrittenIsThere, Pending
    <3>3. DOMAIN batch[t].tabs \subseteq Names /\ DOMAIN batch[t].tabs \cap DOMAIN b.tabs = {}
      BY <3>1 DEF TypeInv, TypeBatches, IsBatch, CatalogEntries
    <3>4. batch[t].newDbs \cap b.oldDbs = {} /\ batch[t].oldDbs \cap b.newDbs = {}
      BY <3>1 DEF CatalogEntries
    <3>5. \A n \in DOMAIN batch'[t].tabs : kv'.tabs[n] = batch'[t].tabs[n]
      BY <1>3, <3>1, <3>2, <3>3
    <3>6. batch'[t].newDbs \subseteq kv'.dbs /\ batch'[t].oldDbs \cap kv'.dbs = {}
      BY <1>3, <3>1, <3>2, <3>4
    <3>7. ASSUME stmt[t].op = "drop_db", NEW n \in Names, Db(n) = stmt[t].db PROVE kv'.tabs[n] = None
      <4>1. kv.tabs[n] = None
        BY <3>2, <3>7
      <4>2. SUFFICES ASSUME n \in DOMAIN b.tabs PROVE b.tabs[n] = None
        BY <1>3, <4>1
      <4>3. p \in Plans
        BY <1>1, BatchTabs
      <4>4. batch[t].oldDbs = {stmt[t].db} /\ Db(n) \notin kv.dbs
        BY <3>1, <3>2, <3>7, BatchTabs
      <4>5. p.op \in {"create", "alter"} => FALSE
        <5>1. p.op \in {"create", "alter"} => DOMAIN b.tabs = {p.name}
          BY <1>1, BatchTabs
        <5>2. p.op \in {"create", "alter"} => p.meta \in Metas
          BY <4>3, PlanFields
        <5> QED
          BY <1>1, <4>1, <4>2, <4>3, <4>4, <5>1, <5>2, FreshPlan, NoneAssumption
      <4>6. p.op = "rename" /\ n = p.to => FALSE
        <5> SUFFICES ASSUME p.op = "rename", n = p.to PROVE FALSE
          OBVIOUS
        <5>1. Db(p.name) = Db(n) /\ p.name \in Names /\ p.meta \in Metas
          BY <1>1, <4>3, HasPlan, PlanFields DEF Planned
        <5>2. kv.tabs[p.name] = None
          BY <3>2, <3>7, <5>1
        <5> QED
          BY <1>1, <4>3, <5>1, <5>2, FreshPlan, NoneAssumption
      <4>7. p.op \in {"drop_db", "drop"} => b.tabs[n] = None
        <5>1. /\ p.op = "drop_db" => DOMAIN b.tabs = p.tables /\ \A m \in p.tables : b.tabs[m] = None
              /\ p.op = "drop" => DOMAIN b.tabs = {p.name} /\ b.tabs[p.name] = None
          BY <1>1, BatchTabs
        <5> QED
          BY <4>2, <5>1
      <4>8. p.op = "rename" => n = p.to \/ b.tabs[n] = None
        <5>1. p.op = "rename" => DOMAIN b.tabs = {p.name, p.to} /\ b.tabs[p.name] = None
          BY <1>1, BatchTabs
        <5> QED
          BY <4>2, <5>1
      <4>9. p.op \notin {"drop_db", "create", "drop", "alter", "rename"} => FALSE
        <5>1. p.op \notin {"drop_db", "create", "drop", "alter", "rename"} => DOMAIN b.tabs = {}
          BY <1>1, BatchTabs
        <5> QED
          BY <4>2, <5>1
      <4> QED
        BY <4>5, <4>6, <4>7, <4>8, <4>9
    <3> QED
      BY <3>1, <3>5, <3>6, <3>7
  <2>2. ASSUME pc'[s] = "applying" PROVE There(s)
    <3>1. stmt'[s] = p /\ batch'[s] = b /\ p \in Plans
      BY <1>1, <2>2, BatchTabs
    <3>2. b.newDbs \subseteq kv'.dbs /\ b.oldDbs \cap kv'.dbs = {}
      BY <1>1, <1>3, BatchTabs
    <3>3. ASSUME p.op = "drop_db", NEW n \in Names, Db(n) = p.db PROVE kv'.tabs[n] = None
      <4>1. {m \in Stored : Db(m) = p.db} = p.tables
        BY <1>1, <3>1, <3>3, FreshPlan
      <4>2. DOMAIN b.tabs = p.tables /\ \A m \in p.tables : b.tabs[m] = None
        BY <1>1, <3>3, BatchTabs
      <4> QED
        BY <1>3, <3>3, <4>1, <4>2 DEF Stored
    <3> QED
      BY <1>3, <3>1, <3>2, <3>3
  <2> QED
    BY <2>1, <2>2 DEF WrittenIsThere, Pending
<1>9. PendingApart'
  <2> SUFFICES ASSUME NEW t \in Sessions, NEW u \in Sessions, pc'[t] = "applying", pc'[u] = "applying", t # u
               PROVE  CatalogEntries(batch'[t]) \cap CatalogEntries(batch'[u]) = {}
    BY DEF PendingApart, Pending, CatalogEntries
  <2>1. CASE t # s /\ u # s
    BY <1>2, <1>4, <2>1 DEF PendingApart, Pending
  <2>2. CASE t = s
    BY <1>1, <1>4, <2>2
  <2>3. CASE u = s
    BY <1>1, <1>4, <2>3
  <2> QED
    BY <2>1, <2>2, <2>3
<1> QED
  BY <1>6, <1>7, <1>8, <1>9

\* Applying a batch makes the cache what the store already is in its entries.
LEMMA ApplyAgree ==
  ASSUME TypeInv, BatchesPlanned, Agree, NEW s \in Sessions, Apply(s)
  PROVE  Agree'
<1> SUFFICES ASSUME Clean', booted' PROVE (TablesAgree /\ DatabasesAgree /\ WrittenIsThere /\ PendingApart)'
  BY DEF Agree
<1> DEFINE p == stmt[s]
           b == batch[s]
<1>1. /\ Apart(s) /\ pc[s] = "applying" /\ pc'[s] = "idle" /\ UNCHANGED <<kv, booted, exposed>>
      /\ cache'.dbs = AppliedDatabases(p) /\ cache'.tabs = AppliedTables(p, b)
  <2>1. Apart(s) /\ pc[s] = "applying" /\ pc'[s] = "idle" /\ UNCHANGED <<kv, booted, exposed>>
    BY ApplyIs
  <2>2. cache' = [dbs |-> AppliedDatabases(p), tabs |-> AppliedTables(p, b)]
    BY ApplyIs
  <2>3. cache'.dbs = AppliedDatabases(p) /\ cache'.tabs = AppliedTables(p, b)
    BY <2>2
  <2> QED
    BY <2>1, <2>3
<1>2. TablesAgree /\ DatabasesAgree /\ WrittenIsThere /\ PendingApart
  BY <1>1 DEF Agree, Clean
<1>3. /\ \A n \in DOMAIN b.tabs : kv.tabs[n] = b.tabs[n]
      /\ b.newDbs \subseteq kv.dbs /\ b.oldDbs \cap kv.dbs = {}
      /\ p.op = "drop_db" => \A n \in Names : Db(n) = p.db => kv.tabs[n] = None
  BY <1>1, <1>2 DEF WrittenIsThere, Pending
<1>4. p \in Plans /\ p.op \in Ddl
  BY <1>1, HasPlan DEF TypeInv, TypeSteps
<1>5. \A t \in Sessions : pc'[t] = "applying" => t # s /\ pc[t] = "applying" /\ stmt'[t] = stmt[t] /\ batch'[t] = batch[t]
  BY <1>1 DEF Apart
<1>6. \A t \in Sessions : t # s /\ pc[t] = "applying" => pc'[t] = "applying" /\ batch'[t] = batch[t]
  BY <1>1 DEF Apart
<1>7. ASSUME NEW n \in Names
      PROVE  /\ n \in DOMAIN b.tabs => cache'.tabs[n] = kv.tabs[n]
             /\ n \notin DOMAIN b.tabs => cache'.tabs[n] \in {kv.tabs[n], cache.tabs[n]}
  <2>1. CASE p.op = "drop_db"
    <3>1. AppliedTables(p, b)[n] = IF Db(n) = p.db THEN None ELSE cache.tabs[n]
      BY <2>1 DEF AppliedTables
    <3>2. DOMAIN b.tabs = p.tables /\ \A m \in p.tables : Db(m) = p.db
      BY <1>1, <2>1, BatchTabs, HasPlan DEF Planned
    <3> QED
      BY <1>1, <1>3, <2>1, <3>1, <3>2
  <2>2. CASE p.op # "drop_db"
    <3>1. DOMAIN cache.tabs = Names
      BY DEF TypeInv, TypeStore
    <3>2. AppliedTables(p, b)[n] = IF n \in DOMAIN b.tabs THEN b.tabs[n] ELSE cache.tabs[n]
      BY <2>2, <3>1 DEF AppliedTables, Over
    <3> QED
      BY <1>1, <1>3, <3>2
  <2> QED
    BY <2>1, <2>2
<1>8. TablesAgree'
  <2> SUFFICES ASSUME NEW n \in Names, cache'.tabs[n] # kv.tabs[n],
                      ~(cache'.tabs[n] = None /\ "partial_catalog" \in exposed)
               PROVE  \E t \in Sessions : pc'[t] = "applying" /\ n \in DOMAIN batch'[t].tabs
    BY <1>1 DEF TablesAgree, Pending
  <2>1. n \notin DOMAIN b.tabs /\ cache.tabs[n] # kv.tabs[n] /\ cache'.tabs[n] = cache.tabs[n]
    BY <1>7
  <2>2. PICK t \in Sessions : pc[t] = "applying" /\ n \in DOMAIN batch[t].tabs
    BY <1>2, <2>1 DEF TablesAgree, Pending
  <2>3. t # s
    BY <2>1, <2>2
  <2> QED
    BY <1>6, <2>2, <2>3
<1>9. DatabasesAgree'
  <2> SUFFICES ASSUME NEW d \in Dbs, ~((d \in cache'.dbs) <=> (d \in kv.dbs)),
                      ~(d \notin cache'.dbs /\ "partial_catalog" \in exposed)
               PROVE  \E t \in Sessions : pc'[t] = "applying" /\ d \in batch'[t].newDbs \cup batch'[t].oldDbs
    BY <1>1 DEF DatabasesAgree, Pending
  <2>1. /\ b.newDbs = (IF p.op = "create_db" THEN {p.db} ELSE {})
        /\ b.oldDbs = (IF p.op = "drop_db" THEN {p.db} ELSE {})
    BY <1>1, BatchTabs
  <2>2. cache'.dbs = (cache.dbs \ b.oldDbs) \cup b.newDbs
    BY <1>1, <2>1 DEF AppliedDatabases
  <2>3. /\ d \notin b.newDbs \cup b.oldDbs /\ ~((d \in cache.dbs) <=> (d \in kv.dbs))
        /\ (d \in cache'.dbs) <=> (d \in cache.dbs)
    BY <1>3, <2>1, <2>2
  <2>4. PICK t \in Sessions : pc[t] = "applying" /\ d \in batch[t].newDbs \cup batch[t].oldDbs
    BY <1>2, <2>3 DEF DatabasesAgree, Pending
  <2>5. t # s
    BY <2>3, <2>4
  <2> QED
    BY <1>6, <2>4, <2>5
<1>10. WrittenIsThere'
  BY <1>1, <1>2, <1>5 DEF WrittenIsThere, Pending
<1>11. PendingApart'
  BY <1>2, <1>5 DEF PendingApart, Pending, CatalogEntries
<1> QED
  BY <1>8, <1>9, <1>10, <1>11

\* A restart loads what the store has, or has met a cut or broken scan.
LEMMA RestartAgree ==
  ASSUME TypeInv, Restart
  PROVE  Agree'
<1> SUFFICES ASSUME Clean', booted' PROVE (TablesAgree /\ DatabasesAgree /\ WrittenIsThere /\ PendingApart)'
  BY DEF Agree
<1>1. PICK dbs \in SUBSET kv.dbs, seen \in SUBSET Stored :
        /\ cache' = NewCatalog(dbs, seen)
        /\ (dbs = kv.dbs /\ seen = Stored) \/ "partial_catalog" \in exposed'
  BY RestartIs
<1>2. kv' = kv /\ \A s \in Sessions : pc'[s] = "idle"
  BY RestartIs
<1>3. cache'.dbs = kv'.dbs \/ (cache'.dbs \subseteq kv'.dbs /\ "partial_catalog" \in exposed')
  BY <1>1, <1>2 DEF NewCatalog
<1>4. \A n \in Names : cache'.tabs[n] = kv'.tabs[n] \/ (cache'.tabs[n] = None /\ "partial_catalog" \in exposed')
  BY <1>1, <1>2 DEF NewCatalog, Stored
<1> QED
  BY <1>2, <1>3, <1>4 DEF TablesAgree, DatabasesAgree, WrittenIsThere, PendingApart, Pending

\* Every step keeps the cache and the store equal but for the pending statements.
LEMMA AgreeStep == TypeInv /\ BatchesPlanned /\ Agree /\ [Next]_vars => Agree'
<1> SUFFICES ASSUME TypeInv, BatchesPlanned, Agree, [Next]_vars PROVE Agree'
  OBVIOUS
<1>1. ASSUME NEW s \in Sessions, Quiet(s) PROVE Agree'
  BY <1>1, AgreeSame DEF Quiet, Apart
<1>2. ASSUME NEW s \in Sessions, Puts(s) PROVE Agree'
  <2>1. PICK b, found : Put(s, b, found)
    BY <1>2 DEF Puts
  <2>2. Apart(s) /\ pc[s] # "applying" /\ pc'[s] = "writing" /\ UNCHANGED <<kv, cache, booted>> /\ exposed \subseteq exposed'
    BY <1>2, <2>1, PutIs DEF Puts
  <2> QED
    BY <2>2, AgreeSame DEF Apart
<1>3. CASE LateCommit
  BY <1>3 DEF LateCommit, Agree, Clean
<1>4. CASE Idles
  BY <1>4, AgreeSame DEF Idles
<1> QED
  BY <1>1, <1>2, <1>3, <1>4, WriteAgree, ApplyAgree, RestartAgree, KindsOfSteps

\* Once every statement that has written has also changed the cache, the cache is
\* what a restart would load in full: no order of the writes and of the changes of
\* the cache loses an entry, as long as each plan is still valid when it is
\* written and no load was cut at the server's scan limit or broken off.
THEOREM CacheFollowsStore == Spec => []CacheIsStore
<1> DEFINE I == TypeInv /\ BatchesPlanned /\ Agree
<1>1. Init => I
  BY InitTypes, InitBatches, InitAgree
<1>2. I /\ [Next]_vars => I'
  BY TypeStep, BatchesStep, AgreeStep
<1>3. I => CacheIsStore
  <2> SUFFICES ASSUME I, Clean, "partial_catalog" \notin exposed, booted, \A s \in Sessions : pc[s] # "applying"
               PROVE  cache = NewCatalog(kv.dbs, Stored)
    BY DEF CacheIsStore, Clean
  <2>1. \A n \in Names : cache.tabs[n] = kv.tabs[n]
    BY DEF Agree, TablesAgree, Pending
  <2>2. \A d \in Dbs : (d \in cache.dbs) <=> (d \in kv.dbs)
    BY DEF Agree, DatabasesAgree, Pending
  <2>3. /\ cache \in [dbs : SUBSET Dbs, tabs : [Names -> MetasNow \cup {None}]] /\ kv.dbs \subseteq Dbs
    BY DEF TypeInv, TypeStore
  <2>4. cache.dbs = kv.dbs
    BY <2>2, <2>3
  <2>5. cache.tabs = [n \in Names |-> IF n \in Stored THEN kv.tabs[n] ELSE None]
    BY <2>1, <2>3 DEF Stored
  <2> QED
    BY <2>3, <2>4, <2>5 DEF NewCatalog
<1> QED
  BY <1>1, <1>2, <1>3, PTL DEF Spec

------------------------------------------------------------------------------
(* The store stays consistent *)

\* An INSERT that has checked its table, and a statement that writes, hold it.
LEMMA HoldsTable ==
  ASSUME TypeInv, LocksKept, NEW s \in Sessions, pc[s] \in {"checked", "writing", "applying"}
  PROVE  \A n \in TableLocks(stmt[s]) : mu[n] = s
<1>1. LocksOf(s)
  BY DEF LocksKept, LocksHeld
<1>2. TableLocks(stmt[s]) \subseteq Names
  BY HasPlan, PlanFields DEF TableLocks, Ddl
<1>3. \A i \in 1..Len(need[s]) : need[s][i] \notin Names
  <2>1. CASE pc[s] = "checked"
    BY <1>1, <2>1 DEF LocksOf
  <2>2. CASE pc[s] # "checked"
    <3>1. Len(need[s]) = 0
      BY <1>1, <2>2, EmptySeq DEF LocksOf
    <3> QED
      BY <3>1
  <2> QED
    BY <2>1, <2>2
<1> QED
  BY <1>1, <1>2, <1>3 DEF LocksOf

\* A table that is locked and in the cache is in the store: who has written its
\* entry and not yet changed the cache does not hold it, and so has created it.
LEMMA CachedIsStored ==
  ASSUME TypeInv, LocksKept, BatchesPlanned, Agree, Clean, NEW s \in Sessions, pc[s] = "locking", need[s] = <<>>,
         NEW n \in TableLocks(stmt[s]), TableExists(n)
  PROVE  kv.tabs[n] # None
<1>1. booted /\ n \in Names
  BY HasPlan, PlanFields DEF TypeInv, TypeSteps, TableLocks, Ddl
<1>2. TablesAgree /\ WrittenIsThere
  BY <1>1 DEF Agree
<1>3. CASE cache.tabs[n] = kv.tabs[n]
  BY <1>3 DEF TableExists, GetTable
<1>4. ASSUME NEW t \in Sessions, pc[t] = "applying", n \in DOMAIN batch[t].tabs PROVE kv.tabs[n] # None
  <2>1. CASE stmt[t].op # "create"
    <3>1. n \in TableLocks(stmt[t]) /\ t # s
      BY <1>4, <2>1, EntriesLocked
    <3>2. mu[n] = t /\ mu[n] = s
      BY <1>4, <3>1, HoldsTable, HoldsTables
    <3> QED
      BY <3>1, <3>2
  <2>2. CASE stmt[t].op = "create"
    <3>1. batch[t].tabs[n] = stmt[t].meta /\ stmt[t].meta \in Metas
      <4>1. stmt[t] \in Plans /\ DOMAIN batch[t].tabs = {stmt[t].name} /\ batch[t].tabs[stmt[t].name] = stmt[t].meta
        BY <1>4, <2>2, BatchTabs
      <4> QED
        BY <1>4, <2>2, <4>1, PlanFields
    <3>2. kv.tabs[n] = batch[t].tabs[n]
      BY <1>2, <1>4 DEF WrittenIsThere, Pending
    <3> QED
      BY <3>1, <3>2, NoneAssumption
  <2> QED
    BY <2>1, <2>2
<1>5. cache.tabs[n] # None
  BY DEF TableExists, GetTable
<1> QED
  BY <1>1, <1>2, <1>3, <1>4, <1>5 DEF TablesAgree, Pending

\* At the start no row is being put.
LEMMA InitBacked == Init => Backed
  BY DEF Init, Backed

\* A table that a row is put into stays there: DROP needs the lock that the writer has.
LEMMA BackedStep == TypeInv /\ LocksKept /\ BatchesPlanned /\ Agree /\ Backed /\ [Next]_vars => Backed'
<1> DEFINE Needs(t) == \/ pc[t] \in {"checked", "writing"} /\ stmt[t].op = "insert"
                       \/ pc[t] = "writing" /\ stmt[t].op = "update"
<1> SUFFICES ASSUME TypeInv, LocksKept, BatchesPlanned, Agree, Backed, [Next]_vars, Clean',
                    NEW t \in Sessions, Needs(t)'
             PROVE  kv'.tabs[stmt'[t].name] # None
  BY DEF Backed
<1>1. ASSUME exposed \subseteq exposed', pc'[t] = pc[t], stmt'[t] = stmt[t], kv' = kv
      PROVE  kv'.tabs[stmt'[t].name] # None
  BY <1>1 DEF Backed, Clean
<1>2. ASSUME NEW s \in Sessions, Quiet(s) PROVE kv'.tabs[stmt'[t].name] # None
  <2>1. CASE t # s \/ pc[t] = "checked"
    BY <1>1, <1>2, <2>1 DEF Quiet, Apart
  <2>2. CASE t = s /\ pc[t] # "checked"
    <3>1. /\ stmt'[t] = stmt[t] /\ stmt[t].op = "insert" /\ need[t] = <<>> /\ pc[t] = "locking"
          /\ TableExists(stmt[t].name) /\ kv' = kv /\ exposed \subseteq exposed'
      BY <1>2, <2>2 DEF Quiet
    <3>2. Clean /\ stmt[t].name \in TableLocks(stmt[t])
      BY <3>1 DEF Clean, TableLocks
    <3> QED
      BY <3>1, <3>2, CachedIsStored
  <2> QED
    BY <2>1, <2>2
<1>3. ASSUME NEW s \in Sessions, Puts(s) PROVE kv'.tabs[stmt'[t].name] # None
  <2>1. PICK b, found : Put(s, b, found)
    BY <1>3 DEF Puts
  <2>2. Apart(s) /\ pc'[s] = "writing" /\ stmt'[s] = stmt[s] /\ kv' = kv /\ exposed \subseteq exposed'
    BY <2>1, PutIs
  <2>3. CASE t # s
    BY <1>1, <2>2, <2>3 DEF Apart
  <2>4. CASE t = s /\ stmt[t].op = "insert"
    BY <2>1, <2>2, <2>4 DEF Put, Backed, Clean
  <2>5. CASE t = s /\ stmt[t].op = "update"
    <3>1. TableExists(stmt[t].name) /\ need[t] = <<>> /\ pc[t] = "locking"
      BY <1>3, <2>1, <2>5 DEF Put, Puts, TypeInv, TypeSteps
    <3>2. Clean /\ stmt[t].name \in TableLocks(stmt[t])
      BY <2>2, <2>5 DEF Clean, TableLocks
    <3> QED
      BY <2>2, <2>5, <3>1, <3>2, CachedIsStored
  <2> QED
    BY <2>2, <2>3, <2>4, <2>5
<1>4. ASSUME NEW s \in Sessions, Write(s) PROVE kv'.tabs[stmt'[t].name] # None
  <2>1. t # s /\ pc'[t] = pc[t] /\ stmt'[t] = stmt[t] /\ exposed \subseteq exposed' /\ pc[s] = "writing"
    BY <1>4, WriteIs DEF Apart
  <2>2. PICK n : n = stmt[t].name
    OBVIOUS
  <2>3. kv.tabs[n] # None /\ n \in TableLocks(stmt[t]) /\ n \in Names
    BY <2>1, <2>2, HasPlan, PlanFields DEF Backed, Clean, TableLocks
  <2>4. mu[n] = t
    BY <2>1, <2>3, HoldsTable
  <2>5. kv'.tabs[n] = IF n \in DOMAIN batch[s].tabs THEN batch[s].tabs[n] ELSE kv.tabs[n]
    BY <1>4, <2>3, WriteEntries
  <2>6. CASE n \notin DOMAIN batch[s].tabs
    BY <2>1, <2>2, <2>3, <2>5, <2>6
  <2>7. CASE n \in DOMAIN batch[s].tabs /\ stmt[s].op # "create"
    BY <2>1, <2>4, <2>7, EntriesLocked, HoldsTable
  <2>8. CASE n \in DOMAIN batch[s].tabs /\ stmt[s].op = "create"
    <3>1. batch[s].tabs[n] = stmt[s].meta /\ stmt[s].meta \in Metas
      <4>1. stmt[s] \in Plans /\ DOMAIN batch[s].tabs = {stmt[s].name} /\ batch[s].tabs[stmt[s].name] = stmt[s].meta
        BY <2>1, <2>8, BatchTabs
      <4> QED
        BY <2>1, <2>8, <4>1, PlanFields
    <3> QED
      BY <2>1, <2>2, <2>5, <2>8, <3>1, NoneAssumption
  <2> QED
    BY <2>6, <2>7, <2>8
<1>5. ASSUME NEW s \in Sessions, Apply(s) PROVE kv'.tabs[stmt'[t].name] # None
  BY <1>1, <1>5, ApplyIs DEF Apart
<1>6. CASE LateCommit
  BY <1>6 DEF LateCommit, Clean
<1>7. CASE Restart
  BY <1>7, RestartIs
<1>8. CASE Idles
  BY <1>1, <1>8 DEF Idles
<1> QED
  BY <1>2, <1>3, <1>4, <1>5, <1>6, <1>7, <1>8, KindsOfSteps

\* The empty store is consistent.
LEMMA InitConsistent == Init => Consistent
<1> SUFFICES ASSUME Init PROVE TablesHaveDatabases /\ RowsHaveTables /\ ForeignKeysResolve
  BY DEF Consistent
<1>1. PICK dbs \in SUBSET Dbs, tabs \in [Names -> {None} \cup {m \in Metas : m.version = 0 /\ m.cols = <<>>}],
           count \in [Names -> 0..MaxKey] :
        /\ \A n \in Names : IF tabs[n] = None THEN count[n] = 0 ELSE Db(n) \in dbs
        /\ kv = [dbs |-> dbs, tabs |-> tabs, rows |-> {r \in Names \X Keys : r[2] <= count[r[1]]},
                 seqs |-> [n \in Names |-> IF tabs[n] # None /\ tabs[n].snow THEN count[n] ELSE None]]
  BY DEF Init
<1>2. /\ kv.dbs = dbs /\ kv.tabs = tabs /\ kv.rows = {r \in Names \X Keys : r[2] <= count[r[1]]}
      /\ \A n \in Names : kv.seqs[n] = IF tabs[n] # None /\ tabs[n].snow THEN count[n] ELSE None
  BY <1>1
<1>3. TablesHaveDatabases
  BY <1>1, <1>2 DEF TablesHaveDatabases, Stored
<1>4. \A r \in kv.rows : r[1] \in Stored
  <2> SUFFICES ASSUME NEW r \in kv.rows PROVE r[1] \in Stored
    OBVIOUS
  <2>1. r[1] \in Names /\ r[2] \in Keys /\ r[2] <= count[r[1]]
    BY <1>2
  <2>2. count[r[1]] # 0
    BY <2>1, StatementsAssumption DEF Keys
  <2> QED
    BY <1>1, <1>2, <2>1, <2>2 DEF Stored
<1>5. RowsHaveTables
  BY <1>2, <1>4 DEF RowsHaveTables, Stored
<1>6. ForeignKeysResolve
  <2>1. ForeignKeys(<<>>) = {}
    BY NoEntries DEF ForeignKeys, Range
  <2> QED
    BY <1>1, <1>2, <2>1 DEF ForeignKeysResolve, Dangling, Stored
<1> QED
  BY <1>3, <1>5, <1>6

\* A write of a plan that is still valid leaves the store consistent.
LEMMA WriteConsistent ==
  ASSUME TypeInv, LocksKept, BatchesPlanned, ReadsKept, Backed, Consistent, NEW s \in Sessions, Write(s)
  PROVE  Consistent'
<1> SUFFICES ASSUME Clean', "scan_cut" \notin exposed'
             PROVE  /\ TablesHaveDatabases' /\ RowsHaveTables'
                    /\ "renamed_target" \notin exposed' => ForeignKeysResolve'
  BY DEF Consistent
<1> DEFINE p == stmt[s]
           b == batch[s]
<1>1. pc[s] = "writing" /\ exposed \subseteq exposed' /\ ~Stale(p)
  BY WriteIs DEF Clean
<1>2. Clean /\ "scan_cut" \notin exposed /\ "unanswered" \notin exposed
  BY <1>1 DEF Clean
<1>3. TablesHaveDatabases /\ RowsHaveTables /\ ("renamed_target" \notin exposed => ForeignKeysResolve)
  BY <1>2 DEF Consistent
<1>4. p \in Plans /\ Planned(p)
  BY <1>1, HasPlan
<1>5. /\ p.op = "drop_db" => p.db \in kv.dbs /\ {n \in Stored : Db(n) = p.db} = p.tables
      /\ p.op = "create" => /\ Db(p.name) \in kv.dbs /\ kv.tabs[p.name] = None
                            /\ \A t \in ForeignKeys(p.meta.cols) : <<Db(p.name), t>> \in Stored
      /\ p.op = "drop" => \A m \in Referring(p.name) : m = p.name
      /\ p.op = "alter" => /\ kv.tabs[p.name] = p.meta
                           /\ \A t \in ForeignKeys(p.new.cols) \ ForeignKeys(p.meta.cols) : <<Db(p.name), t>> \in Stored
      /\ p.op = "rename" => kv.tabs[p.name] = p.meta /\ p.to \notin Stored
  BY <1>1, <1>4, FreshPlan
<1>6. /\ kv'.dbs = (kv.dbs \ b.oldDbs) \cup b.newDbs
      /\ DOMAIN b.tabs \subseteq Names /\ DOMAIN b.seqs \subseteq Names
      /\ \A n \in Names : kv'.tabs[n] = IF n \in DOMAIN b.tabs THEN b.tabs[n] ELSE kv.tabs[n]
      /\ \A n \in Names : kv'.seqs[n] = IF n \in DOMAIN b.seqs THEN b.seqs[n] ELSE kv.seqs[n]
  BY WriteEntries
<1>7. /\ p.op \notin {"drop_db", "create", "drop", "alter", "rename"} => DOMAIN b.tabs = {}
      /\ p.op = "drop_db" => DOMAIN b.tabs = p.tables /\ \A n \in p.tables : b.tabs[n] = None
      /\ p.op \in {"create", "drop", "alter"} => DOMAIN b.tabs = {p.name}
      /\ p.op = "create" => b.tabs[p.name] = p.meta
      /\ p.op = "drop" => b.tabs[p.name] = None
      /\ p.op = "alter" => b.tabs[p.name] = [p.new EXCEPT !.version = p.meta.version + 1]
      /\ p.op = "rename" => /\ DOMAIN b.tabs = {p.name, p.to} /\ p.name # p.to
                            /\ b.tabs[p.name] = None /\ b.tabs[p.to] = p.meta
  BY <1>1, BatchTabs
<1>8. b.newDbs = (IF p.op = "create_db" THEN {p.db} ELSE {}) /\ b.oldDbs = (IF p.op = "drop_db" THEN {p.db} ELSE {})
  BY <1>1, BatchTabs
<1>9. /\ p.op \notin {"create_db", "drop_db"} => p.name \in Names
      /\ p.op \in {"create", "alter", "rename"} => p.meta \in Metas /\ p.meta # None
      /\ p.op = "rename" => p.to \in Names /\ Db(p.to) = Db(p.name)
      /\ p.op = "alter" => p.new \in Metas /\ p.new.snow = p.meta.snow
  BY <1>4, PlanFields, NoneAssumption DEF Planned
<1>10. p.op = "alter" => b.tabs[p.name].cols = p.new.cols /\ b.tabs[p.name].snow = p.meta.snow
  BY <1>7, <1>9 DEF Metas
<1>11. kv'.rows = (kv.rows \ b.dels) \cup b.puts
  BY DEF Write, Committed
<1>12. RowsRead(p, b, exposed) /\ PlanSeqs(p, b.seqs) /\ PlanRows(p, b)
  BY <1>1, <1>2 DEF ReadsKept, BatchesPlanned, PlannedBatch
<1>13. p.op \in {"insert", "update"} => kv.tabs[p.name] # None
  BY <1>1, <1>2 DEF Backed
<1> HIDE DEF p, b
\* The tables that the write takes away.
<1>14. ASSUME NEW n \in Names, kv'.tabs[n] = None, kv.tabs[n] # None
       PROVE  \/ p.op \in {"drop", "rename"} /\ n = p.name
              \/ p.op = "drop_db" /\ n \in p.tables
  <2>0. None \notin Metas
    BY NoneAssumption
  <2>1. n \in DOMAIN b.tabs /\ b.tabs[n] = None
    BY <1>6, <1>14
  <2>2. p.op = "alter" => [p.new EXCEPT !.version = p.meta.version + 1] # None
    <3>1. p.op = "alter" => b.tabs[p.name] \in Metas
      <4>1. IsBatch(b) /\ MetasNow \subseteq Metas
        BY DEF TypeInv, TypeBatches, MetasNow, b
      <4>2. p.op = "alter" => p.new \in Metas /\ p.meta \in Metas
        BY <1>9
      <4>3. p.op = "alter" => p.meta.version < stmts /\ stmts \in 0..MaxStmts
        BY <1>4 DEF Planned, TypeInv, TypeRest, p
      <4>4. p.op = "alter" => [p.new EXCEPT !.version = p.meta.version + 1] \in Metas
        BY <4>2, <4>3, StatementsAssumption DEF Metas
      <4> QED
        BY <1>7, <4>4
    <3> QED
      BY <1>7, <2>0, <3>1
  <2> QED
    BY <1>7, <1>9, <2>1, <2>2
<1>15. TablesHaveDatabases'
  <2> SUFFICES ASSUME NEW n \in Names, kv'.tabs[n] # None PROVE Db(n) \in kv'.dbs
    BY DEF TablesHaveDatabases, Stored
  <2>1. CASE n \in DOMAIN b.tabs
    <3>1. p.op \in {"create", "alter", "rename"} /\ Db(n) = Db(p.name) /\ p.name \in Names
      BY <1>6, <1>7, <1>9, <2>1
    <3>2. p.op \in {"alter", "rename"} => p.name \in Stored
      BY <1>5, <1>9, <3>1 DEF Stored
    <3>3. Db(n) \in kv.dbs
      BY <1>3, <1>5, <3>1, <3>2 DEF TablesHaveDatabases
    <3> QED
      BY <1>6, <1>8, <3>1, <3>3
  <2>2. CASE n \notin DOMAIN b.tabs
    <3>1. n \in Stored /\ Db(n) \in kv.dbs
      BY <1>3, <1>6, <2>2 DEF TablesHaveDatabases, Stored
    <3>2. p.op = "drop_db" => Db(n) # p.db
      BY <1>5, <1>7, <2>2, <3>1
    <3> QED
      BY <1>6, <1>8, <3>1, <3>2
  <2> QED
    BY <2>1, <2>2
<1>16. \A r \in kv'.rows : r[1] \in Stored'
  <2> SUFFICES ASSUME NEW r \in kv'.rows PROVE r[1] \in Names /\ kv'.tabs[r[1]] # None
    BY DEF Stored
  <2>1. CASE r \in b.puts
    <3>1. r[1] \in TableLocks(p) /\ p.op \in {"rename", "insert", "update"}
      BY <1>4, <1>12, <2>1, PlanFields DEF PlanRows, p, Ddl
    <3>2. p.op = "rename" => r[1] = p.to
      BY <1>12, <2>1 DEF PlanRows, Rows
    <3>3. p.op \in {"insert", "update"} => r[1] = p.name
      BY <3>1 DEF TableLocks
    <3> QED
      BY <1>6, <1>7, <1>9, <1>13, <3>1, <3>2, <3>3
  <2>2. CASE r \notin b.puts
    <3>1. r \in kv.rows /\ r \notin b.dels /\ r \in Names \X Keys
      BY <1>11, <2>2 DEF TypeInv, TypeStore
    <3>2. PICK n \in Names, k \in Keys : r = <<n, k>>
      BY <3>1
    <3>3. n \in Stored /\ r \in Rows(n, RowsOf(n))
      BY <1>3, <3>1, <3>2 DEF RowsHaveTables, Rows, RowsOf
    <3>4. SUFFICES ASSUME kv'.tabs[n] = None PROVE FALSE
      BY <3>2
    <3>5. (p.op \in {"drop", "rename"} /\ n = p.name) \/ (p.op = "drop_db" /\ n \in p.tables)
      BY <1>14, <3>3, <3>4 DEF Stored
    <3> QED
      BY <1>2, <1>12, <3>1, <3>3, <3>5 DEF RowsRead
  <2> QED
    BY <2>1, <2>2
<1>17. ASSUME NEW n \in Names, kv'.seqs[n] # None PROVE kv'.tabs[n] # None
  <2>1. CASE n \in DOMAIN b.seqs
    <3>1. b.seqs[n] # None
      BY <1>6, <1>17, <2>1
    <3>2. p.op \notin {"create_db", "alter", "update", "delete", "drop", "drop_db"}
      BY <1>12, <2>1, <3>1 DEF PlanSeqs, One
    <3>3. p.op = "create" => n = p.name
      BY <1>12, <2>1 DEF PlanSeqs, One
    <3>4. p.op = "rename" => n = p.to
      BY <1>12, <2>1, <3>1 DEF PlanSeqs
    <3>5. p.op = "insert" => n = p.name
      BY <1>12, <2>1 DEF PlanSeqs
    <3>6. p.op \in {"create", "rename", "insert"}
      BY <1>4, <3>2, PlanFields DEF Ddl, p
    <3> QED
      BY <1>6, <1>7, <1>9, <1>13, <3>3, <3>4, <3>5, <3>6
  <2>2. CASE n \notin DOMAIN b.seqs
    <3>1. kv.seqs[n] # None /\ kv.tabs[n] # None
      BY <1>3, <1>6, <1>17, <2>2 DEF RowsHaveTables, Stored
    <3>2. p.op \in {"drop", "rename"} => p.name \in DOMAIN b.seqs
      BY <1>12 DEF PlanSeqs, One
    <3>3. p.op = "drop_db" => DOMAIN b.seqs = p.tables
      BY <1>12 DEF PlanSeqs
    <3> QED
      BY <1>14, <2>2, <3>1, <3>2, <3>3
  <2> QED
    BY <2>1, <2>2
<1>18. RowsHaveTables'
  BY <1>16, <1>17 DEF RowsHaveTables, Stored
<1>19. "renamed_target" \notin exposed' => ForeignKeysResolve /\ (p.op = "rename" => Referring(p.name) = {})
  BY <1>1, <1>3, WriteIs DEF LeavesReferences, p
\* The table that a foreign key of n refers to.
<1>20. ASSUME "renamed_target" \notin exposed', NEW n \in Names, kv'.tabs[n] # None,
              NEW t \in ForeignKeys(kv'.tabs[n].cols), NEW f, f = <<Db(n), t>>
       PROVE  f \in Names /\ kv'.tabs[f] # None
  <2>1. f \in Names /\ f[2] = t /\ Db(f) = Db(n)
    BY <1>20 DEF ForeignKeys, Names, Db
  <2>2. \A m \in Stored : t \in ForeignKeys(kv.tabs[m].cols) => <<Db(m), t>> \in Stored
    BY <1>19, <1>20 DEF ForeignKeysResolve, Dangling
  <2>3. \A m \in Stored : Db(m) = Db(n) /\ t \in ForeignKeys(kv.tabs[m].cols) => m \in Referring(f)
    BY <2>1 DEF Referring
  <2>4. CASE n \in DOMAIN b.tabs
    <3>1. p.op \in {"create", "alter", "rename"} /\ (p.op \in {"create", "alter"} => n = p.name) /\ (p.op = "rename" => n = p.to)
      BY <1>6, <1>7, <1>20, <2>4
    <3>2. t \in ForeignKeys(IF p.op = "alter" THEN p.new.cols ELSE p.meta.cols) /\ Db(n) = Db(p.name)
      BY <1>6, <1>7, <1>9, <1>10, <1>20, <2>4, <3>1
    <3>3. p.op \in {"alter", "rename"} => p.name \in Stored /\ kv.tabs[p.name] = p.meta
      BY <1>5, <1>9 DEF Stored
    <3>4. f \in Stored
      <4>1. CASE p.op = "create"
        BY <1>5, <1>20, <3>2, <4>1
      <4>2. CASE p.op \in {"alter", "rename"} /\ t \in ForeignKeys(p.meta.cols)
        BY <1>20, <2>2, <3>2, <3>3, <4>2
      <4>3. CASE p.op = "alter" /\ t \notin ForeignKeys(p.meta.cols)
        BY <1>5, <1>20, <3>2, <4>3
      <4> QED
        BY <3>1, <3>2, <4>1, <4>2, <4>3
    <3>5. p.op = "rename" => f # p.name
      BY <1>19, <1>20, <2>3, <3>2, <3>3
    <3> QED
      BY <1>14, <2>1, <3>1, <3>4, <3>5 DEF Stored
  <2>5. CASE n \notin DOMAIN b.tabs
    <3>1. kv'.tabs[n] = kv.tabs[n] /\ n \in Stored
      BY <1>6, <1>20, <2>5 DEF Stored
    <3>2. f \in Stored /\ n \in Referring(f)
      BY <1>20, <2>2, <2>3, <3>1
    <3>3. p.op \in {"drop", "rename"} => f # p.name
      BY <1>5, <1>7, <1>19, <1>20, <2>5, <3>2
    <3>4. p.op = "drop_db" => f \notin p.tables
      BY <1>5, <1>7, <2>1, <2>5, <3>1
    <3> QED
      BY <1>14, <2>1, <3>2, <3>3, <3>4 DEF Stored
  <2> QED
    BY <2>4, <2>5
<1>21. "renamed_target" \notin exposed' => ForeignKeysResolve'
  BY <1>20 DEF ForeignKeysResolve, Dangling, Stored
<1> QED
  BY <1>15, <1>18, <1>21

\* Every step keeps the store consistent.
LEMMA ConsistentStep ==
  TypeInv /\ LocksKept /\ BatchesPlanned /\ ReadsKept /\ Backed /\ Consistent /\ [Next]_vars => Consistent'
<1> SUFFICES ASSUME TypeInv, LocksKept, BatchesPlanned, ReadsKept, Backed, Consistent, [Next]_vars PROVE Consistent'
  OBVIOUS
<1>1. ASSUME kv' = kv, exposed \subseteq exposed' PROVE Consistent'
  BY <1>1 DEF Consistent, Clean, TablesHaveDatabases, RowsHaveTables, ForeignKeysResolve, Dangling, Stored
<1>2. ASSUME NEW s \in Sessions, Quiet(s) \/ Puts(s) \/ Apply(s) PROVE Consistent'
  BY <1>1, <1>2, PutIs, ApplyIs DEF Quiet, Puts
<1>3. CASE LateCommit
  BY <1>3 DEF LateCommit, Consistent, Clean
<1>4. CASE Restart
  BY <1>1, <1>4, RestartIs
<1>5. CASE Idles
  BY <1>1, <1>5 DEF Idles
<1> QED
  BY <1>2, <1>3, <1>4, <1>5, WriteConsistent, KindsOfSteps

\* All of the above, without the counters.
Core == TypeInv /\ LocksKept /\ BatchesPlanned /\ ReadsKept /\ Agree /\ Backed /\ Consistent

\* The conjunction is inductive.
LEMMA CoreInvariant == (Init => Core) /\ (Core /\ [Next]_vars => Core')
  BY InitTypes, InitLocks, InitBatches, InitReads, InitAgree, InitBacked, InitConsistent,
     TypeStep, LocksStep, BatchesStep, ReadsStep, AgreeStep, BackedStep, ConsistentStep DEF Core

\* The store can always be loaded and holds no row or counter of a table that is
\* gone, nor a foreign key to one unless a table that was referred to has been
\* renamed: a DML statement that was planned before its table was dropped finds
\* out under the table's lock, and a catalog loaded in part misleads the planner
\* only into plans that are stale.
THEOREM StoreStaysConsistent == Spec => []StoreIsConsistent
<1>1. Core => StoreIsConsistent
  BY DEF Core, StoreIsConsistent, Consistent, Clean
<1> QED
  BY <1>1, CoreInvariant, PTL DEF Spec

------------------------------------------------------------------------------
(* Counters *)

\* A table that is not there has no rows.
LEMMA NoRows ==
  ASSUME TypeInv, RowsHaveTables, NEW n \in Names, kv.tabs[n] = None
  PROVE  RowsOf(n) = {} /\ \A k : <<n, k>> \notin kv.rows
<1>1. ASSUME NEW k, <<n, k>> \in kv.rows PROVE FALSE
  <2>1. <<n, k>>[1] = n
    OBVIOUS
  <2>2. n \in Stored
    BY <1>1, <2>1 DEF RowsHaveTables
  <2> QED
    BY <2>2 DEF Stored
<1> QED
  BY <1>1 DEF RowsOf

\* At the start there are no counters.
LEMMA InitCounters == Init => SequencesRead /\ SequenceAhead
<1> SUFFICES ASSUME Init PROVE SequencesRead /\ SequenceAhead
  OBVIOUS
<1>1. PICK dbs \in SUBSET Dbs, tabs \in [Names -> {None} \cup {m \in Metas : m.version = 0 /\ m.cols = <<>>}],
           count \in [Names -> 0..MaxKey] :
        kv = [dbs |-> dbs, tabs |-> tabs, rows |-> {r \in Names \X Keys : r[2] <= count[r[1]]},
              seqs |-> [n \in Names |-> IF tabs[n] # None /\ tabs[n].snow THEN count[n] ELSE None]]
  BY DEF Init
<1>2. /\ kv.tabs = tabs /\ kv.rows = {r \in Names \X Keys : r[2] <= count[r[1]]}
      /\ \A n \in Names : kv.seqs[n] = IF tabs[n] # None /\ tabs[n].snow THEN count[n] ELSE None
  BY <1>1
<1>3. ASSUME NEW n \in Stored, kv.tabs[n].snow, NEW k \in RowsOf(n) PROVE k <= Sequence(n)
  <2>1. n \in Names /\ tabs[n] # None /\ kv.seqs[n] = count[n] /\ count[n] \in 0..MaxKey
    BY <1>2, <1>3 DEF Stored
  <2>2. Sequence(n) = count[n]
    BY <2>1, NoneAssumption DEF Sequence
  <2>3. <<n, k>> \in kv.rows /\ <<n, k>>[1] = n /\ <<n, k>>[2] = k
    BY <1>3 DEF RowsOf
  <2> QED
    BY <1>2, <2>2, <2>3
<1>4. SequenceAhead
  BY <1>3 DEF SequenceAhead
<1>5. SequencesRead
  BY DEF Init, SequencesRead
<1> QED
  BY <1>4, <1>5

\* A RENAME that has read its table while the counter was ahead moves it so.
LEMMA RenameCounter ==
  ASSUME TypeInv, SequenceAhead, exposed = {}, NEW p \in Plans, Planned(p), p.op = "rename", p.meta.snow,
         kv.tabs[p.name] = p.meta, NEW b, PlanRows(p, b), b.dels \subseteq kv.rows, b.seqs = RenamedSeq(p.name, p.to),
         NEW r \in b.puts
  PROVE  p.to \in DOMAIN b.seqs /\ b.seqs[p.to] \in 0..MaxKey /\ r[2] <= b.seqs[p.to]
<1>1. p.name \in Names /\ p.to \in Names /\ p.name # p.to /\ p.meta # None
  BY PlanFields, NoneAssumption DEF Planned
<1>2. PICK ks \in SUBSET Keys : b.dels = Rows(p.name, ks) /\ b.puts = Rows(p.to, ks)
  BY DEF PlanRows
<1>3. PICK k \in ks : r = <<p.to, k>>
  BY <1>2 DEF Rows
<1>4. <<p.name, k>> \in kv.rows /\ k \in Keys
  BY <1>2, <1>3 DEF Rows
<1>5. k <= Sequence(p.name)
  BY <1>1, <1>4 DEF SequenceAhead, Stored, RowsOf
<1>6. kv.seqs[p.name] \in 0..MaxKey /\ kv.seqs[p.name] # None /\ k <= kv.seqs[p.name]
  BY <1>1, <1>4, <1>5, StatementsAssumption DEF Sequence, Keys, TypeInv, TypeStore
<1>7. b.seqs = Over(One(p.name, None), One(p.to, kv.seqs[p.name]))
  BY <1>6 DEF RenamedSeq
<1>8. p.to \in DOMAIN b.seqs /\ b.seqs[p.to] = kv.seqs[p.name]
  BY <1>1, <1>7 DEF Over, One
<1> QED
  BY <1>3, <1>6, <1>8

\* The counter a statement read stays: it holds the table, and INSERT also sequenceMu.
LEMMA SequencesStep == Core /\ SequencesRead /\ SequenceAhead /\ [Next]_vars => SequencesRead'
<1> DEFINE Moves(t) ==
             stmt[t].op = "rename" /\ stmt[t].meta.snow /\ kv.tabs[stmt[t].name] = stmt[t].meta =>
               \A r \in batch[t].puts :
                 /\ stmt[t].to \in DOMAIN batch[t].seqs /\ batch[t].seqs[stmt[t].to] \in 0..MaxKey
                 /\ r[2] <= batch[t].seqs[stmt[t].to]
           Counts(t) ==
             stmt[t].op = "insert" /\ stmt[t].meta.snow =>
               /\ batch[t].seqs[stmt[t].name] \in 0..MaxKey /\ Sequence(stmt[t].name) <= batch[t].seqs[stmt[t].name]
               /\ \A r \in batch[t].puts : r[2] <= batch[t].seqs[stmt[t].name]
<1> SUFFICES ASSUME Core, SequencesRead, SequenceAhead, [Next]_vars, exposed' = {}, NEW t \in Sessions, pc'[t] = "writing"
             PROVE  Moves(t)' /\ Counts(t)'
  BY DEF SequencesRead
<1> USE DEF Core
<1>1. ASSUME kv' = kv, exposed = {}, pc'[t] = pc[t], stmt'[t] = stmt[t], batch'[t] = batch[t] PROVE Moves(t)' /\ Counts(t)'
  BY <1>1 DEF SequencesRead, Sequence
<1>2. ASSUME NEW s \in Sessions, Quiet(s) \/ Apply(s) PROVE Moves(t)' /\ Counts(t)'
  BY <1>1, <1>2, ApplyIs DEF Quiet, Apart
<1>3. ASSUME NEW s \in Sessions, Puts(s) PROVE Moves(t)' /\ Counts(t)'
  <2>1. PICK b, found : Put(s, b, found)
    BY <1>3 DEF Puts
  <2>2. /\ Apart(s) /\ pc'[s] = "writing" /\ stmt'[s] = stmt[s] /\ batch'[s] = b /\ kv' = kv /\ exposed = {}
    BY <2>1, PutIs
  <2>3. CASE t # s
    BY <1>1, <2>2, <2>3 DEF Apart
  <2>4. CASE t = s
    <3>1. PICK p : p = stmt[t]
      OBVIOUS
    <3>2. p \in Plans /\ Planned(p) /\ stmt'[t] = p /\ batch'[t] = b
      BY <1>3, <2>2, <2>4, <3>1, HasPlan DEF Puts
    <3>3. PlanRows(p, b) /\ b.dels \subseteq kv.rows /\ CountersRead(p, b)
      BY <2>1, <2>4, <3>1 DEF Put, PlannedBatch, RowsRead
    <3>4. Moves(t)'
      <4> SUFFICES ASSUME p.op = "rename", p.meta.snow, kv.tabs[p.name] = p.meta, NEW r \in b.puts
                   PROVE  p.to \in DOMAIN b.seqs /\ b.seqs[p.to] \in 0..MaxKey /\ r[2] <= b.seqs[p.to]
        BY <2>2, <3>2
      <4> QED
        BY <2>2, <3>2, <3>3, RenameCounter DEF CountersRead
    <3>5. Counts(t)'
      BY <2>2, <3>2, <3>3 DEF CountersRead, Sequence
    <3> QED
      BY <3>4, <3>5
  <2> QED
    BY <2>3, <2>4
<1>4. ASSUME NEW s \in Sessions, Write(s) PROVE Moves(t)' /\ Counts(t)'
  <2>1. /\ t # s /\ pc'[t] = pc[t] /\ stmt'[t] = stmt[t] /\ batch'[t] = batch[t] /\ exposed = {}
        /\ pc[s] = "writing" /\ pc[t] = "writing" /\ ~Stale(stmt[s])
    BY <1>4, WriteIs DEF Apart
  <2>2. PICK p, b, n : p = stmt[t] /\ b = batch[t] /\ n = p.name
    OBVIOUS
  <2>3. p \in Plans /\ stmt[s] \in Plans
    BY <2>1, <2>2, HasPlan
  <2>4. RowsHaveTables /\ Clean
    BY <2>1 DEF Consistent, Clean
  <2>5. p.op \in {"rename", "insert"} => n \in Names /\ n \in TableLocks(p) /\ n \notin TableLocks(stmt[s])
    BY <2>1, <2>2, <2>3, PlanFields, WritersReady, TablesApart DEF TableLocks
  <2>6. stmt[s].op = "create" /\ (n \in DOMAIN batch[s].tabs \/ n \in DOMAIN batch[s].seqs) => kv.tabs[n] = None
    <3> SUFFICES ASSUME stmt[s].op = "create", n \in DOMAIN batch[s].tabs \/ n \in DOMAIN batch[s].seqs
                 PROVE  kv.tabs[n] = None
      OBVIOUS
    <3>1. DOMAIN batch[s].tabs = {stmt[s].name} /\ DOMAIN batch[s].seqs \subseteq {stmt[s].name}
      <4>1. DOMAIN batch[s].tabs = {stmt[s].name}
        BY <2>1, BatchTabs
      <4>2. batch[s].seqs = IF stmt[s].meta.snow THEN One(stmt[s].name, 0) ELSE <<>>
        BY <2>1 DEF BatchesPlanned, PlannedBatch, PlanSeqs
      <4>3. DOMAIN batch[s].seqs \subseteq {stmt[s].name}
        BY <4>2 DEF One
      <4> QED
        BY <4>1, <4>3
    <3> QED
      BY <2>1, <2>3, <3>1, FreshPlan
  <2>7. Moves(t)'
    <3> SUFFICES ASSUME p.op = "rename", p.meta.snow, kv'.tabs[n] = p.meta, NEW r \in b.puts
                 PROVE  p.to \in DOMAIN b.seqs /\ b.seqs[p.to] \in 0..MaxKey /\ r[2] <= b.seqs[p.to]
      BY <2>1, <2>2
    <3>1. CASE kv.tabs[n] = p.meta
      BY <2>1, <2>2, <3>1 DEF SequencesRead
    <3>2. CASE kv.tabs[n] # p.meta
      <4>1. n \in DOMAIN batch[s].tabs
        BY <1>4, <2>5, <3>2, WriteEntries
      <4>2. kv.tabs[n] = None
        BY <2>1, <2>5, <2>6, <4>1, EntriesLocked
      <4>3. RowsRead(p, b, exposed) /\ PlanRows(p, b)
        BY <2>1, <2>2 DEF ReadsKept, BatchesPlanned, PlannedBatch
      <4>4. PICK ks \in SUBSET Keys : b.dels = Rows(n, ks) /\ b.puts = Rows(p.to, ks)
        BY <2>2, <4>3 DEF PlanRows
      <4>5. PICK k \in ks : r = <<p.to, k>>
        BY <4>4 DEF Rows
      <4>6. <<n, k>> \in kv.rows
        BY <4>3, <4>4, <4>5 DEF RowsRead, Rows
      <4> QED
        BY <2>4, <2>5, <4>2, <4>6, NoRows
    <3> QED
      BY <3>1, <3>2
  <2>8. Counts(t)'
    <3> SUFFICES ASSUME p.op = "insert", p.meta.snow
                 PROVE  /\ b.seqs[n] \in 0..MaxKey /\ Sequence(n)' <= b.seqs[n]
                        /\ \A r \in b.puts : r[2] <= b.seqs[n]
      BY <2>1, <2>2
    <3>1. kv.tabs[n] # None
      BY <2>1, <2>2, <2>4 DEF Backed
    <3>2. n \notin DOMAIN batch[s].seqs
      BY <2>1, <2>5, <2>6, <3>1, EntriesLocked
    <3>3. kv'.seqs[n] = kv.seqs[n]
      BY <1>4, <2>5, <3>2, WriteEntries
    <3> QED
      BY <2>1, <2>2, <3>3 DEF SequencesRead, Sequence
  <2> QED
    BY <2>7, <2>8
<1>5. CASE LateCommit
  BY <1>5 DEF LateCommit
<1>6. CASE Restart
  BY <1>6, RestartIs
<1>7. CASE Idles
  BY <1>1, <1>7 DEF Idles
<1> QED
  BY <1>2, <1>3, <1>4, <1>5, <1>6, <1>7, KindsOfSteps

\* A write leaves every counter at or ahead of the keys of its table, by the kind of statement.
LEMMA WriteAhead ==
  ASSUME Core, SequencesRead, SequenceAhead, NEW s \in Sessions, Write(s)
  PROVE  SequenceAhead'
<1> USE DEF Core
<1> SUFFICES ASSUME exposed' = {}, NEW n \in Names, kv'.tabs[n] # None, kv'.tabs[n].snow, NEW k \in RowsOf(n)'
             PROVE  k <= Sequence(n)'
  BY DEF SequenceAhead, Stored
<1> DEFINE p == stmt[s]
           b == batch[s]
<1>1. pc[s] = "writing" /\ exposed = {} /\ ~Stale(p)
  BY WriteIs
<1>2. RowsHaveTables /\ Clean
  BY <1>1 DEF Consistent, Clean
<1>3. p \in Plans /\ Planned(p)
  BY <1>1, HasPlan
<1>4. /\ kv'.tabs[n] = IF n \in DOMAIN b.tabs THEN b.tabs[n] ELSE kv.tabs[n]
      /\ kv'.seqs[n] = IF n \in DOMAIN b.seqs THEN b.seqs[n] ELSE kv.seqs[n]
      /\ kv'.rows = (kv.rows \ b.dels) \cup b.puts
      /\ <<n, k>> \in kv'.rows /\ k \in Keys
  BY WriteEntries DEF Write, Committed, RowsOf
<1>5. RowsRead(p, b, exposed) /\ PlanSeqs(p, b.seqs) /\ PlanRows(p, b)
  BY <1>1 DEF ReadsKept, BatchesPlanned, PlannedBatch
<1>6. ASSUME kv.tabs[n] # None, kv.tabs[n].snow, kv'.seqs[n] = kv.seqs[n], <<n, k>> \in kv.rows
      PROVE  k <= Sequence(n)'
  <2>1. k <= Sequence(n)
    BY <1>1, <1>4, <1>6 DEF SequenceAhead, Stored, RowsOf
  <2> QED
    BY <1>6, <2>1 DEF Sequence
<1>7. CASE n \notin TableLocks(p) /\ (p.op = "create" => n # p.name)
  <2>1. n \notin DOMAIN b.tabs /\ n \notin DOMAIN b.seqs
    <3>1. CASE p.op # "create"
      BY <1>1, <1>7, <3>1, EntriesLocked
    <3>2. CASE p.op = "create"
      <4>1. DOMAIN b.tabs = {p.name}
        BY <1>1, <3>2, BatchTabs
      <4>2. b.seqs = IF p.meta.snow THEN One(p.name, 0) ELSE <<>>
        BY <1>5, <3>2 DEF PlanSeqs
      <4>3. DOMAIN b.seqs \subseteq {p.name}
        BY <4>2 DEF One
      <4> QED
        BY <1>7, <3>2, <4>1, <4>3
    <3> QED
      BY <3>1, <3>2
  <2>2. <<n, k>> \in kv.rows
    <3>1. <<n, k>>[1] = n
      OBVIOUS
    <3> QED
      BY <1>4, <1>7, <3>1, WriteRows
  <2> QED
    BY <1>4, <1>6, <2>1, <2>2
<1>8. CASE p.op = "create" /\ n = p.name
  <2>1. kv.tabs[n] = None /\ b.puts = {}
    BY <1>1, <1>3, <1>5, <1>8, FreshPlan DEF PlanRows
  <2> QED
    BY <1>2, <1>4, <2>1, NoRows
<1>9. CASE p.op \in {"drop", "drop_db"} /\ n \in TableLocks(p)
  <2>1. CASE p.op = "drop"
    BY <1>1, <1>4, <1>9, <2>1, BatchTabs, ZenonT(40) DEF TableLocks
  <2>2. CASE p.op = "drop_db"
    BY <1>1, <1>4, <1>9, <2>2, BatchTabs, ZenonT(40) DEF TableLocks
  <2> QED
    BY <1>9, <2>1, <2>2
<1>10. CASE p.op = "alter" /\ n \in TableLocks(p)
  <2>1. n = p.name /\ n \in DOMAIN b.tabs /\ b.tabs[n] = [p.new EXCEPT !.version = p.meta.version + 1]
    BY <1>1, <1>10, BatchTabs DEF TableLocks
  <2>2. p.new \in Metas /\ p.meta \in Metas /\ p.meta # None /\ p.new.snow = p.meta.snow /\ kv.tabs[n] = p.meta
    BY <1>1, <1>3, <1>10, <2>1, PlanFields, FreshPlan, NoneAssumption DEF Planned
  <2>3. b.tabs[n].snow = p.new.snow
    BY <2>1, <2>2 DEF Metas
  <2>4. b.dels = {} /\ b.puts = {} /\ n \notin DOMAIN b.seqs
    BY <1>5, <1>10 DEF PlanRows, PlanSeqs
  <2> QED
    BY <1>4, <1>6, <2>1, <2>2, <2>3, <2>4
<1>11. CASE p.op = "rename" /\ n \in TableLocks(p)
  <2>1. /\ DOMAIN b.tabs = {p.name, p.to} /\ p.name # p.to /\ b.tabs[p.name] = None /\ b.tabs[p.to] = p.meta
    BY <1>1, <1>11, BatchTabs
  <2>2. n = p.to /\ kv'.tabs[n] = p.meta
    BY <1>4, <1>11, <2>1 DEF TableLocks
  <2>3. kv.tabs[p.name] = p.meta /\ kv.tabs[n] = None
    BY <1>1, <1>3, <1>11, <2>2, FreshPlan DEF Stored
  <2>4. <<n, k>> \in b.puts /\ <<n, k>>[2] = k
    BY <1>2, <1>4, <2>3, NoRows
  <2>5. n \in DOMAIN b.seqs /\ b.seqs[n] \in 0..MaxKey /\ k <= b.seqs[n]
    BY <1>1, <1>11, <2>2, <2>3, <2>4 DEF SequencesRead
  <2> QED
    BY <1>4, <2>5, NoneAssumption DEF Sequence
<1>12. CASE p.op = "insert" /\ n \in TableLocks(p)
  <2>1. n = p.name /\ DOMAIN b.tabs = {} /\ kv'.tabs[n] = kv.tabs[n]
    BY <1>1, <1>4, <1>12, BatchTabs DEF TableLocks
  <2>2. p.meta.snow
    BY <1>1, <1>3, <1>12, <2>1, FreshPlan
  <2>3. n \in DOMAIN b.seqs
    BY <1>5, <1>12, <2>1, <2>2 DEF PlanSeqs
  <2>4. b.seqs[n] \in 0..MaxKey /\ Sequence(n) <= b.seqs[n] /\ \A r \in b.puts : r[2] <= b.seqs[n]
    BY <1>1, <1>12, <2>1, <2>2 DEF SequencesRead
  <2>5. Sequence(n)' = b.seqs[n]
    BY <1>4, <2>3, <2>4, NoneAssumption DEF Sequence
  <2>6. CASE <<n, k>> \in b.puts
    <3>1. <<n, k>>[2] = k
      OBVIOUS
    <3> QED
      BY <2>4, <2>5, <2>6, <3>1
  <2>7. CASE <<n, k>> \notin b.puts
    <3>1. k <= Sequence(n)
      BY <1>1, <1>4, <2>1, <2>7 DEF SequenceAhead, Stored, RowsOf
    <3>2. Sequence(n) \in 0..MaxKey
      BY StatementsAssumption DEF Sequence, TypeInv, TypeStore
    <3> QED
      BY <1>4, <2>4, <2>5, <3>1, <3>2, StatementsAssumption DEF Keys
  <2> QED
    BY <2>6, <2>7
<1>13. CASE p.op \in {"update", "delete"} /\ n \in TableLocks(p)
  <2>1. DOMAIN b.tabs = {}
    BY <1>1, <1>13, BatchTabs
  <2>2. DOMAIN b.seqs = {}
    <3>1. b.seqs = <<>>
      BY <1>5, <1>13 DEF PlanSeqs
    <3> QED
      BY <3>1
  <2>3. b.puts \subseteq kv.rows
    BY <1>1, <1>5, <1>13 DEF RowsRead, PlanRows
  <2> QED
    BY <1>4, <1>6, <2>1, <2>2, <2>3
<1> QED
  BY <1>3, <1>7, <1>8, <1>9, <1>10, <1>11, <1>12, <1>13, PlanFields DEF Ddl, TableLocks

\* Every step keeps the counters ahead.
LEMMA AheadStep == Core /\ SequencesRead /\ SequenceAhead /\ [Next]_vars => SequenceAhead'
<1> SUFFICES ASSUME Core, SequencesRead, SequenceAhead, [Next]_vars PROVE SequenceAhead'
  OBVIOUS
<1> USE DEF Core
<1>1. ASSUME kv' = kv, exposed \subseteq exposed' PROVE SequenceAhead'
  BY <1>1 DEF SequenceAhead, Stored, RowsOf, Sequence
<1>2. ASSUME NEW s \in Sessions, Quiet(s) \/ Puts(s) \/ Apply(s) PROVE SequenceAhead'
  BY <1>1, <1>2, PutIs, ApplyIs DEF Quiet, Puts
<1>3. CASE LateCommit
  BY <1>3 DEF LateCommit, SequenceAhead
<1>4. CASE Restart
  BY <1>1, <1>4, RestartIs
<1>5. CASE Idles
  BY <1>1, <1>5 DEF Idles
<1> QED
  BY <1>2, <1>3, <1>4, <1>5, WriteAhead, KindsOfSteps

\* A counter is never behind the keys of its table, whatever statements rename,
\* drop and create the table in between: the next INSERT gets a free key.
THEOREM CountersStayAhead == Spec => []SequenceAhead
<1> DEFINE I == Core /\ SequencesRead /\ SequenceAhead
<1>1. Init => I
  BY CoreInvariant, InitCounters
<1>2. I /\ [Next]_vars => I'
  BY CoreInvariant, SequencesStep, AheadStep
<1>3. I => SequenceAhead
  OBVIOUS
<1> QED
  BY <1>1, <1>2, <1>3, PTL DEF Spec

------------------------------------------------------------------------------
(* No row is overwritten *)

\* At the start nothing is being written.
LEMMA InitBalanced == Init => RowsBalanced
  BY DEF Init, RowsBalanced

\* A write elsewhere changes nothing in the tables that an UPDATE has locked, and
\* so not how many of its rows are new.
LEMMA BalancedStep == Core /\ RowsBalanced /\ [Next]_vars => RowsBalanced'
<1> SUFFICES ASSUME Core, RowsBalanced, [Next]_vars, "unanswered" \notin exposed', "scan_cut" \notin exposed',
                    NEW t \in Sessions, pc'[t] = "writing", stmt'[t].op = "update"
             PROVE  Balanced(batch[t])'
  BY DEF RowsBalanced
<1> USE DEF Core
<1> DEFINE Same == pc'[t] = pc[t] /\ stmt'[t] = stmt[t] /\ batch'[t] = batch[t] /\ exposed \subseteq exposed'
<1>1. ASSUME Same, \A r \in batch[t].puts : r \in kv'.rows <=> r \in kv.rows
      PROVE  Balanced(batch[t])'
  <2>1. Balanced(batch[t])
    BY <1>1 DEF RowsBalanced
  <2>2. batch[t].puts \ (kv'.rows \ batch[t].dels) = batch[t].puts \ (kv.rows \ batch[t].dels)
    BY <1>1
  <2> QED
    BY <1>1, <2>1, <2>2 DEF Balanced
<1>2. ASSUME Same, kv' = kv PROVE Balanced(batch[t])'
  BY <1>1, <1>2
<1>3. ASSUME NEW s \in Sessions, Quiet(s) PROVE Balanced(batch[t])'
  BY <1>2, <1>3 DEF Quiet, Apart
<1>4. ASSUME NEW s \in Sessions, Puts(s) PROVE Balanced(batch[t])'
  <2>1. PICK b, found : Put(s, b, found)
    BY <1>4 DEF Puts
  <2>2. /\ Apart(s) /\ stmt'[s] = stmt[s] /\ batch'[s] = b /\ kv' = kv
        /\ exposed \subseteq exposed' /\ found \subseteq exposed'
    BY <2>1, PutIs
  <2>3. CASE s # t
    BY <1>2, <2>2, <2>3 DEF Apart
  <2>4. CASE s = t
    BY <2>1, <2>2, <2>4 DEF Put, Balanced
  <2> QED
    BY <2>3, <2>4
<1>5. ASSUME NEW s \in Sessions, Write(s) PROVE Balanced(batch[t])'
  <2>1. s # t /\ Same /\ pc[s] = "writing" /\ pc[t] = "writing"
    BY <1>5, WriteIs DEF Apart
  <2>2. TableLocks(stmt[s]) \cap TableLocks(stmt[t]) = {}
    BY <2>1, WritersReady, TablesApart
  <2>3. TableLocks(stmt[t]) \subseteq Names
    BY <2>1, HasPlan, PlanFields DEF TableLocks, Ddl
  <2>4. \A n \in TableLocks(stmt[t]) : \A r : r[1] = n => (r \in kv'.rows <=> r \in kv.rows)
    BY <1>5, <2>2, <2>3, WriteRows
  <2>5. \A r \in batch[t].puts : r[1] \in TableLocks(stmt[t])
    BY <2>1 DEF BatchesPlanned, PlannedBatch, PlanRows
  <2> QED
    BY <1>1, <2>1, <2>4, <2>5
<1>6. ASSUME NEW s \in Sessions, Apply(s) PROVE Balanced(batch[t])'
  BY <1>2, <1>6, ApplyIs DEF Apart
<1>7. CASE LateCommit
  BY <1>7 DEF LateCommit
<1>8. CASE Restart
  BY <1>8, RestartIs
<1>9. CASE Idles
  BY <1>2, <1>9 DEF Idles
<1> QED
  BY <1>3, <1>4, <1>5, <1>6, <1>7, <1>8, <1>9, KindsOfSteps

\* The number of rows of two sets that have none in common.
LEMMA Added ==
  ASSUME NEW R, IsFiniteSet(R), NEW P, IsFiniteSet(P), R \cap P = {}
  PROVE  Cardinality(R \cup P) = Cardinality(R) + Cardinality(P)
<1>1. Cardinality(R) \in Nat /\ Cardinality(P) \in Nat
  BY FS_CardinalityType
<1>2. Cardinality(R \cup P) = Cardinality(R) + Cardinality(P) - Cardinality(R \cap P)
  BY FS_Union
<1>3. Cardinality(R \cap P) = 0
  BY FS_EmptySet
<1> QED
  BY <1>1, <1>2, <1>3

\* A batch that puts as many new rows as it deletes leaves their number as it is.
LEMMA Replaced ==
  ASSUME NEW R, IsFiniteSet(R), NEW D \in SUBSET R, NEW P, IsFiniteSet(P),
         Cardinality(P \ (R \ D)) = Cardinality(D)
  PROVE  Cardinality((R \ D) \cup P) = Cardinality(R)
<1> DEFINE kept == R \ D
           new == P \ (R \ D)
<1>1. IsFiniteSet(D) /\ IsFiniteSet(kept) /\ IsFiniteSet(new)
  BY FS_Subset, FS_Difference
<1>2. kept \cup D = R /\ kept \cap D = {} /\ kept \cup new = (R \ D) \cup P /\ kept \cap new = {}
  OBVIOUS
<1>3. Cardinality(new) = Cardinality(D)
  OBVIOUS
<1> HIDE DEF kept, new
<1>4. Cardinality(kept \cup D) = Cardinality(kept) + Cardinality(D)
  BY <1>1, <1>2, Added
<1>5. Cardinality(kept \cup new) = Cardinality(kept) + Cardinality(new)
  BY <1>1, <1>2, Added
<1> QED
  BY <1>2, <1>3, <1>4, <1>5

\* What a write does to the number of rows.
LEMMA WriteCounts ==
  ASSUME Core, RowsBalanced, NEW s \in Sessions, Write(s), Clean', "scan_cut" \notin exposed'
  PROVE  /\ stmt[s].op = "insert" => Cardinality(kv'.rows) = Cardinality(kv.rows) + Cardinality(batch[s].puts)
         /\ stmt[s].op \in {"update", "rename"} => Cardinality(kv'.rows) = Cardinality(kv.rows)
<1> USE DEF Core
<1> DEFINE p == stmt[s]
           b == batch[s]
<1>1. pc[s] = "writing" /\ exposed \subseteq exposed' /\ ~Stale(p)
  BY WriteIs DEF Clean
<1>2. Clean /\ "scan_cut" \notin exposed /\ "unanswered" \notin exposed
  BY <1>1 DEF Clean
<1>3. kv'.rows = (kv.rows \ b.dels) \cup b.puts
  BY DEF Write, Committed
<1>4. p \in Plans /\ Planned(p) /\ PlanRows(p, b)
  BY <1>1, HasPlan DEF BatchesPlanned, PlannedBatch
<1>5. RowsRead(p, b, exposed)
  BY <1>1, <1>2 DEF ReadsKept
<1>6. IsFiniteSet(kv.rows) /\ IsFiniteSet(b.puts) /\ Cardinality(kv.rows) \in Nat /\ Cardinality(b.puts) \in Nat
  BY RowsFinite DEF TypeInv, TypeStore, TypeBatches, IsBatch
<1>7. b.dels \subseteq kv.rows
  BY <1>5 DEF RowsRead
<1>8. CASE p.op = "insert"
  <2>1. b.dels = {} /\ b.puts \cap kv.rows = {}
    BY <1>4, <1>5, <1>8 DEF PlanRows, RowsRead
  <2>2. kv'.rows = kv.rows \cup b.puts /\ kv.rows \cap b.puts = {}
    BY <1>3, <2>1
  <2>3. Cardinality(kv.rows \cup b.puts) = Cardinality(kv.rows) + Cardinality(b.puts)
    BY <1>6, <2>2, Added
  <2> QED
    BY <1>8, <2>2, <2>3
<1>9. CASE p.op \in {"update", "rename"}
  <2>1. SUFFICES Balanced(b)
    <3>1. Cardinality(kv'.rows) = Cardinality(kv.rows)
      BY <1>3, <1>6, <1>7, <2>1, Replaced DEF Balanced
    <3> QED
      BY <1>9, <3>1
  <2>2. CASE p.op = "update"
    BY <1>1, <1>2, <2>2 DEF RowsBalanced
  <2>3. CASE p.op = "rename"
    <3>1. PICK ks \in SUBSET Keys : b.dels = Rows(p.name, ks) /\ b.puts = Rows(p.to, ks)
      BY <1>4, <2>3 DEF PlanRows
    <3>2. RowsHaveTables /\ kv.tabs[p.to] = None /\ p.to \in Names
      BY <1>1, <1>2, <1>4, <2>3, FreshPlan, PlanFields DEF Consistent, Stored
    <3>3. \A k : <<p.to, k>> \notin kv.rows
      BY <3>2, NoRows
    <3>4. b.puts \ (kv.rows \ b.dels) = b.puts
      BY <3>1, <3>3 DEF Rows
    <3>5. PICK g : g = [k \in ks |-> k]
      OBVIOUS
    <3>6. (\A j, k \in ks : g[j] = g[k] => j = k) /\ ks = {g[k] : k \in ks}
      BY <3>5
    <3>7. Cardinality(Rows(p.to, ks)) = Cardinality(Rows(p.name, ks))
      BY <3>6, MovedRows
    <3> QED
      BY <3>1, <3>4, <3>7 DEF Balanced
  <2> QED
    BY <1>9, <2>2, <2>3
<1> QED
  BY <1>8, <1>9

\* No row is overwritten, whatever keys sessions put: INSERT finds its keys free,
\* UPDATE refuses keys that collide, and RENAME writes to a name that is free; the
\* locks keep all of that so until the batch is written.
THEOREM NoRowIsOverwritten == Spec => RowsConserved
<1> DEFINE I == Core /\ RowsBalanced
           Step(s) ==
             /\ pc[s] = "writing" /\ pc'[s] # "writing" /\ kv' # kv
             /\ exposed' \cap {"stale_plan", "unapplied", "unanswered", "scan_cut"} = {}
             => /\ stmt[s].op = "insert" => Cardinality(kv'.rows) = Cardinality(kv.rows) + Cardinality(batch[s].puts)
                /\ stmt[s].op \in {"update", "rename"} => Cardinality(kv'.rows) = Cardinality(kv.rows)
<1>1. Init => I
  BY CoreInvariant, InitBalanced
<1>2. I /\ [Next]_vars => I'
  BY CoreInvariant, BalancedStep
<1>3. I /\ [Next]_vars => [\A s \in Sessions : Step(s)]_vars
  <2> SUFFICES ASSUME I, [Next]_vars, NEW s \in Sessions, pc[s] = "writing", pc'[s] # "writing", kv' # kv,
                      exposed' \cap {"stale_plan", "unapplied", "unanswered", "scan_cut"} = {}
               PROVE  /\ stmt[s].op = "insert" => Cardinality(kv'.rows) = Cardinality(kv.rows) + Cardinality(batch[s].puts)
                      /\ stmt[s].op \in {"update", "rename"} => Cardinality(kv'.rows) = Cardinality(kv.rows)
    OBVIOUS
  <2>1. Clean' /\ "scan_cut" \notin exposed'
    BY DEF Clean
  <2>2. Write(s)
    <3>1. ASSUME NEW t \in Sessions, Write(t) PROVE t = s
      BY <3>1, WriteIs DEF Core, Apart
    <3>2. ASSUME NEW t \in Sessions, Quiet(t) \/ Puts(t) \/ Apply(t) PROVE kv' = kv
      BY <3>2, PutIs, ApplyIs DEF Core, Quiet, Puts
    <3>3. ~LateCommit /\ ~Restart /\ ~Idles
      BY RestartIs DEF Core, LateCommit, session, Idles
    <3> QED
      BY <3>1, <3>2, <3>3, KindsOfSteps DEF Core
  <2> QED
    BY <2>1, <2>2, WriteCounts
<1>4. Spec => [][\A s \in Sessions : Step(s)]_vars
  BY <1>1, <1>2, <1>3, PTL DEF Spec
<1> QED
  BY <1>4 DEF RowsConserved
=============================================================================
