---------------------------- MODULE SqlStatements ----------------------------
(****************************************************************************)
(* Statements of concurrent sessions over one catalog and one executor      *)
(* (internal/sql/planner, internal/sql/executor, internal/bridge/catalog,   *)
(* internal/bridge/kv).                                                     *)
(*                                                                          *)
(* A statement is planned against the catalog cache, without a lock, and    *)
(* then executed: it takes its locks in the code's order, reads the store,  *)
(* sends one atomic batch and updates the cache.  Each of these is a step.  *)
(* Rows are their primary keys, a schema is what statements can disagree    *)
(* about: its version, how keys are made (a sequence when there is no       *)
(* primary key), and its active columns with the table that the foreign key *)
(* of each refers to.  A column stands for its position, so RENAME COLUMN   *)
(* is a MODIFY that changes nothing but the version.                        *)
(* A statement that the planner refuses, or that IF [NOT] EXISTS makes a    *)
(* no-op, changes nothing and is left out, as is USE, whose only effect is  *)
(* on the caller's session.                                                 *)
(****************************************************************************)
EXTENDS Naturals, FiniteSets, Sequences, FiniteSetsExt, SequencesExt

CONSTANTS
  Sessions, Dbs, Tabs, Cols,
  Ops,        \* the statements that sessions issue
  MaxKey,     \* bound: row keys and sequence counters
  ScanLimits, \* values of the storage server's maxScanLimit: entries per scan
  Faults,     \* subset of {"refused", "unanswered", "restart", "broken_scan"}
  MaxFaults,  \* bound: how many of them happen
  MaxStmts,   \* bound: statements that are planned
  None

ASSUME StatementsAssumption ==
  /\ MaxKey \in Nat /\ ScanLimits \subseteq Nat \ {0} /\ MaxFaults \in Nat /\ MaxStmts \in Nat
  /\ IsFiniteSet(Sessions) /\ IsFiniteSet(Dbs) /\ IsFiniteSet(Tabs)
  /\ Faults \subseteq {"refused", "unanswered", "restart", "broken_scan"}

Keys == 1..MaxKey
Names == Dbs \X Tabs  \* a table's full name
Db(n) == n[1]

VARIABLES
  kv,        \* the store: databases, table metadata, sequences, rows
  cache,     \* catalog.Catalog: databases and table metadata
  mu,        \* lock -> the session that holds it
  pc, stmt,  \* session: its step, its plan
  need,      \* session: locks it still has to take, in order
  batch,     \* session: the batch it has put together
  inflight,  \* batches whose call has failed and which may still commit
  booted,    \* NewCatalog succeeded
  limit,     \* maxScanLimit, the same in all of a behaviour
  stmts, faults,
  exposed    \* history: the weaknesses this behaviour has met

vars == <<kv, cache, mu, pc, stmt, need, batch, inflight, booted, limit, stmts, faults, exposed>>
session == <<pc, stmt, need, batch>>
bounds == <<limit, stmts, faults>>

\* What statements can disagree about in a table's metadata, and a plan of each kind.
Columns == UNION {[cs -> Tabs \cup {None}] : cs \in SUBSET Cols}
Metas == [cols : Columns, version : 0..MaxStmts, snow : BOOLEAN]

Plans ==
  [op : {"create_db"}, db : Dbs]
  \cup [op : {"drop_db"}, db : Dbs, tables : SUBSET Names]
  \cup [op : {"create"}, name : Names, meta : Metas]
  \cup [op : {"drop"}, name : Names]
  \cup [op : {"alter"}, name : Names, meta : Metas, new : Metas]
  \cup [op : {"rename"}, name : Names, to : Names, meta : Metas]
  \cup [op : {"insert"}, name : Names, meta : Metas, keys : SUBSET Keys, source : Names \cup {None}]
  \cup [op : {"update"}, name : Names, keys : SUBSET Keys, set : UNION {[ks -> Keys] : ks \in SUBSET Keys}]
  \cup [op : {"delete"}, name : Names, keys : SUBSET Keys]

ASSUME NoneAssumption == None \notin Sessions \cup Metas \cup Plans \cup 0..MaxKey

InsertMu == <<"insertMu">>
SequenceMu == <<"sequenceMu">>

\* The table locks, which tableLock makes on demand, and the executor's two.
Locks == Names \cup {InsertMu, SequenceMu}

-----------------------------------------------------------------------------
(* The store: kv.KV as RemoteKV and the storage server implement it *)

\* A batch: the ops of one WriteBatch, by the kind of key they are on.
NoOps == [newDbs |-> {}, oldDbs |-> {}, tabs |-> <<>>, seqs |-> <<>>, dels |-> {}, puts |-> {}]

\* One entry, and the entries of f over those of g.
One(n, v) == [x \in {n} |-> v]
Over(f, g) == [x \in DOMAIN f \cup DOMAIN g |-> IF x \in DOMAIN f THEN f[x] ELSE g[x]]

\* WriteBatch commits: the server applies all of the ops, deletes before puts.
Committed(b) ==
  [dbs |-> (kv.dbs \ b.oldDbs) \cup b.newDbs, tabs |-> Over(b.tabs, kv.tabs),
   seqs |-> Over(b.seqs, kv.seqs), rows |-> (kv.rows \ b.dels) \cup b.puts]

RowsOf(n) == {k \in Keys : <<n, k>> \in kv.rows}

\* Scan with a table's prefix: the server ends the stream at its limit.
Scanned(n) == {k \in RowsOf(n) : Cardinality({j \in RowsOf(n) : j < k}) < limit}

Cut(ns) == IF \E n \in ns : Scanned(n) # RowsOf(n) THEN {"scan_cut"} ELSE {}

-----------------------------------------------------------------------------
(* The catalog cache *)

DatabaseExists(d) == d \in cache.dbs
GetTable(n) == cache.tabs[n]
TableExists(n) == GetTable(n) # None
ListTables(d) == {n \in Names : Db(n) = d /\ TableExists(n)}

\* NewCatalog: the databases and the tables that its two scans deliver.
NewCatalog(dbs, seen) ==
  [dbs |-> dbs, tabs |-> [n \in Names |-> IF n \in seen THEN kv.tabs[n] ELSE None]]

Stored == {n \in Names : kv.tabs[n] # None}

\* NewCatalog fails on a table whose database it has not loaded.
Bootable(dbs, seen) == \A n \in seen : Db(n) \in dbs

-----------------------------------------------------------------------------
(* Planning.  What a plan carries is what the cache said at this moment. *)

Plan(s, p, locks) ==
  /\ p.op \in Ops /\ stmts' = stmts + 1
  /\ pc' = [pc EXCEPT ![s] = "locking"] /\ stmt' = [stmt EXCEPT ![s] = p]
  /\ need' = [need EXCEPT ![s] = locks]
  /\ UNCHANGED <<kv, cache, mu, batch, inflight, booted, limit, faults, exposed>>

PlanCreateDatabase(s, d) ==
  ~DatabaseExists(d) /\ Plan(s, [op |-> "create_db", db |-> d], <<>>)

\* The executor locks plan.Tables in the order of a map iteration.
PlanDropDatabase(s, d) ==
  /\ DatabaseExists(d)
  /\ \E order \in SetToSeqs(ListTables(d)) :
       Plan(s, [op |-> "drop_db", db |-> d, tables |-> ListTables(d)], order)

\* The tables that columns refer to, all in the database of their own table.
ForeignKeys(cols) == Tabs \cap Range(cols)

\* validateForeignKey: the table is there; it may be the column's own.
ValidForeignKeys(n, fks) == \A t \in fks : TableExists(<<Db(n), t>>)

\* Without a primary key the keys come from a sequence.
PlanCreateTable(s, n, snow, cols) ==
  /\ DatabaseExists(Db(n)) /\ ~TableExists(n)
  /\ ValidForeignKeys(n, ForeignKeys(cols))
  /\ LET meta == [cols |-> cols, version |-> 0, snow |-> snow]
     IN  Plan(s, [op |-> "create", name |-> n, meta |-> meta], <<>>)

Referenced(n) == \E m \in ListTables(Db(n)) : m # n /\ n[2] \in ForeignKeys(GetTable(m).cols)

PlanDropTable(s, n) ==
  /\ TableExists(n) /\ ~Referenced(n)
  /\ Plan(s, [op |-> "drop", name |-> n], <<n>>)

\* The plan holds the old and the new schema.
PlanAlterSchema(s, n, cols) ==
  LET old == GetTable(n)
  IN  Plan(s, [op |-> "alter", name |-> n, meta |-> old, new |-> [old EXCEPT !.cols = cols]], <<n>>)

\* ADD COLUMN, or MODIFY COLUMN when c is there; ref is what it REFERENCES.
PlanAddOrModify(s, n, c, ref) ==
  /\ TableExists(n) /\ ValidForeignKeys(n, {ref} \ {None})
  /\ PlanAlterSchema(s, n, Over(One(c, ref), GetTable(n).cols))

\* DROP COLUMN, with its foreign key.
PlanDropColumn(s, n, c) ==
  /\ TableExists(n) /\ c \in DOMAIN GetTable(n).cols
  /\ PlanAlterSchema(s, n, Restrict(GetTable(n).cols, DOMAIN GetTable(n).cols \ {c}))

\* No check whether a foreign key refers to the table.
PlanRenameTable(s, n, m) ==
  /\ TableExists(n) /\ Db(m) = Db(n) /\ ~TableExists(m)
  /\ Plan(s, [op |-> "rename", name |-> n, to |-> m, meta |-> GetTable(n)], <<n, m, SequenceMu>>)

\* INSERT ... VALUES has its keys, INSERT ... SELECT a source.
MutInsertLocks(n) == <<InsertMu>>
MutInsertOrder(n) == <<SequenceMu, InsertMu, n>>
InsertLocks(n) == <<InsertMu, n>>

PlanInsert(s, n, ks, source) ==
  /\ TableExists(n) /\ (source # None => TableExists(source))
  /\ Plan(s, [op |-> "insert", name |-> n, meta |-> GetTable(n), keys |-> ks, source |-> source],
          InsertLocks(n))

\* UPDATE: the rows that WHERE selects and what SET makes of their keys.
PlanUpdate(s, n, ks, set) ==
  /\ TableExists(n)
  /\ Plan(s, [op |-> "update", name |-> n, keys |-> ks, set |-> set], <<n>>)

PlanDelete(s, n, ks) ==
  TableExists(n) /\ Plan(s, [op |-> "delete", name |-> n, keys |-> ks], <<n>>)

PlanStatement(s) ==
  /\ booted /\ pc[s] = "idle" /\ stmts < MaxStmts
  /\ \/ \E d \in Dbs : PlanCreateDatabase(s, d) \/ PlanDropDatabase(s, d)
     \/ \E n \in Names :
          \/ \E snow \in BOOLEAN, cols \in Columns : PlanCreateTable(s, n, snow, cols)
          \/ PlanDropTable(s, n)
          \/ \E c \in Cols : PlanDropColumn(s, n, c)
          \/ \E c \in Cols, ref \in Tabs \cup {None} : PlanAddOrModify(s, n, c, ref)
          \/ \E m \in Names : PlanRenameTable(s, n, m)
          \/ \E k \in Keys : PlanInsert(s, n, {k}, None)
          \/ \E m \in Names : PlanInsert(s, n, {}, m)
          \/ \E ks \in SUBSET Keys \ {{}} :
               PlanDelete(s, n, ks) \/ \E set \in [ks -> Keys] : PlanUpdate(s, n, ks, set)

-----------------------------------------------------------------------------
(* Execution: locks *)

Acquire(s) ==
  /\ pc[s] \in {"locking", "checked"} /\ need[s] # <<>> /\ mu[Head(need[s])] = None
  /\ mu' = [mu EXCEPT ![Head(need[s])] = s] /\ need' = [need EXCEPT ![s] = Tail(@)]
  /\ UNCHANGED <<kv, cache, pc, stmt, batch, inflight, booted, bounds, exposed>>

\* The deferred unlocks, whatever the statement returns.
MutFinish(s) ==
  /\ pc' = [pc EXCEPT ![s] = "idle"] /\ UNCHANGED stmt
  /\ need' = [need EXCEPT ![s] = <<>>] /\ batch' = [batch EXCEPT ![s] = NoOps]
  /\ mu' = [l \in Locks |-> IF mu[l] = s THEN None ELSE mu[l]]
Finish(s) ==
  /\ pc' = [pc EXCEPT ![s] = "idle"] /\ stmt' = [stmt EXCEPT ![s] = None]
  /\ need' = [need EXCEPT ![s] = <<>>] /\ batch' = [batch EXCEPT ![s] = NoOps]
  /\ mu' = [l \in Locks |-> IF mu[l] = s THEN None ELSE mu[l]]

Reject(s) == Finish(s) /\ UNCHANGED <<kv, cache, inflight, booted, bounds, exposed>>

-----------------------------------------------------------------------------
(* Execution: what the statement reads, and the batch it makes of it *)

Ready(s, op) == pc[s] = "locking" /\ need[s] = <<>> /\ stmt[s].op = op

Send(s, b, found) ==
  /\ pc' = [pc EXCEPT ![s] = "writing"] /\ batch' = [batch EXCEPT ![s] = b]
  /\ exposed' = exposed \cup found
  /\ UNCHANGED <<kv, cache, mu, stmt, need, inflight, booted, bounds>>

Rows(n, ks) == {n} \X ks

BuildCreateDatabaseOps(d) == [NoOps EXCEPT !.newDbs = {d}]

BuildCreateDatabase(s) ==
  Ready(s, "create_db") /\ Send(s, BuildCreateDatabaseOps(stmt[s].db), {})

\* The database, and the metadata and counters of the tables the plan lists.
BuildDropDatabaseOps(d, ns) ==
  [NoOps EXCEPT !.oldDbs = {d}, !.tabs = [n \in ns |-> None], !.seqs = [n \in ns |-> None]]

BuildDropDatabase(s) ==
  /\ Ready(s, "drop_db")
  /\ LET ns == stmt[s].tables
     IN  Send(s, [BuildDropDatabaseOps(stmt[s].db, ns) EXCEPT !.dels = UNION {Rows(n, Scanned(n)) : n \in ns}],
              Cut(ns))

\* BuildCreateTableOps asks the cache again, without a lock on the table.
CreateAllowed(n) == DatabaseExists(Db(n)) /\ ~TableExists(n)

BuildCreateTable(s) ==
  /\ Ready(s, "create")
  /\ LET n == stmt[s].name
     IN  IF CreateAllowed(n)
         THEN Send(s, [NoOps EXCEPT !.tabs = One(n, stmt[s].meta),
                         !.seqs = IF stmt[s].meta.snow THEN One(n, 0) ELSE <<>>], {})
         ELSE Reject(s)

BuildDropTableOps(n) == [NoOps EXCEPT !.tabs = One(n, None), !.seqs = One(n, None)]

BuildDropTable(s) ==
  /\ Ready(s, "drop")
  /\ LET n == stmt[s].name
     IN  Send(s, [BuildDropTableOps(n) EXCEPT !.dels = Rows(n, Scanned(n))], Cut({n}))

BuildAlterTableOps(n, old, new) == [NoOps EXCEPT !.tabs = One(n, [new EXCEPT !.version = old.version + 1])]

BuildAlterTable(s) ==
  Ready(s, "alter") /\ Send(s, BuildAlterTableOps(stmt[s].name, stmt[s].meta, stmt[s].new), {})

\* The counter moves with the table; nothing is put when there is none.
MutRenamedSeq(n, m) == One(n, None)
RenamedSeq(n, m) == IF kv.seqs[n] = None THEN One(n, None) ELSE Over(One(n, None), One(m, kv.seqs[n]))
BuildRenameTableOps(n, m, meta) == [NoOps EXCEPT !.tabs = Over(One(n, None), One(m, meta)), !.seqs = RenamedSeq(n, m)]

BuildRenameTable(s) ==
  /\ Ready(s, "rename")
  /\ LET n == stmt[s].name
         m == stmt[s].to
     IN  Send(s, [BuildRenameTableOps(n, m, stmt[s].meta) EXCEPT !.dels = Rows(n, Scanned(n)),
                    !.puts = Rows(m, Scanned(n))],
              Cut({n}))

\* INSERT ... SELECT runs its query first; it takes no lock on the source.
InsertSelectSource(s) ==
  /\ Ready(s, "insert") /\ stmt[s].source # None
  /\ stmt' = [stmt EXCEPT ![s].keys = Scanned(stmt[s].source), ![s].source = None]
  /\ exposed' = exposed \cup Cut({stmt[s].source})
  /\ UNCHANGED <<kv, cache, mu, pc, need, batch, inflight, booted, bounds>>

\* PKColumnTypes fails when the table has gone.
MutStillThere(n) == TRUE
StillThere(n) == TableExists(n)

InsertCheck(s) ==
  /\ Ready(s, "insert") /\ stmt[s].source = None
  /\ IF StillThere(stmt[s].name)
     THEN /\ pc' = [pc EXCEPT ![s] = "checked"]
          /\ need' = [need EXCEPT ![s] = IF stmt[s].meta.snow THEN <<SequenceMu>> ELSE <<>>]
          /\ UNCHANGED <<kv, cache, mu, stmt, batch, inflight, booted, bounds, exposed>>
     ELSE Reject(s)

\* readSequence reads a missing counter as 0.
Sequence(n) == IF kv.seqs[n] = None THEN 0 ELSE kv.seqs[n]

\* prepareInsertOp for every row: the next keys of the sequence or the keys of
\* the rows, which must be free.
BuildInsert(s) ==
  /\ pc[s] = "checked" /\ need[s] = <<>>
  /\ LET n == stmt[s].name
         last == Sequence(n) + Cardinality(stmt[s].keys)
         ks == IF stmt[s].meta.snow THEN (Sequence(n) + 1)..last ELSE stmt[s].keys
     IN  /\ ks \subseteq Keys
         /\ IF ks \cap RowsOf(n) = {}
            THEN Send(s, [NoOps EXCEPT !.seqs = IF stmt[s].meta.snow THEN One(n, last) ELSE <<>>,
                            !.puts = Rows(n, ks)], {})
            ELSE Reject(s)

\* Two rows would get one key, or a row the key of one that stays.
MutCollides(cands, all, set) == ~IsInjective([k \in cands |-> set[k]])
Collides(cands, all, set) ==
  \/ ~IsInjective([k \in cands |-> set[k]])
  \/ \E k \in cands : set[k] # k /\ set[k] \in all /\ ~\E j \in cands : j = set[k] /\ set[j] # j

BuildUpdate(s) ==
  /\ Ready(s, "update")
  /\ LET n == stmt[s].name
         set == stmt[s].set
         cands == Scanned(n) \cap stmt[s].keys
         moved == {k \in cands : set[k] # k}
     IN  IF TableExists(n) /\ ~Collides(cands, Scanned(n), set)
         THEN Send(s, [NoOps EXCEPT !.dels = Rows(n, moved), !.puts = Rows(n, {set[k] : k \in cands})],
                   Cut({n}) \cup IF moved = {} THEN {} ELSE {"moved_key"})
         ELSE Reject(s)

BuildDelete(s) ==
  /\ Ready(s, "delete")
  /\ LET n == stmt[s].name
     IN  IF TableExists(n)
         THEN Send(s, [NoOps EXCEPT !.dels = Rows(n, Scanned(n) \cap stmt[s].keys)], Cut({n}))
         ELSE Reject(s)

Build(s) ==
  \/ BuildCreateDatabase(s) \/ BuildDropDatabase(s) \/ BuildCreateTable(s) \/ BuildDropTable(s)
  \/ BuildAlterTable(s) \/ BuildRenameTable(s) \/ InsertSelectSource(s) \/ InsertCheck(s)
  \/ BuildInsert(s) \/ BuildUpdate(s) \/ BuildDelete(s)

-----------------------------------------------------------------------------
(* Execution: the write and the cache *)

Ddl == {"create_db", "drop_db", "create", "drop", "alter", "rename"}

\* The tables in the store with a foreign key to n.
Referring(n) == {m \in Stored : Db(m) = Db(n) /\ n[2] \in ForeignKeys(kv.tabs[m].cols)}
Dangling(n, fks) == \E t \in fks : <<Db(n), t>> \notin Stored

\* What the planner has checked for a DDL statement is not so in the store; or
\* the keys of an INSERT were made for a table with another kind of key.
Stale(p) ==
  LET tables == {n \in Stored : Db(n) = p.db}
      there == kv.tabs[p.name]
  IN  CASE p.op = "create_db" -> p.db \in kv.dbs
        [] p.op = "drop_db" -> p.db \notin kv.dbs \/ tables # p.tables
        [] p.op = "create" -> \/ Db(p.name) \notin kv.dbs \/ there # None
                              \/ Dangling(p.name, ForeignKeys(p.meta.cols))
        [] p.op = "drop" -> there = None \/ Referring(p.name) \ {p.name} # {}
        [] p.op = "alter" -> \/ there # p.meta
                             \/ Dangling(p.name, ForeignKeys(p.new.cols) \ ForeignKeys(p.meta.cols))
        [] p.op = "rename" -> there # p.meta \/ p.to \in Stored
        [] p.op = "insert" -> there # None /\ there.snow # p.meta.snow
        [] OTHER -> FALSE

\* A RENAME leaves foreign keys to the old name, those of the table itself too.
LeavesReferences(p) == p.op = "rename" /\ Referring(p.name) # {}

\* The catalog entries that a batch writes.
CatalogEntries(b) == b.newDbs \cup b.oldDbs \cup DOMAIN b.tabs

\* Another statement has written one of them and has yet to apply it: CREATE and
\* DROP DATABASE hold no lock that would keep the two in order.
Overtakes(s) ==
  \E t \in Sessions \ {s} :
    pc[t] = "applying" /\ CatalogEntries(batch[t]) \cap CatalogEntries(batch[s]) # {}

Write(s) ==
  /\ pc[s] = "writing"
  /\ kv' = Committed(batch[s])
  /\ exposed' = exposed \cup (IF Stale(stmt[s]) THEN {"stale_plan"} ELSE {})
                        \cup (IF LeavesReferences(stmt[s]) THEN {"renamed_target"} ELSE {})
                        \cup (IF Overtakes(s) THEN {"unapplied"} ELSE {})
  /\ IF stmt[s].op \in Ddl
     THEN pc' = [pc EXCEPT ![s] = "applying"] /\ UNCHANGED <<mu, stmt, need, batch>>
     ELSE Finish(s)
  /\ UNCHANGED <<cache, inflight, booted, bounds>>

\* ApplyDropDatabase forgets all tables of the database, also those not in the plan.
AppliedDatabases(p) ==
  CASE p.op = "create_db" -> cache.dbs \cup {p.db}
    [] p.op = "drop_db" -> cache.dbs \ {p.db}
    [] OTHER -> cache.dbs

MutAppliedTables(p, b) == IF p.op = "rename" THEN Over(One(p.to, p.meta), cache.tabs) ELSE Over(b.tabs, cache.tabs)
AppliedTables(p, b) ==
  IF p.op = "drop_db" THEN [n \in Names |-> IF Db(n) = p.db THEN None ELSE cache.tabs[n]]
  ELSE Over(b.tabs, cache.tabs)

Apply(s) ==
  /\ pc[s] = "applying"
  /\ cache' = [dbs |-> AppliedDatabases(stmt[s]), tabs |-> AppliedTables(stmt[s], batch[s])]
  /\ Finish(s)
  /\ UNCHANGED <<kv, inflight, booted, bounds, exposed>>

-----------------------------------------------------------------------------
(* Failures *)

Fault(f) == f \in Faults /\ faults < MaxFaults /\ faults' = faults + 1

\* A call of the store fails and has no effect: the statement returns the error.
CallFails(s) ==
  /\ Fault("refused") /\ pc[s] \in {"locking", "checked", "writing"} /\ need[s] = <<>>
  /\ Finish(s)
  /\ UNCHANGED <<kv, cache, inflight, booted, limit, stmts, exposed>>

\* The call of WriteBatch ends with its deadline; the server may still commit it.
CallUnanswered(s) ==
  /\ Fault("unanswered") /\ pc[s] = "writing"
  /\ inflight' = inflight \cup {batch[s]}
  /\ Finish(s)
  /\ UNCHANGED <<kv, cache, booted, limit, stmts, exposed>>

LateCommit ==
  /\ \E b \in inflight : kv' = Committed(b) /\ inflight' = inflight \ {b}
  /\ exposed' = exposed \cup {"unanswered"}
  /\ UNCHANGED <<cache, mu, session, booted, bounds>>

\* What a scan of the catalog's entries delivers: all, as many as the server
\* sends, or those that came before the stream broke off.  Neither loop of
\* NewCatalog asks the iterator for its error, and a cut scan has none.  Names
\* are not ordered here, so that any of them may be the first ones.
Delivered(all) ==
  {seen \in SUBSET all :
     /\ Cardinality(seen) <= limit
     /\ seen = all \/ Cardinality(seen) = limit \/ "broken_scan" \in Faults}

\* The process ends and starts again, with the catalog that the stream gives.
Restart ==
  /\ Fault("restart") /\ booted
  /\ pc' = [s \in Sessions |-> "idle"] /\ stmt' = [s \in Sessions |-> None]
  /\ need' = [s \in Sessions |-> <<>>] /\ batch' = [s \in Sessions |-> NoOps]
  /\ mu' = [l \in Locks |-> None]
  /\ \E dbs \in Delivered(kv.dbs), seen \in Delivered(Stored) :
       /\ booted' = Bootable(dbs, seen)
       /\ cache' = IF Bootable(dbs, seen) THEN NewCatalog(dbs, seen) ELSE cache
       /\ exposed' = exposed \cup IF dbs = kv.dbs /\ seen = Stored THEN {} ELSE {"partial_catalog"}
  /\ UNCHANGED <<kv, inflight, limit, stmts>>

-----------------------------------------------------------------------------

\* The node starts on a store that earlier statements have left: a table has its
\* first count[n] keys, a counter is at the last of them.
Init ==
  /\ \E dbs \in SUBSET Dbs, tabs \in [Names -> {None} \cup {m \in Metas : m.version = 0 /\ m.cols = <<>>}],
        count \in [Names -> 0..MaxKey] :
       /\ \A n \in Names : IF tabs[n] = None THEN count[n] = 0 ELSE Db(n) \in dbs
       /\ kv = [dbs |-> dbs, tabs |-> tabs, rows |-> {r \in Names \X Keys : r[2] <= count[r[1]]},
                seqs |-> [n \in Names |-> IF tabs[n] # None /\ tabs[n].snow THEN count[n] ELSE None]]
       /\ cache = [dbs |-> dbs, tabs |-> tabs]
  /\ mu = [l \in Locks |-> None]
  /\ pc = [s \in Sessions |-> "idle"] /\ stmt = [s \in Sessions |-> None]
  /\ need = [s \in Sessions |-> <<>>] /\ batch = [s \in Sessions |-> NoOps]
  /\ inflight = {} /\ booted = TRUE /\ limit \in ScanLimits /\ stmts = 0 /\ faults = 0 /\ exposed = {}

Next ==
  \/ \E s \in Sessions :
       \/ PlanStatement(s) \/ Acquire(s) \/ Build(s) \/ Write(s) \/ Apply(s)
       \/ CallFails(s) \/ CallUnanswered(s)
  \/ LateCommit \/ Restart

Spec == Init /\ [][Next]_vars

-----------------------------------------------------------------------------
(* Properties *)

\* The state of the store, the cache, the locks and the sessions; a session
\* carries a plan exactly while Execute runs.
TypeOK ==
  /\ kv.dbs \subseteq Dbs /\ kv.tabs \in [Names -> Metas \cup {None}]
  /\ kv.seqs \in [Names -> 0..MaxKey \cup {None}] /\ kv.rows \subseteq Names \X Keys
  /\ cache.dbs \subseteq Dbs /\ cache.tabs \in [Names -> Metas \cup {None}]
  /\ mu \in [Locks -> Sessions \cup {None}]
  /\ stmt \in [Sessions -> Plans \cup {None}]
  /\ pc \in [Sessions -> {"idle", "locking", "checked", "writing", "applying"}]
  /\ \A s \in Sessions : (pc[s] = "idle") <=> (stmt[s] = None)
  /\ booted \in BOOLEAN /\ stmts \in 0..MaxStmts /\ faults \in 0..MaxFaults

\* Between a DDL statement's write and its apply nobody else can tell: once no
\* statement is applying, the cache is what a restart would load, unless a DDL
\* plan was stale, a call unanswered or a load cut at the scan limit or broken off.
CacheIsStore ==
  exposed \cap {"stale_plan", "unapplied", "unanswered", "partial_catalog"} = {}
    /\ booted /\ (\A s \in Sessions : pc[s] # "applying") => cache = NewCatalog(kv.dbs, Stored)

TablesHaveDatabases == \A n \in Stored : Db(n) \in kv.dbs
RowsHaveTables ==
  /\ \A r \in kv.rows : r[1] \in Stored
  /\ \A n \in Names : kv.seqs[n] # None => n \in Stored
ForeignKeysResolve ==
  \A n \in Stored : ~Dangling(n, ForeignKeys(kv.tabs[n].cols))

\* The store can always be loaded and holds no row or counter of a table that is
\* gone, unless a DDL plan was stale, two changes of the cache out of order, a
\* call unanswered or a scan cut; and no foreign key to a table that is gone,
\* unless moreover a table that one refers to was renamed, which the planner does
\* not refuse.  In particular a DML statement planned before its table was
\* dropped writes nothing, and a catalog that was loaded in part does no harm to
\* the store by itself.
StoreIsConsistent ==
  exposed \cap {"stale_plan", "unapplied", "unanswered", "scan_cut"} = {} =>
    /\ TablesHaveDatabases /\ RowsHaveTables
    /\ "renamed_target" \notin exposed => ForeignKeysResolve

\* A table's counter is never behind a key in the table: the next INSERT gets a
\* free key, also after a rename, a restart or a failed statement.
SequenceAhead ==
  exposed = {} =>
    \A n \in Stored : kv.tabs[n].snow => \A k \in RowsOf(n) : k <= Sequence(n)

\* What a statement read under its locks is still so when it writes: the keys it
\* puts are free, the rows it deletes are all there.
ReadsAreStable ==
  exposed \cap {"unanswered"} = {} =>
    \A s \in Sessions : pc[s] = "writing" =>
      /\ batch[s].dels \subseteq kv.rows
      /\ stmt[s].op = "insert" => batch[s].puts \cap kv.rows = {}
      /\ stmt[s].op \in {"drop", "rename"} /\ "scan_cut" \notin exposed =>
           batch[s].dels = Rows(stmt[s].name, RowsOf(stmt[s].name))

\* No row is overwritten: an INSERT adds as many rows as it puts, an UPDATE or a
\* RENAME none, whatever keys they put.  Not so once the cache has a table that
\* the store has not: what is inserted there a RENAME to that name overwrites.
RowsConserved ==
  [][\A s \in Sessions :
       /\ pc[s] = "writing" /\ pc'[s] # "writing" /\ kv' # kv
       /\ exposed' \cap {"stale_plan", "unapplied", "unanswered", "scan_cut"} = {}
       => /\ stmt[s].op = "insert" => Cardinality(kv'.rows) = Cardinality(kv.rows) + Cardinality(batch[s].puts)
          /\ stmt[s].op \in {"update", "rename"} => Cardinality(kv'.rows) = Cardinality(kv.rows)]_vars

\* The sessions of w wait for each other's locks.
Waits(s, t) == need[s] # <<>> /\ mu[Head(need[s])] = t
Cycle(w) == w # {} /\ \A s \in w : \E t \in w : Waits(s, t)
ManyTables(p) == p.op = "rename" \/ (p.op = "drop_db" /\ Cardinality(p.tables) > 1)

\* A deadlock takes two statements that lock several tables each: RENAME and
\* DROP DATABASE.  insertMu, the table locks and sequenceMu add none.
DeadlocksNeedTwo ==
  \A w \in SUBSET Sessions : Cycle(w) => Cardinality({s \in w : ManyTables(stmt[s])}) >= 2
=============================================================================
