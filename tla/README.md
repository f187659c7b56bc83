# PenguinDB in TLA+

PenguinDB is a small SQL database: a storage node (an LSM-tree engine behind a
gRPC service) and a SQL layer (parser, planner, executor, catalog) that uses it
as a key-value store. This directory models the storage node's concurrency and
crash behaviour and the SQL layer above it in TLA+, checks both with TLC on
small instances, and proves most of the safety properties of the concurrent
modules (engine, flow control, reader and snapshot lifetime, WAL writer, merging
reads, statements) with TLAPS for all instances.

Every definition that stands for code is listed with its lines in
`PROJECT.json` under `map`. Paths below are relative to `src/`.

## The system

| Part | Source | State | Operations | What is hard | What makes it correct |
|---|---|---|---|---|---|
| storage engine | `internal/storage/engine.go`, `workers.go`, `manifest.go` | active memtable, queue of immutable memtables, two levels of SSTables, WAL segment IDs, manifest | `Get`, `Put`, `Delete`, `WriteBatch`, `Scan`, `Snapshot`, `Close`, `NewEngine`; flush and compaction workers | three goroutines interleave in the gaps where `engine.mu` is released; a crash between any two disk operations; one of several disk operations failing | a read answers with an acknowledged write; the manifest can always be opened; the age order of tables is kept |
| flow control | same files | `writeMu`, `flushCond`, two capacity-1 channels, `writesInFlight`, `iterWg`, `bgErr` | stall, rotate, cancel, signal, drain | lost wakeups; a token swallowed by a full channel; waiting for a worker that left | every write and `Close` return |
| SSTable readers | `engine.go` pin and unpin, `snapshot.go`, `iterator.go` | reference counts, obsolete marks, open files | pin, unpin, register, mark obsolete, close | a compaction deletes what somebody reads | nobody reads a closed reader; nothing leaks |
| reads over many tables | `iterator.go`, `engine.go`, `snapshot.go` | one cursor per table | `Get`, `Scan`, `Next` | ties between tables, tombstones, prefix bounds | the answer is that of the newest table |
| WAL writer | `wal/writer.go`, `wal/recovery.go` | segments, ingestion channel, batch, leftover, terminal error | `Append`, `AppendBatch`, batch worker, `Close`, replay | group commit, carried-over ticket, failure half way through a write, `Close` racing all of that | acknowledged batches survive in order; every call returns |
| RPC server | `internal/rpc/storage_server/server.go`, `cmd/storage-node/main.go` | table of snapshots with reference counts | create, use, release, janitor, stop | who closes a snapshot; one created during shutdown | a snapshot is closed once, by one owner, never in use; shutdown ends |
| compactor, skip list, SSTable and WAL formats, manifest file | `internal/storage/...` | files and lists | merge, insert, encode, load | merge ties, file rollover, torn files | see the plan |
| remote client | `internal/bridge/kv` | stream | `Get`, `Scan`, `WriteBatch` | the server's scan limit; a deadline that passes while the server commits | a batch is atomic; the caller's cache does not drift from the store |
| catalog, executor | `internal/bridge/catalog`, `internal/sql/executor` | schema cache, table locks, `insertMu`, `sequenceMu`, sequences | DDL and DML | plans are made before the locks are taken; write and apply are two steps; lock order; a restart in between | cache and store agree; the store can be loaded; keys are not reused; no deadlock |
| planner, query execution | `internal/sql/planner`, `internal/sql/executor` | a plan tree | resolve, type, aggregate; scan, join, filter, group, sort, project | columns by position through several operators; NULL and three-valued logic; INT overflow | an accepted query is answered as it is meant, within the announced types |
| row codec, key encoding, schema evolution | `internal/bridge/codec`, `encoding`, `catalog/evolution.go` | keys and values in the store | encode, decode, prefixes, index maps | rows written under one schema and read under another; byte order against key order | rows read back as written, by key order, in no other table's way |
| parser, configuration | `internal/sql/parser`, `lexer`, `internal/config` | none that is shared | translation | nothing concurrent | unit-testable |

How they interact: the executor calls the remote client, which calls the RPC
server, which calls the engine. The engine owns one WAL writer per segment and
one compactor, shares `engine.mu` with its two workers, and talks to them
through `flushChan`, `compactChan` and `flushCond`. The manifest ties memory to
disk: rotation, flush and compaction all rewrite it under `manifestMu`.

## The modules

```
LSMTables ---- LSMEngine ------- MC_LSMEngine        engine_*
         |           \---------- LSMEngine_proofs (uses LSMTables_proofs)
         |---- LSMTables_proofs
         \---- MergingIterator - MC_MergingIterator  iterator_*
                             \-- MergingIterator_proofs (uses LSMTables_proofs)
WriteStall --- MC_WriteStall                         stall_*
         \---- WriteStall_proofs
SSTableRefs -- MC_SSTableRefs                        refs_*
         \---- SSTableRefs_proofs
SnapshotLease (abstract) <== SnapshotServer -- MC_SnapshotServer   server_*
                                           \-- SnapshotServer_proofs
WalWriter ---- MC_WalWriter                          wal_*
         \---- WalWriter_proofs
SqlStatements -- MC_SqlStatements                    sql_statements
             \-- SqlStatements_proofs
SqlValues ---- SqlQuery -- SqlMeaning -- MC_SqlQuery sql_query
         \---- RowFormat - SqlTable ---- MC_SqlTable sql_rows
```

### LSMTables: the data

A memtable, a WAL segment and an SSTable are each a function from keys to a
value, a tombstone or nothing. The operators are the lookups and merges of the
code: `SearchLevels` (newest Level 0 file first, then a binary search in Level
1), `Replay` (later segments win), `MergeOutput` (what `performMerge` writes:
the entry of the largest file ID, tombstones dropped, a new file every
`KeysPerFile` keys). `Size` counts bytes with keys and values of one byte. It
is a function of the present contents, which is how the code accounts for an
overwrite.

### LSMEngine: the engine and its disk

State: the disk (`manifest`, `walFiles`, `sstFiles`), the fields of `dbEngine`
under their own names, and one program counter per goroutine: the foreground
call (`wpc`; `writeMu` admits one at a time), the flush worker (`fpc`), the
compaction worker (`cpc`), `Close` (`kpc`) and `NewEngine` (`rpc`).

A step is the code between two points where `engine.mu` is released, or one
disk operation made without it. `WriteBatch`, for instance, is `WriteBatch`
(entry checks), `WriteFreeze` (freeze under `mu`), `RotateWAL` (close and create
segments, no lock), `RotateBuild` and `RotateSave` (manifest built under
`manifestMu` and `mu`, written under `manifestMu` alone), `WALAppend`,
`WriteApply`. `Stop` is a crash, or the exit after `Close`: it keeps the disk
and resets the rest, and can happen in any state.

Failures: each kind in `Faults` makes that I/O call fail, at most `MaxFaults`
times. Writing the manifest fails in two ways, because the code renames and
then syncs the directory: the old manifest may still be there, or the new one.
A failed merge removes the outputs it has begun; when `os.Stat` of a finished
output fails, the merged files stay on disk without being used.

History: `allowed[k]` is what a `Get` may answer: the last acknowledged write,
or later ones that ended in an error and may or may not have reached the WAL.

`exposed` records that a behaviour has met one of the engine's weaknesses. They
were found as counterexamples to `NoLostWrites`, and are recorded rather than
excluded, so that the states beyond them stay in the model:

- `merge_order`: the merge prefers the larger file ID, but the ID is not always
  the age. See the run `engine_merge_order`.
- `stale_replay`: the manifest that a rotation writes has a flushed-segment
  watermark of 0 (`engine.go` 599). After a crash, a segment whose data is in an
  SSTable already, and whose file was not deleted, is replayed on top of newer
  data.
- `file_collision`: a compaction that rolls over takes consecutive IDs without
  reserving them, while a rotation takes the same ones.
- `watermark`: a recovery that flushes sets the watermark to a segment that is
  not below the new active one.
- `dangling`: the manifest write fails after the rename and the caller removes
  the SSTables that the new manifest already names.
- `wal_rotation`: the log writer of a memtable whose segment is full moves on to
  the next ID by itself (`Log`; `wal/writer.go` 162). The engine does not know of
  that segment: it hands the same ID out, to a segment that is then appended to
  or to an SSTable, and deletes the first segment only. `rolled` counts these
  moves, up to `MaxRolls`, under one memtable. Sizes in bytes are not modelled, so
  it may happen at any append.

`ReadsAreAcknowledged` says that these six are the only ways to lose or
resurrect data: wherever none was met, reads are right. What one self-rotation
leads to is in the model but out of the property's reach, from the rotation on; the
other properties of the engine do not exclude it.

### WriteStall: flow control

The same code seen without its data: the memtable is a number of writes, the
queue of immutable memtables a length, and any number of clients write, take
snapshots or cancel. `writeMu`, `flushCond` (its lock is `engine.mu`: a stalled
writer keeps `writeMu`, so everybody else waits behind it), the token in `flushChan`,
the watcher goroutine that turns a cancelled context into a broadcast, `bgErr`
and `Close` are all there. A broadcast is an operator (`Woken`, `CloseWoken`)
that each broadcasting step applies.

### SSTableRefs: who may close a reader

Readers by their files, reference counts, obsolete marks, the pins of every
`Get`, iterator and snapshot (`pins`, a history of who holds what), the
registration steps of flush and compaction, and `Close`. A snapshot's methods
check `closed`, unlock and go on, so a concurrent `Close` of the same snapshot
can take its readers away; `Exclusive` is the assumption that callers do not do
that. The module below shows who keeps it. `stray` has the files that a failed
call left behind: an `os.Remove` that is only logged, and the outputs of a merge
after which `os.Stat` fails (`compactor/worker.go` 99-103), which the worker does
not remove. `NoLeakedFiles` says that there is no other kind of leak, and that
what is stray is in no level: the next start removes it as an orphan.

### SnapshotLease and SnapshotServer: who may close a snapshot

`SnapshotLease` is the abstract promise: a snapshot is opened once, called only
while open, closed once and never during a call. `SnapshotServer` is the server
with its two locks, the janitor, `ReleaseSnapshot`, `Stop` and the shutdown in
`main.go` up to the end of `engine.Close`. It implements `SnapshotLease` under
the mapping `lease <- snap`, `users <- the requests inside a call`. That is the
assumption `Exclusive` of `SSTableRefs`.

### WalWriter: group commit

Callers enqueue tickets; the batch worker gathers them up to `BatchCap`, carries
over the one that does not fit, rotates when the segment would exceed `SegCap`,
writes and syncs. A failed write leaves any prefix of the frames and possibly a
torn one. `Replayed` is what a recovery reads of the segments if the process
stops in that state: the places before the first torn frame of each segment, in
the order `ReadBefore`. `CommitOrder` speaks of these places one by one and not
of the replayed sequence, which would take an induction to reason about; it says
the same.

### MergingIterator: reads over many tables

Every combination of memtables, Level 0 and Level 1 tables (up to `MaxMemtables`,
`MaxLevelZero` and `MaxLevelOne` of them) and every key range is an initial state. The steps are `findNext`'s passes. The reference,
`Newest`, is the first table of the concatenation that has the key. `Get` of a
snapshot is an operator of its own (`SnapshotGet`): it walks the memtables in the
other direction.

### SqlStatements: sessions, catalog and locks

The SQL layer seen without its data. A statement is planned from the cache
(`PlanStatement`: no lock is held), takes its locks one at a time in the order
of the code (`Acquire`), reads the store and puts a batch together (`Build...`),
sends it (`Write`), and, if it is DDL, changes the cache (`Apply`). Every gap
between these is a point where the other session, a restart or a failed call
may come in. `INSERT` takes `insertMu`, the table's lock and, for a table
without a primary key, `sequenceMu`; `RENAME` takes two table locks and
`sequenceMu`; `DROP DATABASE` takes the locks of the tables its plan lists, in
the order of a map iteration, so in any order; `CREATE` takes none.

A row is its key, a schema is what two statements can disagree about: active
columns with the table that the foreign key of each refers to, version, kind of
key. `ALTER TABLE` adds, changes and drops columns with their foreign keys, also
keys to the table itself. The store is the remote client as
the executor uses it: `WriteBatch` is atomic, may be refused (`CallFails`), or may
end with its deadline and commit later (`CallUnanswered`, `LateCommit`); `Scan`
returns at most `limit` entries, rows and catalog entries alike; the streams that
`NewCatalog` reads may break off besides (`Delivered`).

`exposed` records the weaknesses a behaviour has met, as in `LSMEngine`:

- `stale_plan`: a DDL plan was executed when the store no longer was as the plan
  assumes. It is judged against the store, at the write.
- `unapplied`: a statement wrote a catalog entry that another one had written
  and not yet applied. `CREATE DATABASE`, `DROP DATABASE` of an empty database and
  `CREATE TABLE` hold no lock between the write and the apply, so the two can be
  applied in the other order.
- `unanswered`: a batch committed after its caller had reported an error, so the
  cache was not changed.
- `partial_catalog`: `NewCatalog` has loaded a part of the databases or of the
  tables. It does not ask its iterators for an error and takes the entries before
  a break for all of them; and the server ends both of its scans at the limit,
  without an error.
- `renamed_target`: a table was renamed to which a foreign key refers, another
  table's or its own. `planRenameTable` does not look, and nothing needs to be
  stale for it.
- `scan_cut`: a DDL or DML statement saw only the first `limit` rows.
- `moved_key`: an `UPDATE` has given a row another key, which can be ahead of the
  counter.

Each property names the weaknesses it excludes; none excludes a whole statement
or interleaving.

### SqlValues, SqlQuery and SqlMeaning: queries

`SqlValues` types expressions and conditions as the planner does (`ResolveExpr`,
`ResolveCond`, compatibility and result types) and computes them as `eval.go`
does: NULLs, three-valued logic with early exits, `INT` and `BIGINT` widths,
division, `LIKE`. Numbers are exact fractions; a DECIMAL, which the code keeps as
a text, also has the zeros that it trails, so that 1.5 and 1.50 are equal numbers
and different values. `SqlQuery` is `PlanSelect`, which
builds the tree of scan, join, filter, aggregate, sort, project, distinct and
limit, and `ExecRelNode`, which runs it on rows whose columns are found by
position. `SqlMeaning` is the reference: it says what a query means in terms of
source rows and groups, without plans, positions or early exits.

The classes of queries that the reference shows to be answered wrongly are named
by predicates over the query (`KnownWrong`), and nothing else is excluded:

- `Shifted`: a column of a joined table other than the first is used. Its index
  has no offset.
- `Misplaced`: `ORDER BY` or `HAVING` uses an aggregate, or a column that is not
  at its table's position in the output. Both run on the output row.
- `HidesAggregate`: an aggregate below a condition in the `SELECT` list.
- `HasConstant`: a constant beside an aggregate, without `GROUP BY`: over no rows
  it is NULL.
- `ComparesTexts` with `TwoTexts`: `GROUP BY`, `SELECT DISTINCT` and `COUNT(DISTINCT)`
  of a DECIMAL, where one number is stored under two texts: they make two groups
  of it. `SUM(DISTINCT)` and `AVG(DISTINCT)` compare numbers.

### RowFormat and SqlTable: rows and keys

`RowFormat` is the byte level of the SQL layer: sortable keys (sign bits
flipped, floats, decimals, strings with a terminator, composite keys, row keys,
catalog keys, scan prefixes, each with its decoder) and row values (NULL flag,
type tag, fixed or prefixed length, and every truncation check). A byte is a
digit below `Base`. `SqlTable` is one table through `INSERT` (values and `SELECT`),
`UPDATE`, `DELETE` and the four `ALTER TABLE` actions, planned, checked and
stored as in the code. `relation` is the reference, the rows that the
statements describe by slot of the schema. `shifted` records that a row was
written while a column was dropped: such a row holds the active columns only and
is read through a map over all slots.

## The runs

| Run | Bounds | Question and answer |
|---|---|---|
| `engine_faults` | 2 keys, 2 writes, memtable of one value, compaction at one Level 0 file, 1 fault of 8 kinds or 1 self-rotation of the log, 2 opens | With a crash anywhere, one failing I/O call anywhere and recovery, are reads acknowledged ones, can the manifest be opened, and does a logged batch fit? Yes (`ReadsAreAcknowledged`, `ManifestOpens`, `LoggedBatchApplies`). 3.8 million states. |
| `engine_compaction` | 3 writes, threshold 2, one key per output file, 2 opens | Do compactions with several outputs, racing flushes and rotations, keep the age order? Yes (`QueueOrder`, `LevelZeroNewestFirst`, `LevelOneDisjoint`), up to the first collision of file names, where exploration stops. 3.8 million states. |
| `engine_merge_order` | 1 key, 4 writes | Violation: see Findings. |
| `stall_progress` | 3 clients, queue of 2, memtable of 2 writes, cancellation, failing rotations, appends and compactions | No lost wakeup, every write returns, `Close` returns. |
| `stall_cancel` | 2 clients, snapshots, all faults | A cancelled stalled write returns even when nobody makes room. |
| `refs_readers` | 4 files, 2 tasks, 1 snapshot | No reader in use is closed, no file leaks but those of a failed call. 170 thousand states. |
| `server_snapshots` | 2 snapshots, 3 requests | One owner per open snapshot, the lease is kept, shutdown ends. |
| `wal_writer` | 4 callers with 2 records, channel of 1, batches of 2 tickets, segments of 4 records, failing writes and rotations, `Close` | Acknowledged batches survive in order, every call returns or is `Abandoned`. 270 thousand states. |
| `iterator_scan` | 2 keys, up to 2 memtables, 1 Level 0 table, up to 2 Level 1 files | Scans and `Get` agree with the reference, `Get` of a snapshot where no two memtables hold the key. 720 thousand states. |
| `sql_statements` | 2 sessions, 2 statements of any of 9 kinds, 1 database, 2 tables, 2 keys, scans cut at 1 and at 2, one fault of 4 kinds | Does the cache follow the store (`CacheIsStore`), can the store be loaded and does it hold nothing of a dropped table (`StoreIsConsistent`), is a counter ahead of its keys (`SequenceAhead`), is what was read under locks still so at the write (`ReadsAreStable`), is no row overwritten (`RowsConserved`), and can only `RENAME` and `DROP DATABASE` deadlock (`DeadlocksNeedTwo`)? Yes, outside of what `exposed` records. 1.3 million states. |
| `sql_query` | two tables of 2 and 3 columns, 42 contents, some 1,800 queries, `INT` up to 3, `BIGINT` up to 63 | Is an answer the one the reference gives (`AnswersAreRight`), without type errors and within the announced types (`TypesAreSound`)? Yes, outside of `KnownWrong`. 205 thousand states. |
| `sql_rows` | 4 schemas (key of one, two or no column; every key type but TIMESTAMP), 3 statements, base 16, integers of 1 and 2 digits, decimals of 2 and 2 | Do rows read back (`RowsReadBack`), in key order (`KeysAreOrdered`), beside other tables (`OthersUntouched`), and is a truncated row noticed (`TornRowsAreDetected`)? Yes, up to `shifted`. 4.6 thousand states. |

Why the bounds are enough to be interesting. Engine: a memtable holds one key
with its value, so the second write rotates, flushes and (threshold 1) compacts;
three writes make two Level 0 files and a Level 1 with two files while another
memtable waits; two opens are a crash and a recovery from what it left.
`OneMisfortune` keeps `engine_faults` from combining a self-rotation with a failing
call or a `Snapshot`, which would take it past five minutes, and `engine_compaction` has
no self-rotation: `ReadsAreAcknowledged` excludes it, and that the other properties
of that run hold with any number of them is proved. Stall:
three clients are one that stalls with `writeMu` held and two that contend for
it afterwards, in either order. WAL: four callers on a channel of one are two in
a commit, or one in it and one carried over, one in the channel and one blocked; and
when that commit fails, a ticket that reaches the channel after the worker has
left and a caller that then finds it full for ever. Refs: four files are two inputs, an output and a flush during
the compaction. Server: three requests are a creator and two readers of one
snapshot. `iterator_scan` has two memtables, one table in Level 0 and two in
Level 1: a tie between any two tiers and between two memtables occurs.
Statements: a race takes two, one planned before and executed after the other;
the store they start on is any that earlier statements leave, so nothing is
spent on building it up; two tables are the two ends of a `RENAME` or of a foreign
key; two keys make an `UPDATE` that swaps keys and a scan that is cut at one, and
two tables a catalog that a restart loads in part.
What takes three statements (an apply that is overtaken without a stale plan)
is out of these bounds; the proofs below are for any number of statements.
Queries: contents with equal rows, NULLs, an empty table and a table of seven
rows with negative and extreme numbers; every operator meets operands of every
type, and sums and products reach the widths. Rows: three statements are a row
written, the schema or the key changed, and a row written or read after it;
names in `Others` are prefixes and extensions of the table's own.

`CHECK_DEADLOCK FALSE` is set in all runs: the calls are bounded, so a behaviour
may end, and a closed engine has nothing to do. Getting stuck is what the
liveness properties rule out.

Symmetry: values in the engine runs are only compared; files, tasks and
snapshots in `refs_readers` are interchangeable, as are sessions and table names
in `sql_statements` (keys and scan limits are not). None is used with liveness.

Each property of a passing run has a mutant in `PROJECT.json`: a definition
changed as a bug in that code would change it (the definitions `Mut...`), under
which TLC finds the property violated.

## Fairness

Weak fairness for every goroutine that is inside a call or is a worker: the Go
scheduler runs every runnable goroutine. Strong fairness for acquiring
`writeMu`: `sync.Mutex` hands the lock to a waiter that has starved for 1 ms.
Nobody is obliged to call, cancel, close, release or stop. In `WriteStall` a
client that has a snapshot closes it; without that `Close` waits by design. In
`SnapshotServer` a call on a snapshot ends: a `Scan` looks at the stop channel
between entries. No I/O call blocks for ever. The SQL runs check safety only:
deadlocks among table locks are stated as a property of states
(`DeadlocksNeedTwo`), and a `Get` or `WriteBatch` of the remote client has no
time limit of its own.

## What is proved

`WriteStall_proofs`, for any set of clients, capacities and bound:

- `TypeCorrect`: `Spec => []TypeOK`, under every fault. It includes that the
  active memtable never holds more than fits although the lock is released
  between the check and the use.
- `NoLostWakeup`: `Spec => []StallHasWaker`, assuming `OrderlyQueue`: no
  snapshots and no failed flush. Both are needed. Snapshots break it (see
  Findings), and after a failed flush there is no worker left to wake anybody,
  which the code answers with a last broadcast and `bgErr` for writers. The
  property is not inductive: it says nothing of a full queue that nobody waits
  for. The inductive invariant adds `FullQueueIsServed`, that a full queue has a
  waker coming whether or not somebody waits, and facts about which steps can
  coexist: who holds `writeMu`, and that the flush worker leaves only after
  `Close` has stopped the writers.

`SSTableRefs_proofs`, for any files, readers and snapshots, assuming `Exclusive`:

- `RefsTypeCorrect`: counts never go negative.
- `NoReaderClosedInUse`: `Spec => []ReadersStayOpen`.
- `NoFileLeaks`: `Spec => []NoLeakedFiles`.

The inductive invariant is that the count of a registered reader equals the
number of holders that have it pinned, that what is pinned is registered and
open, that an obsolete reader which is still registered is pinned, where
files can be during a compaction, and that the stray ones are in no level, no
output and no input.

`SnapshotServer_proofs`, for any snapshots and requests:

- `TypeCorrect`: reference counts never go negative.
- `OwnerIsUnique`: `Spec => []OneOwner`.
- `ServerKeepsLease`: `Spec => KeepsLease`, the refinement of `SnapshotLease` step by
  step. It discharges the assumption `Exclusive` of `SSTableRefs` for the callers
  that go through the server.

The invariant ties an entry's reference count to the requests that have it, and
its `released` flag to the goroutine that has taken it out of the table: one of
janitor, `ReleaseSnapshot`, `Stop` or the last request to leave.

`LSMEngine_proofs`, for any keys, values, sizes, limits, bounds and faults:

- `QueueInOrder`: `Spec => []QueueOrder`; `NewestFirst`: `Spec =>
  []LevelZeroNewestFirst`; `LevelOneInKeyOrder`: `Spec => []LevelOneDisjoint`;
  `ManifestAlwaysOpens`: `Spec => []ManifestOpens`; `LoggedBatchFits`: `Spec =>
  []LoggedBatchApplies`.
- `TypesAreKept`: `Spec => [](NoCollision => TypeOK)`. After two workers have
  written one file name, a merge can read a file that is gone, and what it
  writes has no type; everything else keeps its type then too (`TypeInv`).

None of these is inductive: what is in memory follows from what NewEngine found
on disk, and what is on disk from what a crash left of memory. The invariant
`Inv` has, next to the types and to which steps can coexist (`Control`): the
queue, the active segment and Level 0 in one order (`Queue`, `Active`,
`LevelZero`); what the holder of `manifestMu` has built against the levels it
was built from (`Pending`); and, at every point, that a restart finds a WAL that
is ahead of Level 0, by a segment that is still there or by the recorded
watermark (`Disk` with `Restartable` and `Watermark`, `ActiveWAL`). `Files` says
which files are there for the manifest, the levels, a flush and a merge;
`Rolled` that a log which has left its segment is recorded;
`LevelOne` (with `DurableLevelOne`) that their contents are in key order, also in
the manifest that a failed write may or may not have replaced; `Reserved` which
IDs are still free. `LSMTables_proofs` holds what these need of the data: sizes,
replay, and that the outputs of a merge are disjoint and in key order.

- `ReadsAcknowledged`: `Spec => []ReadsAreAcknowledged`, the guarantee that the
  other theorems of the engine prepare.

It says what a read answers now; whether a write is still there after a crash
depends on the disk, on manifests that are half way there and on what recovery
makes of them. The invariant `Reads`, which holds on top of `Inv` as long as none
of the six weaknesses has been met, describes the same answer at every place:

- `LoggedQueue`, `LoggedActive`: a memtable holds exactly what its WAL segments
  hold, from above the memtable before it (or the last flush) up to its own
  segment. The exceptions are the batch being applied and writes in doubt.
- `FlushedTable`, `Merging`: the table of a flush is the oldest memtable; the
  outputs of a merge answer what its inputs answer, and the levels that it is
  about to install what the present ones answer, although a flush may have
  joined Level 0 meanwhile. The inputs are then its older part.
- `Numbers`: the IDs that are free lie above every segment that was ever flushed
  durably (`hw`), and the active segment is the newest. A rotation resets the
  watermark of the manifest to 0: then a segment above `hw` is still there, so that
  NewEngine goes on behind it.
- `Durable`: the manifest on disk, the one that the holder of `manifestMu` has
  built and the live levels each recover to an allowed answer, also if the
  watermark is lost (`Sound`). This is what a stop at any point preserves, and
  `Open` turns it into an answer of `Get`.

The recovered answer skips the segments that a durable flush has covered
(`Found`). NewEngine does not skip them: `Open` after a lost watermark replays
them, and that is the weakness `stale_replay`. The proof has one lemma per
conjunct for the running engine (`NumbersRunning` to `AnswersRunning`), and one
per step of NewEngine and of a stop (`ReadsStopped`, `ReadsOpen`,
`ReadsRecoverFlush`, ...), where only the disk and the replayed memtable matter.
`LSMTables_proofs` has the algebra: an entry chosen by largest ID in a union of
an upper and a lower set (`LargestSplit`), Level 0 with a table prepended
(`FirstPrepended`), the queue at both ends (`QueuedAppend`, `QueuedTail`), and
that the outputs of a merge answer as the largest ID among its inputs
(`OutputsAnswer`). `Reads` was model-checked on the instances of `engine_faults`
and `engine_compaction` before it was proved.

`MergingIterator_proofs`, for any tables, keys, prefixes and bounds:

- `TypeCorrect`: `Spec => []TypeOK`.
- `ScanReturnsLiveKeys`: `Spec => []ScanIsExact`. The property speaks of what has
  been returned and not of the cursors. The invariant has a key `f` that the scan
  has passed (`Passed`): every cursor is at the keys of its table from `f` on, and
  what has been found, returned or current, is the live keys below `f`, in order.
  A turn of `findNext` moves `f` just above the smallest key under a cursor. That
  the winner is the newest entry rests on two lemmas: leaving out the Level 1
  files that do not meet the prefix changes no lookup under it
  (`OverlappingIsEnough`), and the first table that has a key answers for the
  concatenation (`FirstEntryAt`, `FirstEntryConcat` of `LSMTables_proofs`).
- `LookupsAreNewest`: `Spec => []GetIsNewest`, with the binary search in Level 1
  shown exact when its files are in key order (`SearchLevel1IsExact`), which is
  what `LevelOneInKeyOrder` above proves of the engine.

`WalWriter_proofs`, for any callers, numbers of records, capacities and faults
(`WalAssumption`: the capacities are positive, which `NewLogWriter` enforces, and
an incomplete frame is not taken for a complete one, which the CRC stands for):

- `TypeCorrect`: `Spec => []TypeOK`, with the limits on group commits, segments
  and the channel.
- `AcknowledgedSurvive`: `Spec => []CommitOrder`. Order in the log follows from
  order in the queue, and the property mentions neither what the worker holds nor
  what it has yet to read. The invariant says that batch, leftover and channel
  are the last tickets of the queue, in this order (`Queue`), that exactly the
  tickets before them have an answer (`Answers`), and that every frame that
  can be replayed is of one of these (`Logged`): so a commit appends only frames
  of later tickets, and a ticket of which a failed commit left frames behind is
  never acknowledged afterwards. `Unbroken` has no incomplete frame in a log
  without a terminal error, and `Control` no commit after that error outside the
  drain of `Close`.

`SqlStatements_proofs`, for any number of sessions and statements, any
databases, tables, keys, scan limits and faults:

- `TypeCorrect`: `Spec => []TypeOK`.
- `DeadlocksNeedRenameOrDrop`: `Spec => []DeadlocksNeedTwo`, for circles of any
  length. Locks are ranked (`insertMu`, tables, `sequenceMu`), and a session that
  waits for a table while it holds another has several tables in its plan.
- `ReadsHoldUntilWrite`: `Spec => []ReadsAreStable`.
- `CacheFollowsStore`: `Spec => []CacheIsStore`; `StoreStaysConsistent`: `Spec =>
  []StoreIsConsistent`; `CountersStayAhead`: `Spec => []SequenceAhead`.
- `NoRowIsOverwritten`: `Spec => RowsConserved`, the action property. The rows
  that a batch deletes and the places that it fills are counted: an `UPDATE`
  without a collision puts every moved row where none stays (`UpdateBalanced`),
  the lock on its table keeps that so (`BalancedStep`), and a name that `RENAME`
  may take has no rows, by `StoreIsConsistent`.

The invariant: a session has, or has yet to take, the locks of its plan, in
their order (`LocksKept`); a batch holds what its plan says, and only rows of
locked tables (`BatchesPlanned`); what was read under the locks is still so
(`ReadsKept`); cache and store differ only in the entries of statements that are
applying, and those write different entries, or the catalog was loaded in part
and lacks tables (`Agree`); a row is put only into a
table that is there (`Backed`); an `UPDATE` puts as many new rows as it deletes
(`RowsBalanced`); the counter that a statement is about to write is
not behind the one that is there nor behind its keys (`SequencesRead`). The
first two carry the argument: everything else about two statements follows from
the lock that one of them has.

Only model-checked: all liveness properties (they rest on fairness and ENABLED,
outside what TLAPS 1.4.5 handles), and the properties of `SqlMeaning` and `SqlTable`:
these, with `SqlValues`, `SqlQuery` and `RowFormat`, use `RECURSIVE` operators, which
the prover does not take.

## Findings

`engine_merge_order` is a run that TLC shows violated; `PROJECT.json` quotes the
lines. A memtable is frozen under segment 2, a compaction then takes ID 3, and
the memtable is flushed as file 2. Its data is newer than file 3, but the next
merge prefers the larger ID, and an acknowledged write is lost.

The rest was seen while modelling and is part of the models, which state their
properties around it.

Storage node:

- The other weaknesses listed under `exposed` of `LSMEngine`. `wal_rotation` needs
  no fault and no unusual option. An overwrite does not make a memtable larger
  (`skiplist.go` 90) and does make its log longer, so a key that is written often
  enough rolls the log over under one memtable. Twice, and segment 1 has become 1,
  2 and 3; then a rotation gives the next memtable segment 2, a newer value of the
  key is appended there, and the process stops. Recovery replays segment 3, with
  the old value, after segment 2: the acknowledged write is lost. TLC finds this
  trace of 19 states with `NoLostWrites`, one key, three writes, no faults and
  `MaxRolls = 2`. The segment that a recovery resumes can then also have the ID of
  a Level 1 file.
- `Snapshot` queues memtables without regard to the limit, and several
  rotations leave one token: the flush worker sleeps on a full queue and a
  writer waits until its context ends (`stall_cancel`; `WriteReturns` is
  checked without snapshots).
- `Snapshot` stores memtables newest first and its `Get` reads them last to
  first, so it answers with the oldest version when two memtables hold the key.
  `Scan` on the same snapshot is right.
- A batch is several WAL frames, so a failed write can leave some of them to be
  replayed, against the all-or-nothing comment of `AppendBatch`.
- `Close` waiting for room in the queue after the flush worker has left with an
  error (`CloseReturns` is checked with every fault but that one); the flush
  worker leaving just before `Close` queues the last memtable, which then stays
  in the WAL and is recovered; `Close` not waiting for a rotation begun by
  `Snapshot`.
- The WAL writer's drain after `Close` acknowledging commits behind a torn frame
  (`CommitOrder` stops there). After a failed commit the worker leaves, and callers
  that were blocked on a full channel put their tickets into it, which nobody
  will answer, or, once it is full again, wait for room until `Close`
  (`Abandoned`).
- The outputs of a merge after which `os.Stat` fails, and files that `os.Remove`
  cannot delete, stay on disk until the next start.

Concurrent statements (`SqlStatements`):

- A DDL plan is not checked again under its locks. `CREATE TABLE` against `DROP
  DATABASE` leaves a table without a database, on which `NewCatalog` fails at the
  next start; a concurrent `ALTER` is lost; `RENAME` or `ALTER` brings back a table
  that was dropped.
- `RENAME` leaves foreign keys to the old name, also without any concurrency and
  also those of the table itself (`renamed_target`), which `DROP TABLE` refuses.
- Two `DROP DATABASE`, or a `RENAME` a to b and a stale b to a, can wait for each
  other for ever.
- A scan is cut at 10000 entries without notice: `DROP` and `RENAME` leave rows
  behind, `UPDATE` and `DELETE` miss them.
- A `WriteBatch` that commits after its deadline leaves the cache stale until a
  restart. `NewCatalog` takes a broken stream for a short catalog, and a catalog of
  more than 10000 databases or tables is loaded in part at every start, or not at
  all when a table's database is missing.
- `CREATE` and `DROP DATABASE` apply to the cache without a lock that keeps the
  order of the writes: two sessions create a database, one of them drops it
  again, and the second creation is written after the drop and applied before it;
  the store then has the database and the cache does not (`unapplied`). This was
  found as a failing proof of `CacheIsStore`, which needs three statements; the
  run with two statements had not met it. `CREATE TABLE` and `DROP TABLE` meet the
  same way and leave a table in the cache that the store has not; an `INSERT`
  there stores rows without a table, and a `RENAME` to the name that was planned
  before overwrites them. The proof of `RowsConserved` showed this one, which
  takes five statements of four sessions: the property excludes `unapplied`.
- Queries and the source of `INSERT ... SELECT` take no table lock.

Queries (`SqlQuery`): the five classes of `KnownWrong`. Two texts of one DECIMAL
come from a `DEFAULT 1.50`, which is stored as it is written, beside a computed 1.5.
Besides, `BETWEEN` with one
NULL bound is UNKNOWN also where the other bound decides it; `columnRefsEqual`
ignores the binding, so a self-join can group by the wrong table's column; `DISTINCT`
and grouping compare values with their Go type.

Rows and schemas (`SqlTable`):

- After `DROP COLUMN` new rows hold the active columns only, but are read through a
  map over all slots, so values shift (`shifted`).
- A table without a primary key gets no `id` column: column 0 is overwritten by
  the counter where there is a BIGINT column named `id`, and `INSERT` fails where
  there is none.
- `RENAME COLUMN` of a key column is accepted by the planner and refused by
  `validateAlter`. Old rows read NULL in an added `NOT NULL DEFAULT` column, and
  `MODIFY` to `NOT NULL` does not look at the rows.
- DECIMAL against other numeric types, and a fractional DEFAULT on an integer
  column, pass the planner and fail in the executor. TIMESTAMP columns can only
  hold NULL.

## What is not modelled

- The byte level of the storage node: record and block formats, CRC, Bloom
  filters, sparse index. Planned as operators against references.
- The skip list's towers; a memtable is a function, and reads of it are atomic,
  which its lock gives.
- The manifest's backup file and the fallback to it.
- Batches with the same key twice: a batch is a set of records on distinct keys.
- Two processes on one directory; the directory lock excludes them.
- Time: the janitor may evict at any time, a context may end at any time.
- The SQL parser and lexer: sequential text processing with error recovery, in
  reach of unit tests. The models start from parsed statements. Diagnostics and
  result messages are left out everywhere.
- `USE`, which changes the caller's session only; `IF [NOT] EXISTS`, which turns a
  refusal into a no-op; the limits on the length of names and keys.
- Rounding: floats are exact multiples, a DECIMAL has no 30-digit limit and no
  declared precision and scale. TIMESTAMP.
- The states of the remote client's iterator; a scan is one step of the
  statement, which is what its table lock makes of it for DDL and DML.
- Metrics and configuration. The gateway, the command line and
  `internal/consensus` are empty placeholders in the repository.

## Plan

1. `ManifestFile`: write, rename, backup and fallback with a crash at each step;
   the atomic write that `LSMEngine` assumes as its abstract specification.
2. `Compactor`: the heap merge and its iterators against `MergeOutput`.
3. `WalFrames`, `SparseIndex`, `SkipList`: algorithms against reference
   definitions over bounded inputs.
