------------------------------- MODULE SqlTable -------------------------------
(****************************************************************************)
(* One table through INSERT, UPDATE, DELETE and ALTER TABLE, down to the    *)
(* keys and values in the store, one statement at a time: planned by        *)
(* planner/plan_statements.go, executed by executor/exec_dml.go, its schema *)
(* evolving as in catalog/evolution.go.  The relation that the statements   *)
(* describe is kept beside it.  What concurrent statements do is the        *)
(* subject of SqlStatements.                                                *)
(****************************************************************************)
EXTENDS RowFormat

CONSTANTS
  Db, Table,  \* the names of the table
  Others,     \* keys of other tables and of the catalog
  Defs,       \* the column definitions of the CREATE TABLE
  Inserts,    \* INSERT: [cols, rows] or [cols, items]
  Updates,    \* UPDATE: [set, where]
  Deletes,    \* WHERE of a DELETE
  Alters,     \* ALTER TABLE actions
  MaxSteps,
  None

VARIABLES
  meta,      \* the table's schema: catalog.TableMeta
  store,     \* key -> value
  seq,       \* the snowflake counter
  relation,  \* what the table should hold: rows by slot of the schema
  shifted,   \* a row was written while a column was dropped
  steps

vars == <<meta, store, seq, relation, shifted, steps>>

-----------------------------------------------------------------------------
(* Schemas *)

\* A DEFAULT is typed as BIGINT, DOUBLE, TEXT or BOOLEAN.
DefaultType(v) ==
  CASE v.k = "int64" -> "BIGINT" [] v.k = "float64" -> "DOUBLE" [] v.k = "string" -> "TEXT" [] v.k = "bool" -> "BOOLEAN"
ColumnRefused(def) == def.default # Null /\ ~TypesCompatible(DefaultType(def.default), def.type)
BuildColumnMeta(def) ==
  [name |-> def.name, type |-> def.type, len |-> def.len, pk |-> def.pk, unique |-> def.unique,
   notNull |-> def.notNull \/ def.pk, default |-> def.default, dropped |-> FALSE]

DefsRefused(defs) ==
  \/ \E i, j \in DOMAIN defs : i # j /\ defs[i].name = defs[j].name
  \/ \E i \in DOMAIN defs : ColumnRefused(defs[i])
BuildTableMeta(defs) ==
  LET cols == [i \in DOMAIN defs |-> BuildColumnMeta(defs[i])]
      key == SelectSeq(cols, LAMBDA c : c.pk)
  IN  [cols |-> cols, key |-> [i \in DOMAIN key |-> key[i].name], snowflake |-> key = <<>>]

ActiveSlots(m) == SelectSeq([i \in DOMAIN m.cols |-> i], LAMBDA i : ~m.cols[i].dropped)
ActiveColumns(m) == [i \in DOMAIN ActiveSlots(m) |-> m.cols[ActiveSlots(m)[i]]]
FindColumn(m, name) == {i \in DOMAIN m.cols : m.cols[i].name = name /\ ~m.cols[i].dropped}
TypesOf(cols) == [i \in DOMAIN cols |-> cols[i].type]

KeyNames(m) == IF m.snowflake THEN <<"id">> ELSE m.key
PKColumnTypes(m) ==
  IF m.snowflake THEN <<"BIGINT">>
  ELSE [i \in DOMAIN m.key |-> m.cols[CHOOSE s \in FindColumn(m, m.key[i]) : TRUE].type]

\* From a place in a stored row to a place among the active columns, 0: dropped
BuildColumnIndexMap(m) ==
  [i \in DOMAIN m.cols |-> IF m.cols[i].dropped THEN 0
                           ELSE Cardinality({j \in 1..i : ~m.cols[j].dropped})]

\* planAlterSchema
AlterPlanned(m, a) ==
  LET known == FindColumn(m, a.name)
      slot == CHOOSE s \in known : TRUE
      col == BuildColumnMeta(a.def)
  IN  CASE a.kind = "add" ->
             IF ColumnRefused(a.def) \/ FindColumn(m, col.name) # {} \/ col.unique \/ col.pk
                \/ (col.notNull /\ col.default = Null) THEN None
             ELSE [m EXCEPT !.cols = Append(@, col)]
        [] a.kind = "modify" ->
             IF known = {} \/ ColumnRefused(a.def) THEN None
             ELSE IF col.type # m.cols[slot].type \/ col.pk # m.cols[slot].pk THEN None
             ELSE [m EXCEPT !.cols[slot] = col]
        [] a.kind = "drop" ->
             IF known = {} \/ a.name \in ToSet(m.key) THEN None
             ELSE [m EXCEPT !.cols[slot].dropped = TRUE]
        [] a.kind = "rename" ->
             IF known = {} \/ FindColumn(m, a.to) # {} THEN None
             ELSE [m EXCEPT !.cols[slot].name = a.to,
                            !.key = [i \in DOMAIN @ |-> IF @[i] = a.name THEN a.to ELSE @[i]]]

\* validateAlter: a renamed column looks like a new one.
AlterAllowed(old, new) ==
  /\ old.key = new.key
  /\ \A i \in DOMAIN new.cols :
       LET c == new.cols[i]
           was == FindColumn(old, c.name)
       IN  IF c.dropped THEN c.name \notin ToSet(old.key)
           ELSE IF was = {} THEN ~(c.notNull /\ c.default = Null) /\ ~c.unique
           ELSE \A s \in was : old.cols[s].type = c.type

-----------------------------------------------------------------------------
(* Reading the table *)

Prefix == EncodeScanPrefix(Db, Table)
HasPrefix(key) == IsPrefix(Prefix, key)
\* The keys of a prefix scan in key order
TableKeys(kv) == SetToSortSeq({k \in DOMAIN kv : HasPrefix(k)}, LexBelow)

\* decodeRowToAny: a column that the stored row does not have is NULL.
DecodeRow(m, value) ==
  LET stored == Decode(value)
      map == BuildColumnIndexMap(m)
      At(i) == {w \in DOMAIN stored : w \in DOMAIN map /\ map[w] = i}
  IN  [i \in DOMAIN ActiveColumns(m) |-> IF At(i) = {} THEN Null ELSE stored[CHOOSE w \in At(i) : TRUE]]

TableRows(m, kv) == [i \in DOMAIN TableKeys(kv) |-> DecodeRow(m, kv[TableKeys(kv)[i]])]

ScopeOf(m) == <<[binding |-> "t", table |-> "t", cols |-> ActiveColumns(m)]>>
ResolveWhere(m, c) == IF c = None THEN None ELSE ResolveCond(ScopeOf(m), c)
Matching(where, row) == IF where = None THEN True ELSE EvalCond(where, row)

-----------------------------------------------------------------------------
(* Writing rows *)

Ok(key, value, vals) == [err |-> "", key |-> key, value |-> value, vals |-> vals]
Reject(err) == [err |-> err, key |-> <<>>, value |-> <<>>, vals |-> <<>>]

\* validateColumnValue
Invalid(col, v) ==
  \/ v = Null /\ col.notNull
  \/ v.k = "string" /\ col.type = "VARCHAR" /\ Len(v.v) > col.len

\* The DEFAULT is kept as text and parsed again for its column.
ParseDefault(col) ==
  IF col.type \in {"INT", "BIGINT"} /\ col.default.k # "int64" THEN Error("mismatch")
  ELSE IF col.type = "DECIMAL" THEN Value("decimal", col.default.v) ELSE ToColumn(col.default, col.type)

\* buildRowKey and extractPKValues on a full row of active columns.  A snowflake
\* table needs a BIGINT column named id.
RowOf(m, cols, vals) ==
  LET Place(n) == {i \in DOMAIN cols : cols[i].name = n}
      names == KeyNames(m)
      key == [i \in DOMAIN names |-> vals[CHOOSE p \in Place(names[i]) : TRUE]]
      types == PKColumnTypes(m)
  IN  IF \E i \in DOMAIN names : \A p \in Place(names[i]) : cols[p].type # types[i] THEN Reject("key")
      ELSE IF Null \in ToSet(key) \/ PKRefused(types, key) THEN Reject("key")
      ELSE Ok(EncodeRowKey(Db, Table, EncodePK(types, key)), Encode(TypesOf(cols), vals), vals)

\* prepareInsertOp without its duplicate check: targets are places of cols.
Prepare(m, targets, given, n) ==
  LET cols == ActiveColumns(m)
      At(i) == {t \in DOMAIN targets : targets[t] = i}
      converted == [t \in DOMAIN targets |-> ToColumn(given[t], cols[targets[t]].type)]
      vals == [i \in DOMAIN cols |->
                 IF m.snowflake /\ i = 1 THEN Value("int64", Whole(n))
                 ELSE IF At(i) # {} THEN converted[CHOOSE t \in At(i) : TRUE]
                 ELSE IF cols[i].default # Null THEN ParseDefault(cols[i]) ELSE Null]
  IN  IF \E t \in DOMAIN targets : Invalid(cols[targets[t]], given[t]) \/ Failed(converted[t]) THEN Reject("value")
      ELSE IF AnyError(vals) THEN Reject("value")
      ELSE IF \E i \in DOMAIN cols : ~(m.snowflake /\ i = 1) /\ Invalid(cols[i], vals[i]) THEN Reject("value")
      ELSE RowOf(m, cols, vals)

Keys(ops) == [i \in DOMAIN ops |-> ops[i].key]
Repeats(s) == \E i, j \in DOMAIN s : i < j /\ s[i] = s[j]

Puts(ops) ==
  [k \in ToSet(Keys(ops)) |-> ops[Max({i \in DOMAIN ops : ops[i].key = k})].value]
WriteRows(kv, deleted, ops) ==
  LET puts == Puts(ops)
  IN  [k \in (DOMAIN kv \ deleted) \cup DOMAIN puts |-> IF k \in DOMAIN puts THEN puts[k] ELSE kv[k]]

Dropped(m) == \E i \in DOMAIN m.cols : m.cols[i].dropped

-----------------------------------------------------------------------------
(* The relation: a row is a function from the slots of the schema *)

ByName(m, row) == [n \in {c.name : c \in ToSet(ActiveColumns(m))} |-> row[CHOOSE s \in FindColumn(m, n) : TRUE]]
ActiveValues(m, row) == [i \in DOMAIN ActiveSlots(m) |-> row[ActiveSlots(m)[i]]]
FromActive(m, vals) ==
  [s \in DOMAIN m.cols |-> IF m.cols[s].dropped THEN Null ELSE vals[BuildColumnIndexMap(m)[s]]]
KeyOf(m, row) == [i \in DOMAIN KeyNames(m) |-> ByName(m, row)[KeyNames(m)[i]].v]
Unique(m, rows) == \A r, s \in rows : r # s => KeyOf(m, r) # KeyOf(m, s)

-----------------------------------------------------------------------------
(* Statements *)

Init ==
  /\ meta \in {BuildTableMeta(d) : d \in {d \in Defs : ~DefsRefused(d)}}
  /\ store = [k \in Others |-> Encode(<<"INT">>, <<Null>>)]
  /\ seq = 0
  /\ relation = {}
  /\ shifted = FALSE
  /\ steps = 0

\* resolveInsertColumns; no list is every active column.
TargetNames(names) == IF names = <<>> THEN [i \in DOMAIN ActiveColumns(meta) |-> ActiveColumns(meta)[i].name] ELSE names
Targets(names) ==
  LET cols == ActiveColumns(meta)
      wanted == TargetNames(names)
  IN  [i \in DOMAIN wanted |-> CHOOSE c \in DOMAIN cols : cols[c].name = wanted[i]]
NamesRefused(names) == Repeats(names) \/ \E i \in DOMAIN names : FindColumn(meta, names[i]) = {}

\* The written rows, or the first error; a duplicate key is an error too.
Failure(ops) == LET bad == {i \in DOMAIN ops : ops[i].err # ""} IN IF bad = {} THEN "" ELSE ops[Min(bad)].err

InsertCollides(ops) == ToSet(Keys(ops)) \cap DOMAIN store # {} \/ Repeats(Keys(ops))

\* The rows of the statement as the relation sees them.
Described(ops) == {FromActive(meta, ops[i].vals) : i \in DOMAIN ops}
\* A statement that would make two rows one, or give them one key, has no effect.
IfUnique(rows, count) == IF Cardinality(rows) = count /\ Unique(meta, rows) THEN rows ELSE relation

InsertOps(ops) ==
  LET done == ~InsertCollides(ops)
  IN  /\ Failure(ops) = ""
      /\ store' = IF done THEN WriteRows(store, {}, ops) ELSE store
      /\ seq' = IF done /\ meta.snowflake THEN seq + Len(ops) ELSE seq
      /\ relation' = IfUnique(relation \cup Described(ops), Cardinality(relation) + Len(ops))
      /\ shifted' = (shifted \/ (done /\ Dropped(meta)))
      /\ UNCHANGED meta

InsertRows(targets, rows) ==
  /\ ~\E r \in DOMAIN rows : AnyError(rows[r])
  /\ InsertOps([r \in DOMAIN rows |-> Prepare(meta, targets, rows[r], seq + r)])

InsertValues(s) ==
  LET targets == Targets(s.cols)
      exprs == [r \in DOMAIN s.rows |-> [i \in DOMAIN s.rows[r] |-> ResolveExpr(<<>>, s.rows[r][i])]]
      Allowed(r) == /\ Len(exprs[r]) = Len(targets)
                    /\ \A i \in DOMAIN targets :
                         /\ ~IsRefused(exprs[r][i])
                         /\ ExprsCompatible(exprs[r][i], [e |-> "col", type |-> ActiveColumns(meta)[targets[i]].type])
  IN  /\ ~NamesRefused(s.cols) /\ \A r \in DOMAIN exprs : Allowed(r)
      /\ InsertRows(targets, [r \in DOMAIN exprs |-> [i \in DOMAIN targets |-> EvalExpr(exprs[r][i], <<>>)]])

\* INSERT ... SELECT items FROM the table itself
InsertSelect(s) ==
  LET targets == Targets(s.cols)
      items == [i \in DOMAIN s.items |-> ResolveExpr(ScopeOf(meta), s.items[i])]
      source == TableRows(meta, store)
  IN  /\ ~NamesRefused(s.cols) /\ Len(items) = Len(targets)
      /\ \A i \in DOMAIN items :
           ~IsRefused(items[i]) /\ TypesCompatible(items[i].type, ActiveColumns(meta)[targets[i]].type)
      /\ InsertRows(targets, [r \in DOMAIN source |-> [i \in DOMAIN items |-> EvalExpr(items[i], source[r])]])

\* The row that SET makes of an old one, or the first error.
SetAt(set, i) == {a \in DOMAIN set : set[a].place = i}
AssignedRow(set, cols, new) ==
  LET converted == [i \in DOMAIN cols |-> ToColumn(new[i], cols[i].type)]
  IN  IF \/ AnyError(new) \/ AnyError(converted)
         \/ \E i \in DOMAIN cols : SetAt(set, i) # {} /\ Invalid(cols[i], new[i]) THEN Reject("value")
      ELSE RowOf(meta, cols, converted)
Assigned(set, row) ==
  AssignedRow(set, ActiveColumns(meta),
              [i \in DOMAIN row |-> IF SetAt(set, i) = {} THEN row[i] ELSE EvalExpr(set[CHOOSE a \in SetAt(set, i) : TRUE].x, row)])

\* Mutant: the keys that the statement itself frees still count.
MutUpdateCollides(old, new) == \E i \in DOMAIN new : new[i] # old[i] /\ new[i] \in DOMAIN store
\* Duplicates of the UPDATE: a key twice, or one of a row that stays.
UpdateCollides(old, new) ==
  LET deleted == {old[i] : i \in {i \in DOMAIN old : old[i] # new[i]}}
  IN  \/ Repeats(new)
      \/ \E i \in DOMAIN new : new[i] # old[i] /\ new[i] \in DOMAIN store \ deleted

UpdateDescribed(where, set) ==
  LET Hit(r) == Matching(where, ActiveValues(meta, r)) = True
      New(r) == FromActive(meta, Assigned(set, ActiveValues(meta, r)).vals)
  IN  IfUnique({IF Hit(r) THEN New(r) ELSE r : r \in relation}, Cardinality(relation))

Truths(where, rows) == [i \in DOMAIN rows |-> Matching(where, rows[i])]
Hits(truth) == SelectSeq([i \in DOMAIN truth |-> i], LAMBDA i : Keeps(truth[i]))

\* The rows with the keys old become the rows ops.
UpdateOps(where, set, old, ops) ==
  LET done == ~UpdateCollides(old, Keys(ops))
  IN  /\ Failure(ops) = ""
      /\ store' = IF done THEN WriteRows(store, ToSet(old) \ ToSet(Keys(ops)), ops) ELSE store
      /\ relation' = IF shifted THEN relation ELSE UpdateDescribed(where, set)
      /\ shifted' = (shifted \/ (done /\ ops # <<>> /\ Dropped(meta)))
      /\ UNCHANGED <<meta, seq>>
UpdateHits(where, set, rows, hits) ==
  UpdateOps(where, set, [h \in DOMAIN hits |-> TableKeys(store)[hits[h]]],
            [h \in DOMAIN hits |-> Assigned(set, rows[hits[h]])])
UpdateWhere(where, set, rows, truth) == ~AnyError(truth) /\ UpdateHits(where, set, rows, Hits(truth))

\* planUpdate: where and set are resolved.
UpdateResolved(where, set) ==
  /\ where = None \/ ~IsRefused(where)
  /\ \A a \in DOMAIN set :
       ~IsRefused(set[a].x) /\ ExprsCompatible(set[a].x, [e |-> "col", type |-> ActiveColumns(meta)[set[a].place].type])
  /\ LET rows == TableRows(meta, store) IN UpdateWhere(where, set, rows, Truths(where, rows))

Assignment(col, x) == IF IsRefused(col) THEN [place |-> 0, x |-> Refused] ELSE [place |-> col.idx, x |-> x]

Update(s) ==
  LET scope == ScopeOf(meta)
  IN  /\ ~Repeats([a \in DOMAIN s.set |-> s.set[a].name])
      /\ UpdateResolved(ResolveWhere(meta, s.where),
           [a \in DOMAIN s.set |-> Assignment(ResolveColumn(scope, "", s.set[a].name), ResolveExpr(scope, s.set[a].x))])

DeleteWhere(where, truth) ==
  /\ where = None \/ ~IsRefused(where)
  /\ ~AnyError(truth)
  /\ store' = WriteRows(store, {TableKeys(store)[i] : i \in ToSet(Hits(truth))}, <<>>)
  /\ relation' = {r \in relation : Matching(where, ActiveValues(meta, r)) # True}
  /\ UNCHANGED <<meta, seq, shifted>>
DeleteResolved(where) == DeleteWhere(where, Truths(where, TableRows(meta, store)))
Delete(c) == DeleteResolved(ResolveWhere(meta, c))

\* Rows that are there get NULL in a new column, with or without a DEFAULT.
AlterTable(a) ==
  LET new == AlterPlanned(meta, a)
  IN  /\ new # None /\ AlterAllowed(meta, new)
      /\ meta' = new
      /\ relation' = {[s \in DOMAIN new.cols |-> IF s \in DOMAIN r THEN r[s] ELSE Null] : r \in relation}
      /\ UNCHANGED <<store, seq, shifted>>

\* A statement that is refused changes nothing, so it is no step.
Next ==
  /\ steps < MaxSteps /\ steps' = steps + 1
  /\ \/ \E s \in Inserts : IF "rows" \in DOMAIN s THEN InsertValues(s) ELSE InsertSelect(s)
     \/ \E s \in Updates : Update(s)
     \/ \E c \in Deletes : Delete(c)
     \/ \E a \in Alters : AlterTable(a)

Spec == Init /\ [][Next]_vars

-----------------------------------------------------------------------------
(* Properties *)

\* What is read is what was written: the stored rows, decoded under the current
\* schema (BuildColumnIndexMap, decodeRowToAny), are the rows that the INSERTs,
\* UPDATEs, DELETEs and ALTERs describe, through defaults, column lists, key
\* changes and added, renamed and dropped columns, while no row has been
\* written under a schema with a dropped column.
RowsReadBack ==
  ~shifted =>
    /\ ToSet(TableRows(meta, store)) = {ActiveValues(meta, r) : r \in relation}
    /\ Len(TableKeys(store)) = Cardinality(relation)

PartBelow(a, b) == IF IsNumber(a) THEN Below(a.v, b.v) ELSE LexBelow(a.v, b.v)
KeyBelow(x, y) ==
  \E i \in DOMAIN x : PartBelow(x[i], y[i]) /\ \A j \in 1..(i - 1) : x[j].v = y[j].v

\* The byte order of row keys is the order of the primary keys and a key can be
\* read back: a scan returns the rows by primary key, and DecodeParts and
\* DecodePK find in each key the table and the key columns of its row.
KeysAreOrdered ==
  LET keys == TableKeys(store)
      pk == [i \in DOMAIN keys |-> DecodePK(PKColumnTypes(meta), DecodeParts(keys[i]).pk)]
      HasKey == \A n \in ToSet(KeyNames(meta)) : FindColumn(meta, n) # {}
      KeyVals(r) == [i \in DOMAIN KeyNames(meta) |-> ByName(meta, r)[KeyNames(meta)[i]]]
  IN  /\ \A i \in DOMAIN keys : DecodeParts(keys[i]).db = Db /\ DecodeParts(keys[i]).table = Table
      /\ \A i \in 1..(Len(keys) - 1) : KeyBelow(pk[i], pk[i + 1])
      /\ HasKey /\ ~shifted => ToSet(pk) = {KeyVals(r) : r \in relation}

\* No statement touches what another table or the catalog keeps, however the
\* names of databases and tables resemble each other (EncodeScanPrefix).
OthersUntouched ==
  \A k \in Others : k \in DOMAIN store /\ Decode(store[k]) = <<Null>> /\ ~HasPrefix(k)

\* A row value that ends early is never taken for a row (codec.Decode).
TornRowsAreDetected ==
  \A k \in DOMAIN store : \A n \in 0..(Len(store[k]) - 1) : IsCorrupted(Decode(SubSeq(store[k], 1, n)))
=============================================================================
