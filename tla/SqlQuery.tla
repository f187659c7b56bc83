------------------------------- MODULE SqlQuery -------------------------------
(****************************************************************************)
(* SELECT: planned by internal/sql/planner (plan_queries.go, aggregate.go,  *)
(* resolve.go) into a tree of relational operators, and executed by         *)
(* internal/sql/executor (exec_query.go).                                   *)
(*                                                                          *)
(* A parsed query: from is a chain of [table, binding, join, on] (on = None *)
(* for a comma or a CROSS JOIN), items of [star, q] or [x, alias], group of *)
(* columns, order of [x, desc]; where, having and limit may be None.        *)
(****************************************************************************)
EXTENDS SqlValues, Folds

CONSTANTS
  Schemas,   \* table -> its active columns
  Contents,  \* what the tables may hold: table -> sequence of rows
  Queries,   \* the parsed queries that are asked
  None

VARIABLES content, query, plan, result

vars == <<content, query, plan, result>>

-----------------------------------------------------------------------------
(* Planning *)

TableOf(ref) == [binding |-> ref.binding, table |-> ref.table, cols |-> Schemas[ref.table]]
ScopeOf(from) == [i \in DOMAIN from |-> TableOf(from[i])]

Resolve(scope, c) == IF c = None THEN None ELSE ResolveCond(scope, c)
CondRefused(c) == c # None /\ IsRefused(c)
Aggregates(c) == c # None /\ ~IsRefused(c) /\ CondHasAggregate(c)

\* An ON condition sees the tables up to its own.
JoinConds(from) == [i \in DOMAIN from |-> Resolve(ScopeOf(SubSeq(from, 1, i)), from[i].on)]

Scan(t) == [node |-> "scan", table |-> t]
Join(l, r, on) == [node |-> "join", l |-> l, r |-> r, on |-> on]
Filter(input, c) == [node |-> "filter", input |-> input, cond |-> c]

RECURSIVE FromPlan(_, _, _)
FromPlan(from, ons, n) ==
  IF n = 1 THEN Scan(from[1].table)
  ELSE Join(FromPlan(from, ons, n - 1), Scan(from[n].table), ons[n])

BuildFromPlan(from, ons) ==
  IF from = <<>> THEN [node |-> "empty"] ELSE FromPlan(from, ons, Len(from))

FromRefused(from, ons) ==
  \/ \E i \in DOMAIN from : from[i].join \in {"LEFT", "RIGHT", "FULL"}
  \/ \E i, j \in DOMAIN from : i # j /\ from[i].binding = from[j].binding
  \/ \E c \in ToSet(ons) : CondRefused(c) \/ Aggregates(c)

DefaultAlias(x) == IF x.e \in {"col", "fn"} THEN x.name ELSE ""

ColumnsOf(table) ==
  [i \in DOMAIN table.cols |-> LET x == ResolveColumn(<<table>>, table.binding, table.cols[i].name)
                               IN  [x |-> x, alias |-> x.name]]
\* *, or table.* of the table bound to q
ExpandStar(scope, q) ==
  LET tables == SelectSeq(scope, LAMBDA t : q \in {"", t.binding})
  IN  IF tables = <<>> THEN <<[x |-> Refused, alias |-> ""]>>
      ELSE FlattenSeq([i \in DOMAIN tables |-> ColumnsOf(tables[i])])

NamedItem(x, alias) == [x |-> x, alias |-> IF IsRefused(x) \/ alias # "" THEN alias ELSE DefaultAlias(x)]
ResolveItem(scope, item) ==
  IF item.star THEN ExpandStar(scope, item.q) ELSE <<NamedItem(ResolveExpr(scope, item.x), item.alias)>>
ResolveSelectList(scope, items) == FlattenSeq([i \in DOMAIN items |-> ResolveItem(scope, items[i])])

SameColumn(x, y) == x.table = y.table /\ x.name = y.name /\ x.idx = y.idx

RECURSIVE ValidGroupedExpr(_, _), ValidGroupedCond(_, _)
ValidGroupedExpr(x, keys) ==
  CASE x.e = "fn" -> TRUE
    [] x.e = "col" -> \E k \in ToSet(keys) : SameColumn(x, k)
    [] x.e = "cond" -> ValidGroupedCond(x.cond, keys)
    [] OTHER -> \A y \in ToSet(OperandsOf(x)) : ValidGroupedExpr(y, keys)
ValidGroupedCond(c, keys) ==
  /\ \A x \in ToSet(ExprsOf(c)) : ValidGroupedExpr(x, keys)
  /\ \A d \in ToSet(CondsOf(c)) : ValidGroupedCond(d, keys)

\* resolveOrderByExpr: a position, the alias of an item, or an expression over
\* the tables; in each case the expression itself, not the item's place.
ResolveOrderBy(scope, items, x) ==
  LET named == {i \in DOMAIN items : x.e = "name" /\ x.q = "" /\ items[i].alias = x.n}
  IN  IF IsIntLit(x)
      THEN IF x.val.v[1] \in DOMAIN items THEN [x |-> items[x.val.v[1]].x, scoped |-> FALSE]
           ELSE [x |-> Refused, scoped |-> FALSE]
      ELSE IF named # {} THEN [x |-> items[Min(named)].x, scoped |-> FALSE]
      ELSE [x |-> ResolveExpr(scope, x), scoped |-> TRUE]

AnyItemHasAggregate(items) == \E i \in DOMAIN items : ~IsRefused(items[i].x) /\ ExprHasAggregate(items[i].x)

\* GROUP BY, an aggregate in the list or one in HAVING makes the query aggregate.
IsAggregate(q, items, having) == q.group # <<>> \/ Aggregates(having) \/ AnyItemHasAggregate(items)

\* Everything the planner works out about a query, its SELECT list and HAVING first.
AnalyseRest(q, scope, items, having) ==
  [ons |-> JoinConds(q.from), where |-> Resolve(scope, q.where), items |-> items, having |-> having,
   group |-> [i \in DOMAIN q.group |-> ResolveColumn(scope, q.group[i].q, q.group[i].n)],
   order |-> [i \in DOMAIN q.order |-> ResolveOrderBy(scope, items, q.order[i].x)],
   aggregate |-> IsAggregate(q, items, having)]
Analyse(q) ==
  LET scope == ScopeOf(q.from)
  IN  AnalyseRest(q, scope, ResolveSelectList(scope, q.items), Resolve(scope, q.having))

\* The clauses in the order in which planSelect checks them.
QueryRefused(q, a) ==
  \/ FromRefused(q.from, a.ons)
  \/ q.where # None /\ (q.from = <<>> \/ IsRefused(a.where) \/ Aggregates(a.where))
  \/ \E i \in DOMAIN a.items : IsRefused(a.items[i].x)
  \/ CondRefused(a.having) \/ \E i \in DOMAIN a.group : IsRefused(a.group[i])
  \/ a.aggregate /\ q.from = <<>>
  \/ a.aggregate /\ \E i \in DOMAIN a.items : ~ValidGroupedExpr(a.items[i].x, a.group)
  \/ a.aggregate /\ a.having # None /\ ~ValidGroupedCond(a.having, a.group)
  \/ ~a.aggregate /\ a.having # None
  \/ \E i \in DOMAIN a.order :
       \/ IsRefused(a.order[i].x)
       \/ a.aggregate /\ a.order[i].scoped /\ ~ValidGroupedExpr(a.order[i].x, a.group)

\* ORDER BY and LIMIT are on top, above the projection.
PlanTree(q, a) ==
  LET from == BuildFromPlan(q.from, a.ons)
      filtered == IF a.where = None THEN from ELSE Filter(from, a.where)
      grouped == [node |-> "aggregate", input |-> filtered, group |-> a.group, items |-> a.items]
      selected == IF ~a.aggregate THEN [node |-> "project", input |-> filtered, items |-> a.items]
                  ELSE IF a.having = None THEN grouped ELSE Filter(grouped, a.having)
      distinct == IF q.distinct THEN [node |-> "distinct", input |-> selected] ELSE selected
      sorted == IF a.order = <<>> THEN distinct
                ELSE [node |-> "sort", input |-> distinct,
                      order |-> [i \in DOMAIN a.order |-> [x |-> a.order[i].x, desc |-> q.order[i].desc]]]
  IN  IF q.limit = None THEN sorted ELSE [node |-> "limit", input |-> sorted, limit |-> q.limit]

PlanAnalysed(q, a) == IF QueryRefused(q, a) THEN Refused ELSE PlanTree(q, a)
PlanSelect(q) == PlanAnalysed(q, Analyse(q))

-----------------------------------------------------------------------------
(* Execution: a sequence of rows or the first error *)

Rows(rows) == [ok |-> TRUE, rows |-> rows]
Stop(err) == [ok |-> FALSE, rows |-> <<>>, err |-> err.k]

RowsOrError(out) ==
  LET bad == {i \in DOMAIN out : AnyError(out[i])}
  IN  IF bad = {} THEN Rows(out) ELSE Stop(FirstError(out[Min(bad)]))

\* Each row through the expressions.
MapRows(rows, items) ==
  RowsOrError([i \in DOMAIN rows |-> [j \in DOMAIN items |-> EvalExpr(items[j].x, rows[i])]])

KeepRows(rows, truth) ==
  LET kept == SelectSeq([i \in DOMAIN rows |-> i], LAMBDA i : Keeps(truth[i]))
  IN  IF AnyError(truth) THEN Stop(FirstError(truth)) ELSE Rows([i \in DOMAIN kept |-> rows[kept[i]]])
FilterRows(rows, c) == KeepRows(rows, [i \in DOMAIN rows |-> EvalCond(c, rows[i])])

Product(left, right) ==
  FlattenSeq([i \in DOMAIN left |-> [j \in DOMAIN right |-> left[i] \o right[j]]])

\* The places of the first occurrences, which a map keyed by valuesKey, or by
\* the value itself, finds: a DECIMAL is compared by its text.
Firsts(s) == SelectSeq([i \in DOMAIN s |-> i], LAMBDA i : \A j \in 1..(i - 1) : s[j] # s[i])
Distinct(s) == [i \in DOMAIN Firsts(s) |-> s[Firsts(s)[i]]]

\* The rows of each GROUP BY key; without GROUP BY an empty input is one group.
Groups(rows, keys) ==
  LET first == Firsts(keys)
      Members(k) == SelectSeq([i \in DOMAIN rows |-> i], LAMBDA i : keys[i] = k)
      Group(k) == [i \in DOMAIN Members(k) |-> rows[Members(k)[i]]]
  IN  [g \in DOMAIN first |-> Group(keys[first[g]])]

\* accumulateIntegerSum checks int64 at every addition.
SumStep(acc, v, type) ==
  LET sum == Add(acc.v, v.v)
  IN  IF Failed(acc) THEN acc
      ELSE IF Failed(v) THEN v
      ELSE IF type \in {"INT", "BIGINT"} /\ ~InRange(sum, BigMax) THEN Error("overflow")
      ELSE Value(acc.k, sum)
SumOf(vals, type) == FoldLeft(LAMBDA acc, v : SumStep(acc, v, type), Value("sum", Whole(0)), vals)

EvalSum(vals, type, resultType) ==
  LET sum == SumOf(vals, type)
  IN  IF Failed(sum) THEN sum
      ELSE CASE type = "DECIMAL" -> CoerceRatResult(sum.v, resultType)
             [] type \in {"INT", "BIGINT"} -> CoerceIntegerResult(sum.v, resultType)
             [] OTHER -> CoerceResultByKind(sum.v, resultType)

EvalAvg(vals, type, resultType) ==
  LET sum == SumOf(vals, "DOUBLE")
      avg == Quo(sum.v, Whole(Len(vals)))
  IN  IF Failed(sum) THEN sum
      ELSE IF type = "DECIMAL" THEN CoerceRatResult(avg, resultType) ELSE Value("float64", avg)

EvalMinMax(vals, sign) ==
  LET Better(best, v) ==
        IF Failed(best) THEN best
        ELSE IF Failed(v) THEN v
        ELSE LET cmp == CompareValues(v, best)
             IN  IF Failed(cmp) THEN cmp ELSE IF Sign(cmp) = sign THEN v ELSE best
  IN  FoldLeft(Better, Head(vals), Tail(vals))

\* What DISTINCT keeps of the arguments: COUNT compares the values, SUM and AVG
\* of a DECIMAL compare the numbers (RatString).
DistinctArgs(f, args) ==
  LET first == Firsts(IF f.name = "COUNT" THEN args ELSE [i \in DOMAIN args |-> Plain(args[i])])
  IN  [i \in DOMAIN first |-> args[first[i]]]

NonNull(args) == SelectSeq(args, LAMBDA v : v # Null)

\* args: the argument for each row of the group, without NULLs
AggregateOf(f, args) ==
  LET vals == IF f.distinct THEN DistinctArgs(f, args) ELSE args
  IN  IF f.name = "COUNT"
      THEN IF AnyError(args) THEN FirstError(args) ELSE Value("int64", Whole(Len(vals)))
      ELSE IF vals = <<>> THEN Null
      ELSE CASE f.name = "SUM" -> EvalSum(vals, f.x.type, f.type)
             [] f.name = "AVG" -> EvalAvg(vals, f.x.type, f.type)
             [] f.name = "MIN" -> EvalMinMax(args, -1)
             [] f.name = "MAX" -> EvalMinMax(args, 1)
EvalAggregateFunc(f, unit) ==
  IF f.star THEN Value("int64", Whole(Len(unit)))
  ELSE AggregateOf(f, NonNull([i \in DOMAIN unit |-> EvalExpr(f.x, unit[i])]))

\* Anything that is not arithmetic over aggregates comes from the first row of
\* the group, and is NULL in an empty one, literals included.
RECURSIVE EvalAggregateExpr(_, _)
EvalAggregateExpr(x, unit) ==
  CASE x.e = "fn" -> EvalAggregateFunc(x, unit)
    [] x.e = "bin" -> EvalArithmetic(x.op, x.type, EvalAggregateExpr(x.l, unit), EvalAggregateExpr(x.r, unit))
    [] x.e = "un" -> EvalUnary(x.op, x.type, EvalAggregateExpr(x.x, unit))
    [] OTHER -> IF unit = <<>> THEN Null ELSE EvalExpr(x, unit[1])

AggregateUnits(units, items) ==
  RowsOrError([u \in DOMAIN units |-> [j \in DOMAIN items |-> EvalAggregateExpr(items[j].x, units[u])]])
AggregateBy(rows, keys, group, items) ==
  IF ~keys.ok THEN keys
  ELSE AggregateUnits(IF rows = <<>> /\ group = <<>> THEN <<(<<>>)>> ELSE Groups(rows, keys.rows), items)
AggregateRows(rows, group, items) ==
  AggregateBy(rows, MapRows(rows, [g \in DOMAIN group |-> [x |-> group[g]]]), group, items)

\* NULLs are last in ascending order, first in descending order; cmp compares x
\* with y, tie is the result when they are equal.
LessBy(desc, x, y, cmp, tie) ==
  IF Failed(x) THEN x
  ELSE IF Failed(y) THEN y
  ELSE IF x = Null /\ y = Null THEN tie
  ELSE IF x = Null THEN Bool(desc)
  ELSE IF y = Null THEN Bool(~desc)
  ELSE IF Failed(cmp) THEN cmp
  ELSE IF Sign(cmp) = 0 THEN tie
  ELSE Bool((Sign(cmp) > 0) = desc)
LessValue(desc, x, y, tie) == LessBy(desc, x, y, CompareValues(x, y), tie)

RECURSIVE Less(_, _, _)
Less(order, a, b) ==
  IF order = <<>> THEN False
  ELSE LessValue(Head(order).desc, EvalExpr(Head(order).x, a), EvalExpr(Head(order).x, b), Less(Tail(order), a, b))

\* sort.SliceStable on at most 20 rows is an insertion sort; the first error
\* of a comparison ends the query.
Place(sorted, r, less, rest) ==
  IF Failed(less) THEN Stop(less)
  ELSE IF less = False THEN Rows(Append(sorted, r))
  ELSE IF rest.ok THEN Rows(Append(rest.rows, Last(sorted))) ELSE rest
RECURSIVE Insert(_, _, _)
Insert(order, sorted, r) ==
  IF sorted = <<>> THEN Rows(<<r>>)
  ELSE Place(sorted, r, Less(order, r, Last(sorted)), Insert(order, Front(sorted), r))
SortRows(rows, order) ==
  FoldLeft(LAMBDA acc, r : IF acc.ok THEN Insert(order, acc.rows, r) ELSE acc, Rows(<<>>), rows)

LimitRows(rows, limit) ==
  IF limit.offset >= Len(rows) THEN <<>>
  ELSE SubSeq(rows, limit.offset + 1, Min({Len(rows), limit.offset + limit.count}))

JoinRows(l, r, on) ==
  IF ~l.ok THEN l
  ELSE IF on = None THEN Rows(Product(l.rows, r.rows))
  ELSE FilterRows(Product(l.rows, r.rows), on)

Apply(n, input) ==
  CASE ~input.ok -> input
    [] input.ok /\ n.node = "filter" -> FilterRows(input.rows, n.cond)
    [] input.ok /\ n.node = "project" -> MapRows(input.rows, n.items)
    [] input.ok /\ n.node = "aggregate" -> AggregateRows(input.rows, n.group, n.items)
    [] input.ok /\ n.node = "distinct" -> Rows(Distinct(input.rows))
    [] input.ok /\ n.node = "sort" -> SortRows(input.rows, n.order)
    [] input.ok /\ n.node = "limit" -> Rows(LimitRows(input.rows, n.limit))

RECURSIVE ExecRelNode(_, _)
ExecRelNode(n, tables) ==
  CASE n.node = "empty" -> Rows(<<(<<>>)>>)
    [] n.node = "scan" -> Rows(tables[n.table])
    [] n.node = "join" -> JoinRows(ExecRelNode(n.l, tables), ExecRelNode(n.r, tables), n.on)
    [] OTHER -> Apply(n, ExecRelNode(n.input, tables))

-----------------------------------------------------------------------------
(* A query is planned against the catalog, then executed. *)

Init ==
  /\ content \in Contents
  /\ query \in Queries
  /\ plan = None
  /\ result = None

Plan ==
  /\ plan = None
  /\ plan' = PlanSelect(query)
  /\ UNCHANGED <<content, query, result>>

ExecQuery ==
  /\ plan \notin {None, Refused} /\ result = None
  /\ result' = ExecRelNode(plan, content)
  /\ UNCHANGED <<content, query, plan>>

Next == Plan \/ ExecQuery

Spec == Init /\ [][Next]_vars
=============================================================================
