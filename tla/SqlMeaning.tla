------------------------------ MODULE SqlMeaning ------------------------------
(****************************************************************************)
(* What a SELECT means, told without plans, columns by position or early    *)
(* exits: the reference for the planner and the executor of SqlQuery.       *)
(*                                                                          *)
(* A unit is the sequence of source rows that one output row stands for: a  *)
(* single row or a group.  at is the place of each table's columns in a     *)
(* source row.  Truth is 0 (false), 1 (unknown) or 2 (true).                *)
(****************************************************************************)
EXTENDS SqlQuery

Offsets(from) ==
  [b \in {from[i].binding : i \in DOMAIN from} |->
     LET n == CHOOSE i \in DOMAIN from : from[i].binding = b
     IN  MapThenSumSet(LAMBDA i : Len(Schemas[from[i].table]), 1..(n - 1))]

Smaller(a, b) == IF a.k = "num" THEN Below(a.v, b.v) ELSE LexBelow(a.v, b.v)
Order(a, b) == IF Smaller(a, b) THEN -1 ELSE IF Smaller(b, a) THEN 1 ELSE 0

Truth(b) == IF b THEN 2 ELSE 0
Known(vals) == \A v \in ToSet(vals) : v # Null
TruthUnless(vals, b) == IF Known(vals) THEN Truth(b) ELSE 1
Opposite(neg, t) == IF neg THEN 2 - t ELSE t

\* Exact arithmetic; division of integers truncates.  Where the executor
\* reports division by zero no answer is expected.
Arithmetic(op, type, l, r) ==
  IF l = Null \/ r = Null \/ (op \in {"/", "%"} /\ r.v[1] = 0) THEN Null
  ELSE LET q == Compute(op, l.v, r.v)
       IN  Number(IF type \in {"INT", "BIGINT"} THEN Whole(Trunc(q)) ELSE q)

Aggregate(f, vals) ==
  LET args == IF f.distinct THEN SetToSeq(ToSet(vals)) ELSE vals
      total == FoldLeft(LAMBDA q, v : Add(q, v.v), Whole(0), args)
      Extreme(sign) == CHOOSE v \in ToSet(args) : \A w \in ToSet(args) : Order(v, w) \in {sign, 0}
  IN  IF f.name = "COUNT" THEN Number(Whole(Len(args)))
      ELSE IF args = <<>> THEN Null
      ELSE CASE f.name = "SUM" -> Number(total)
             [] f.name = "AVG" -> Number(Quo(total, Whole(Len(args))))
             [] f.name = "MIN" -> Extreme(-1)
             [] f.name = "MAX" -> Extreme(1)

Negative(op, y) == IF y # Null /\ op = "-" THEN Number(Neg(y.v)) ELSE y
TruthValue(t) == IF t = 1 THEN Null ELSE Bool(t = 2)

\* The truth of a condition from the values v and the truths t of its parts.
\* BETWEEN is unknown when any of its operands is, as evalBetweenValue has it.
TruthFrom(c, v, t) ==
  LET Equal(a, b) == TruthUnless(<<a, b>>, a = b)
  IN  CASE c.c = "cmp" -> TruthUnless(v, Known(v) /\ Holds(c.op, Order(v[1], v[2])))
        [] c.c = "and" -> Min({t[1], t[2]})
        [] c.c = "or" -> Max({t[1], t[2]})
        [] c.c = "not" -> 2 - t[1]
        [] c.c = "like" -> Opposite(c.neg, TruthUnless(v, Known(v) /\ Matches(v[1].v, v[2].v)))
        [] c.c = "isnull" -> Truth((v[1] = Null) # c.neg)
        [] c.c = "in" -> Opposite(c.neg, Max({Equal(v[1], v[i]) : i \in 2..Len(v)}))
        [] c.c = "between" ->
             Opposite(c.neg, TruthUnless(v, Known(v) /\ Order(v[1], v[2]) # -1 /\ Order(v[1], v[3]) # 1))
        [] c.c = "expr" -> IF v[1] = Null THEN 1 ELSE Truth(v[1] = True)

RECURSIVE Meaning(_, _, _), TruthOf(_, _, _)

Meaning(x, unit, at) ==
  CASE x.e = "lit" -> Plain(x.val)
    [] x.e = "col" -> Plain(unit[1][at[x.binding] + x.idx])
    [] x.e = "bin" -> Arithmetic(x.op, x.type, Meaning(x.l, unit, at), Meaning(x.r, unit, at))
    [] x.e = "un" -> Negative(x.op, Meaning(x.x, unit, at))
    [] x.e = "fn" ->
         IF x.star THEN Number(Whole(Len(unit)))
         ELSE Aggregate(x, SelectSeq([i \in DOMAIN unit |-> Meaning(x.x, <<unit[i]>>, at)], LAMBDA v : v # Null))
    [] x.e = "cond" -> TruthValue(TruthOf(x.cond, unit, at))

TruthOf(c, unit, at) ==
  TruthFrom(c, [i \in DOMAIN ExprsOf(c) |-> Meaning(ExprsOf(c)[i], unit, at)],
               [i \in DOMAIN CondsOf(c) |-> TruthOf(CondsOf(c)[i], unit, at)])

RECURSIVE Combinations(_, _)
Combinations(from, n) ==
  IF n = 0 THEN <<(<<>>)>> ELSE Product(Combinations(from, n - 1), content[from[n].table])

\* NULL counts as larger than every value.
KeyBelow(x, y, desc) ==
  IF x = Null \/ y = Null THEN x # y /\ (x = Null) = desc
  ELSE Order(x, y) = IF desc THEN 1 ELSE -1
Before(a, b, order) ==
  \E k \in DOMAIN order :
    /\ \A j \in 1..(k - 1) : a.keys[j] = b.keys[j]
    /\ KeyBelow(a.keys[k], b.keys[k], order[k].desc)

\* Ties stay in the order in which the rows, or the groups' first rows, are stored.
Sorted(units, order) ==
  LET Rank(i) == Cardinality({j \in DOMAIN units : Before(units[j], units[i], order)
                                \/ (j < i /\ ~Before(units[i], units[j], order))})
  IN  [r \in DOMAIN units |-> units[CHOOSE i \in DOMAIN units : Rank(i) = r - 1]]

Satisfied(c, unit, at) == c = None \/ TruthOf(c, unit, at) = 2

\* The combinations of rows that WHERE and every ON admit.
Source(q, a, at) ==
  SelectSeq(Combinations(q.from, Len(q.from)),
            LAMBDA r : \A c \in {a.where} \cup ToSet(a.ons) : Satisfied(c, <<r>>, at))

\* One unit per row, per GROUP BY key in the order of its first row, or in all.
UnitsByKey(source, keys) ==
  [g \in DOMAIN Distinct(keys) |->
     LET members == SelectSeq([i \in DOMAIN source |-> i], LAMBDA i : keys[i] = Distinct(keys)[g])
     IN  [m \in DOMAIN members |-> source[members[m]]]]
Units(a, source, at) ==
  IF ~a.aggregate THEN [i \in DOMAIN source |-> <<source[i]>>]
  ELSE IF a.group = <<>> THEN <<source>>
  ELSE UnitsByKey(source, [i \in DOMAIN source |->
                             [g \in DOMAIN a.group |-> Meaning(a.group[g], <<source[i]>>, at)]])

\* The output row of each unit that HAVING admits, and what ORDER BY sorts it by.
Output(a, units, at) ==
  LET kept == SelectSeq(units, LAMBDA u : Satisfied(a.having, u, at))
  IN  [k \in DOMAIN kept |-> [out |-> [i \in DOMAIN a.items |-> Meaning(a.items[i].x, kept[k], at)],
                              keys |-> [i \in DOMAIN a.order |-> Meaning(a.order[i].x, kept[k], at)]]]

Window(rows, limit) ==
  IF limit = None THEN rows
  ELSE [i \in 1..Min({limit.count, Max({0, Len(rows) - limit.offset})}) |-> rows[limit.offset + i]]

Arranged(q, shown) == Sorted(IF q.distinct THEN Distinct(shown) ELSE shown, q.order)
Outs(sorted) == [i \in DOMAIN sorted |-> sorted[i].out]

\* The answer to a query q with analysis a.
Answer(q, a) ==
  LET at == Offsets(q.from)
  IN  Window(Outs(Arranged(q, Output(a, Units(a, Source(q, a, at), at), at))), q.limit)

-----------------------------------------------------------------------------
(* The queries that are accepted and not answered as they are meant *)

RECURSIVE ColumnsIn(_), ColumnsInCond(_)
ColumnsIn(x) ==
  CASE x.e = "col" -> {x}
    [] x.e = "fn" -> IF x.star THEN {} ELSE ColumnsIn(x.x)
    [] x.e = "cond" -> ColumnsInCond(x.cond)
    [] OTHER -> UNION {ColumnsIn(y) : y \in ToSet(OperandsOf(x))}
ColumnsInCond(c) ==
  UNION ({ColumnsIn(x) : x \in ToSet(ExprsOf(c))} \cup {ColumnsInCond(d) : d \in ToSet(CondsOf(c))})
ColumnsOfCond(c) == IF c = None THEN {} ELSE ColumnsInCond(c)

\* A column of a joined table is looked up at its place in its own table.
Shifted(q, a) ==
  LET used == UNION ({ColumnsIn(a.items[i].x) : i \in DOMAIN a.items}
                     \cup {ColumnsIn(a.order[i].x) : i \in DOMAIN a.order}
                     \cup {ColumnsOfCond(c) : c \in {a.where, a.having} \cup ToSet(a.ons)})
              \cup ToSet(a.group)
  IN  \E x \in used : Offsets(q.from)[x.binding] > 0

\* ORDER BY and HAVING are evaluated on the output row.
InPlace(x, items) == x.idx \in DOMAIN items /\ items[x.idx].x = x
Misplaced(a) ==
  \/ \E i \in DOMAIN a.order : \/ ExprHasAggregate(a.order[i].x)
                              \/ \E x \in ColumnsIn(a.order[i].x) : ~InPlace(x, a.items)
  \/ a.having # None /\ CondHasAggregate(a.having)
  \/ \E x \in ColumnsOfCond(a.having) : ~InPlace(x, a.items)

\* An aggregate below a condition of the SELECT list is not computed.
RECURSIVE HidesAggregate(_)
HidesAggregate(x) ==
  IF x.e = "cond" THEN CondHasAggregate(x.cond)
  ELSE \E y \in ToSet(OperandsOf(x)) : HidesAggregate(y)

\* A constant beside an aggregate over no rows is NULL.
RECURSIVE HasConstant(_)
HasConstant(x) == x.e \in {"lit", "cond"} \/ \E y \in ToSet(OperandsOf(x)) : HasConstant(y)

\* GROUP BY, SELECT DISTINCT and COUNT(DISTINCT) compare DECIMALs by their texts,
\* and a number is stored under two of them.
RECURSIVE CountsTexts(_)
CountsTexts(x) ==
  \/ x.e = "fn" /\ x.name = "COUNT" /\ x.distinct /\ x.x.type = "DECIMAL"
  \/ \E y \in ToSet(OperandsOf(x)) : CountsTexts(y)
ComparesTexts(q, a) ==
  \/ \E i \in DOMAIN a.group : a.group[i].type = "DECIMAL"
  \/ \E i \in DOMAIN a.items : (q.distinct /\ a.items[i].x.type = "DECIMAL") \/ CountsTexts(a.items[i].x)
Stored(q) == UNION {UNION {ToSet(r) : r \in ToSet(content[q.from[i].table])} : i \in DOMAIN q.from}
TwoTexts(q) == \E v, w \in Stored(q) : v.k = "decimal" /\ w.k = "decimal" /\ v # w /\ Plain(v) = Plain(w)

KnownWrong(q, a) ==
  \/ Shifted(q, a)
  \/ Misplaced(a)
  \/ \E i \in DOMAIN a.items : HidesAggregate(a.items[i].x)
  \/ a.aggregate /\ a.group = <<>> /\ \E i \in DOMAIN a.items : HasConstant(a.items[i].x)
  \/ ComparesTexts(q, a) /\ TwoTexts(q)

-----------------------------------------------------------------------------
(* Properties *)

Executed == result # None
Shown(rows) == [i \in DOMAIN rows |-> [j \in DOMAIN rows[i] |-> Plain(rows[i][j])]]

\* A query that the executor answers is answered as it is meant: the nested
\* loops, the grouping, the insertion sort with its NULLs, three-valued AND, OR,
\* NOT, IN, BETWEEN and LIKE and the folds of the aggregates, on columns found by
\* position (execRelNode, evalCondValue), agree with the reference.
AnswersAreRight ==
  Executed /\ result.ok /\ ~KnownWrong(query, Analyse(query)) => Shown(result.rows) = Answer(query, Analyse(query))

Fits(v, type) ==
  \/ v = Null
  \/ type = "INT" /\ IsInteger(v) /\ InRange(v.v, IntMax)
  \/ type = "BIGINT" /\ IsInteger(v) /\ InRange(v.v, BigMax)
  \/ type \in {"FLOAT", "DOUBLE"} /\ IsFloat(v)
  \/ type = "DECIMAL" /\ v.k = "decimal"
  \/ IsStringType(type) /\ v.k = "string"
  \/ type = "BOOLEAN" /\ v.k = "bool"

\* What the planner's type checks promise the executor: a plan runs into no
\* type mismatch, no column outside of its row and no aggregate out of place, and
\* each value fits the type announced for its column (outputColumns), so that
\* an INT overflow is reported and never returned.
TypesAreSound ==
  Executed /\ ~KnownWrong(query, Analyse(query)) =>
    IF result.ok
    THEN LET items == Analyse(query).items
         IN  \A row \in ToSet(result.rows) : \A i \in DOMAIN row : Fits(row[i], items[i].x.type)
    ELSE result.err \in {"overflow", "zero"}
=============================================================================
