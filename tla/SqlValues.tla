------------------------------ MODULE SqlValues ------------------------------
(****************************************************************************)
(* Typed expressions and conditions: how the planner types them             *)
(* (internal/sql/planner: typecheck.go, plan_expressions.go,                *)
(* plan_conditions.go) and how the executor computes them                   *)
(* (internal/sql/executor: eval.go, convert.go).                            *)
(*                                                                          *)
(* A value has a Go type and a content.  Numbers are exact fractions        *)
(* <<numerator, denominator>>: the rounding of floats and the 30 digits of  *)
(* a non-terminating DECIMAL are left out; the widths of INT and BIGINT     *)
(* are not.  A DECIMAL is a text: one that is not written the way           *)
(* ratToDecimal writes its number has the zeros that it trails as a third   *)
(* component (1.5 is <<3, 2>>, 1.50 is <<3, 2, 1>>).  Strings are sequences *)
(* of character codes, booleans <<0>>, <<1>>.                               *)
(****************************************************************************)
EXTENDS Integers, Sequences, FiniteSets, SequencesExt, FiniteSetsExt

CONSTANTS
  IntMax,  \* math.MaxInt32
  BigMax   \* math.MaxInt64

ASSUME WidthAssumption == IntMax \in Nat /\ BigMax \in Nat /\ IntMax < BigMax

Null == [k |-> "nil", v |-> <<>>]
Value(kind, content) == [k |-> kind, v |-> content]
Bool(b) == Value("bool", IF b THEN <<1>> ELSE <<0>>)

\* ErrNumericOverflow, ErrDivisionByZero, ErrTypeMismatch, an index out of the
\* row, an aggregate outside of an aggregation
Errors == {"overflow", "zero", "mismatch", "range", "context"}
Failed(x) == x.k \in Errors
Error(what) == Value(what, <<>>)

-----------------------------------------------------------------------------
(* Fractions *)

Gcd[a \in Nat, b \in Nat] == IF b = 0 THEN a ELSE Gcd[b, a % b]
Magnitude(n) == IF n < 0 THEN -n ELSE n
Fraction(n, d) ==
  LET g == Gcd[Magnitude(n), Magnitude(d)]
      s == IF d < 0 THEN -1 ELSE 1
  IN  <<(s * n) \div g, (s * d) \div g>>
Whole(n) == <<n, 1>>
Add(p, q) == Fraction(p[1] * q[2] + q[1] * p[2], p[2] * q[2])
Mul(p, q) == Fraction(p[1] * q[1], p[2] * q[2])
Neg(q) == <<-q[1], q[2]>>
Quo(p, q) == Fraction(p[1] * q[2], p[2] * q[1])
Trunc(q) == IF q[1] < 0 THEN -((-q[1]) \div q[2]) ELSE q[1] \div q[2]
Rem(p, q) == Add(p, Neg(Mul(q, Whole(Trunc(Quo(p, q))))))
Below(p, q) == p[1] * q[2] < q[1] * p[2]

-----------------------------------------------------------------------------
(* Types *)

NumericRank(t) ==
  CASE t = "INT" -> 0 [] t = "BIGINT" -> 1 [] t = "FLOAT" -> 2 [] t = "DOUBLE" -> 3 [] t = "DECIMAL" -> 4
IsNumericType(t) == t \in {"INT", "BIGINT", "FLOAT", "DOUBLE", "DECIMAL"}
IsStringType(t) == t \in {"VARCHAR", "TEXT"}
IsOrderableType(t) == t # "BOOLEAN"

TypesCompatible(a, b) ==
  \/ IsNumericType(a) /\ IsNumericType(b)
  \/ IsStringType(a) /\ IsStringType(b)
  \/ a = b
TypesOrderable(a, b) == TypesCompatible(a, b) /\ IsOrderableType(a) /\ IsOrderableType(b)

\* Resolved expressions.  A NULL literal has the type NULL.
Lit(kind, content, type) == [e |-> "lit", val |-> Value(kind, content), type |-> type]
NullExpr == [e |-> "lit", val |-> Null, type |-> "NULL"]
IsNullExpr(x) == x = NullExpr
ExprsCompatible(x, y) == IsNullExpr(x) \/ IsNullExpr(y) \/ TypesCompatible(x.type, y.type)

\* An expression or condition that the planner refuses.
Refused == [e |-> "refused", c |-> "refused", type |-> "NULL"]
IsRefused(x) == x = Refused

ArithmeticResultType(l, r) ==
  IF IsNullExpr(l) /\ IsNullExpr(r) THEN "INT"
  ELSE IF IsNullExpr(l) THEN r.type
  ELSE IF IsNullExpr(r) THEN l.type
  ELSE IF NumericRank(l.type) >= NumericRank(r.type) THEN l.type ELSE r.type

AggregateResultType(name, t) ==
  CASE name = "COUNT" -> "BIGINT"
    [] name = "SUM" /\ IsNumericType(t) -> IF NumericRank(t) >= NumericRank("FLOAT") THEN t ELSE "BIGINT"
    [] name = "AVG" /\ IsNumericType(t) -> IF t = "DECIMAL" THEN "DECIMAL" ELSE "DOUBLE"
    [] name \in {"MIN", "MAX"} /\ IsOrderableType(t) -> t
    [] OTHER -> "REFUSED"

-----------------------------------------------------------------------------
(* Conversions and comparison at run time *)

IsInteger(x) == x.k \in {"int32", "int64"}
IsFloat(x) == x.k \in {"float32", "float64"}
IsNumber(x) == IsInteger(x) \/ IsFloat(x) \/ x.k = "decimal"

\* A number without its Go type and without its text: toRat
Number(q) == Value("num", <<q[1], q[2]>>)
Plain(v) == IF IsNumber(v) THEN Number(v.v) ELSE v

InRange(q, max) == ~Below(q, Whole(-max - 1)) /\ ~Below(Whole(max), q)
BelowWidth(q, max) == ~Below(q, Whole(-max - 1)) /\ Below(q, Whole(max + 1))

\* toInt32, toInt64: a float is checked before it is truncated; a decimal is refused.
ToInt32(x) ==
  IF ~(IsInteger(x) \/ IsFloat(x)) \/ ~InRange(x.v, IntMax) THEN Error("mismatch")
  ELSE Value("int32", Whole(Trunc(x.v)))
ToInt64(x) ==
  IF ~(IsInteger(x) \/ IsFloat(x)) \/ ~BelowWidth(x.v, BigMax) THEN Error("mismatch")
  ELSE Value("int64", Whole(Trunc(x.v)))
ToFloat(x, kind) == IF IsNumber(x) THEN Value(kind, Plain(x).v) ELSE Error("mismatch")

\* anyToColumnValue and the codec constructors behind it.
ToColumn(x, type) ==
  LET Same(kind) == IF x.k = kind THEN x ELSE Error("mismatch")
  IN  IF x = Null THEN Null
      ELSE CASE type = "INT" -> ToInt32(x)
             [] type = "BIGINT" -> ToInt64(x)
             [] type = "FLOAT" -> ToFloat(x, "float32")
             [] type = "DOUBLE" -> ToFloat(x, "float64")
             [] type = "DECIMAL" -> Same("decimal")
             [] type \in {"VARCHAR", "TEXT"} -> Same("string")
             [] type = "BOOLEAN" -> Same("bool")
             [] type = "TIMESTAMP" -> Same("time")

\* A proper prefix is smaller; the first difference decides.
LexBelow(a, b) ==
  \E i \in 1..Len(b) :
    /\ \A j \in 1..(i - 1) : j <= Len(a) /\ a[j] = b[j]
    /\ i > Len(a) \/ a[i] < b[i]

\* compareValues: <<-1>>, <<0>>, <<1>> or an error
CompareValues(a, b) ==
  LET Order(less, more) == Value("int", IF less THEN <<-1>> ELSE IF more THEN <<1>> ELSE <<0>>)
  IN  IF IsNumber(a) /\ IsNumber(b) THEN Order(Below(a.v, b.v), Below(b.v, a.v))
      ELSE IF a.k = b.k /\ a.k \in {"string", "bool", "time"} THEN Order(LexBelow(a.v, b.v), LexBelow(b.v, a.v))
      ELSE Error("mismatch")
Sign(cmp) == cmp.v[1]

-----------------------------------------------------------------------------
(* Arithmetic *)

CoerceRatResult(q, type) ==
  CASE type = "INT" -> IF InRange(Whole(Trunc(q)), IntMax) THEN Value("int32", Whole(Trunc(q))) ELSE Error("overflow")
    [] type = "BIGINT" -> IF InRange(Whole(Trunc(q)), BigMax) THEN Value("int64", Whole(Trunc(q))) ELSE Error("overflow")
    [] type = "FLOAT" -> Value("float32", q)
    [] type = "DOUBLE" -> Value("float64", q)
    [] OTHER -> Value("decimal", q)

CoerceResultByKind(q, type) ==
  CASE type = "INT" -> IF InRange(q, IntMax) THEN Value("int32", Whole(Trunc(q))) ELSE Error("overflow")
    [] type = "BIGINT" -> IF BelowWidth(q, BigMax) THEN Value("int64", Whole(Trunc(q))) ELSE Error("overflow")
    [] type = "FLOAT" -> Value("float32", q)
    [] OTHER -> Value("float64", q)

\* Mutant: the result of INT arithmetic is not checked against the width.
MutCoerceIntegerResult(q, type) ==
  IF type = "INT" THEN Value("int32", q) ELSE CoerceResultByKind(q, type)
CoerceIntegerResult(q, type) ==
  CASE type = "INT" -> IF InRange(q, IntMax) THEN Value("int32", q) ELSE Error("overflow")
    [] type = "BIGINT" -> Value("int64", q)
    [] type = "DECIMAL" -> Value("decimal", q)
    [] OTHER -> CoerceResultByKind(q, type)

\* computeBinaryArithmetic, computeIntegerArithmetic, computeDecimalArithmetic
Compute(op, p, q) ==
  CASE op = "+" -> Add(p, q)
    [] op = "-" -> Add(p, Neg(q))
    [] op = "*" -> Mul(p, q)
    [] op = "/" -> Quo(p, q)
    [] op = "%" -> Rem(p, q)

\* The result q of l op r in the type that the planner gave it.
CoerceResult(op, type, l, r, q) ==
  IF l.k = "decimal" \/ r.k = "decimal" \/ type = "DECIMAL" THEN CoerceRatResult(q, type)
  ELSE IF IsInteger(l) /\ IsInteger(r) /\ op # "/"
  THEN IF InRange(q, BigMax) THEN CoerceIntegerResult(q, type) ELSE Error("overflow")
  ELSE CoerceResultByKind(q, type)

\* evalBinaryExpr: an error of an operand is the result.
EvalArithmetic(op, type, l, r) ==
  IF Failed(l) THEN l
  ELSE IF Failed(r) THEN r
  ELSE IF l = Null \/ r = Null THEN Null
  ELSE IF ~IsNumber(l) \/ ~IsNumber(r) THEN Error("mismatch")
  ELSE IF op \in {"/", "%"} /\ r.v[1] = 0 THEN Error("zero")
  ELSE CoerceResult(op, type, l, r, Compute(op, l.v, r.v))

\* evalUnaryExpr: minus is a subtraction from 0 of the operand's own kind.
EvalUnary(op, type, x) ==
  IF Failed(x) \/ x = Null \/ op = "+" THEN x ELSE EvalArithmetic("-", type, [x EXCEPT !.v = Whole(0)], x)

-----------------------------------------------------------------------------
(* LIKE: the matcher with one backtracking point, and what it is to compute *)

Percent == 100  \* '%'
Underscore == 101  \* '_'

\* The loop of matchLike, from s[i], p[j]; the last '%' is at star (0: none) and
\* its match ends before s[m].
RECURSIVE LikeLoop(_, _, _, _, _, _)
LikeLoop(s, p, i, j, star, m) ==
  IF i > Len(s) THEN \A x \in j..Len(p) : p[x] = Percent
  ELSE IF j <= Len(p) /\ p[j] = Percent THEN LikeLoop(s, p, i, j + 1, j, i)
  ELSE IF j <= Len(p) /\ p[j] \in {Underscore, s[i]} THEN LikeLoop(s, p, i + 1, j + 1, star, m)
  ELSE IF star # 0 THEN LikeLoop(s, p, m + 1, star + 1, star, m + 1)
  ELSE FALSE

MatchLike(s, p) == LikeLoop(s, p, 1, 1, 0, 0)

\* Reference: '%' stands for any string.
RECURSIVE Matches(_, _)
Matches(s, p) ==
  IF p = <<>> THEN s = <<>>
  ELSE IF Head(p) = Percent THEN \E i \in 0..Len(s) : Matches(SubSeq(s, i + 1, Len(s)), Tail(p))
  ELSE s # <<>> /\ Head(p) \in {Underscore, Head(s)} /\ Matches(Tail(s), Tail(p))

-----------------------------------------------------------------------------
(* Resolving names and types.  A scope is the sequence of the FROM clause's  *)
(* tables: [binding, table, cols], a column [name, type].                    *)

\* An index is a position in the column's own table.
ResolveColumn(scope, q, name) ==
  LET hits == {p \in (1..Len(scope)) \X (1..Max({Len(scope[t].cols) : t \in 1..Len(scope)} \cup {0})) :
                 /\ p[2] <= Len(scope[p[1]].cols) /\ scope[p[1]].cols[p[2]].name = name
                 /\ q \in {"", scope[p[1]].binding}}
  IN  IF Cardinality(hits) # 1 THEN Refused
      ELSE LET p == CHOOSE h \in hits : TRUE
           IN  [e |-> "col", binding |-> scope[p[1]].binding, table |-> scope[p[1]].table,
                name |-> name, idx |-> p[2], type |-> scope[p[1]].cols[p[2]].type]

\* A literal's value is an int64 whatever its type.
IntLit(n) ==
  IF ~InRange(Whole(n), BigMax) THEN Refused
  ELSE Lit("int64", Whole(n), IF InRange(Whole(n), IntMax) THEN "INT" ELSE "BIGINT")
IsIntLit(x) == x.e = "lit" /\ x.val.k = "int64"

NumericOperand(x) == IsNullExpr(x) \/ IsNumericType(x.type)

RECURSIVE ExprHasAggregate(_), CondHasAggregate(_), ResolveExpr(_, _), ResolveCond(_, _)

\* The expressions and the conditions directly below a condition: walkCond
ExprsOf(c) ==
  CASE c.c \in {"cmp", "like"} -> <<c.l, c.r>>
    [] c.c \in {"isnull", "expr"} -> <<c.x>>
    [] c.c = "in" -> <<c.x>> \o c.list
    [] c.c = "between" -> <<c.x, c.lo, c.hi>>
    [] OTHER -> <<>>
CondsOf(c) ==
  CASE c.c \in {"and", "or"} -> <<c.l, c.r>>
    [] c.c = "not" -> <<c.x>>
    [] OTHER -> <<>>
OperandsOf(x) ==
  CASE x.e = "bin" -> <<x.l, x.r>>
    [] x.e = "un" -> <<x.x>>
    [] OTHER -> <<>>

ExprHasAggregate(x) ==
  \/ x.e = "fn"
  \/ \E y \in ToSet(OperandsOf(x)) : ExprHasAggregate(y)
  \/ x.e = "cond" /\ CondHasAggregate(x.cond)
CondHasAggregate(c) ==
  \/ \E x \in ToSet(ExprsOf(c)) : ExprHasAggregate(x)
  \/ \E d \in ToSet(CondsOf(c)) : CondHasAggregate(d)

\* An expression whose operands are resolved, with its type.
ResolveBinary(x, l, r) ==
  IF IsRefused(l) \/ IsRefused(r) \/ ~NumericOperand(l) \/ ~NumericOperand(r) THEN Refused
  ELSE [x EXCEPT !.l = l, !.r = r, !.type = ArithmeticResultType(l, r)]
ResolveUnary(x, y) ==
  IF x.op = "-" /\ IsIntLit(x.x) THEN IntLit(-x.x.val.v[1])
  ELSE IF IsRefused(y) \/ ~NumericOperand(y) THEN Refused
  ELSE [x EXCEPT !.x = y, !.type = IF IsNullExpr(y) THEN "INT" ELSE y.type]
ResolveFunctionCall(f, arg) ==
  LET type == IF IsNullExpr(arg) THEN IF f.name = "COUNT" THEN "BIGINT" ELSE "NULL"
              ELSE AggregateResultType(f.name, arg.type)
  IN  IF f.star THEN IF f.name = "COUNT" THEN [f EXCEPT !.type = "BIGINT"] ELSE Refused
      ELSE IF IsRefused(arg) \/ ExprHasAggregate(arg) \/ type = "REFUSED" THEN Refused
      ELSE [f EXCEPT !.x = arg, !.type = type]
ResolveCondExpr(x, c) == IF IsRefused(c) THEN Refused ELSE [x EXCEPT !.cond = c]

ResolveExpr(scope, x) ==
  CASE x.e = "name" -> ResolveColumn(scope, x.q, x.n)
    [] x.e = "bin" -> ResolveBinary(x, ResolveExpr(scope, x.l), ResolveExpr(scope, x.r))
    [] x.e = "un" -> ResolveUnary(x, ResolveExpr(scope, x.x))
    [] x.e = "fn" -> ResolveFunctionCall(x, ResolveExpr(scope, x.x))
    [] x.e = "cond" -> ResolveCondExpr(x, ResolveCond(scope, x.cond))
    [] OTHER -> x

Ordering == {"<", ">", "<=", ">="}

ComparisonAllowed(op, l, r) ==
  IF op \notin Ordering THEN ExprsCompatible(l, r)
  ELSE IF ~IsNullExpr(l) /\ ~IsNullExpr(r) THEN TypesOrderable(l.type, r.type)
  ELSE /\ ~IsNullExpr(l) => IsOrderableType(l.type)
       /\ ~IsNullExpr(r) => IsOrderableType(r.type)

StringOperand(x) == IsNullExpr(x) \/ IsStringType(x.type)
BoundAllowed(x, bound) == IsNullExpr(x) \/ IsNullExpr(bound) \/ TypesOrderable(x.type, bound.type)

CondAllowed(c) ==
  CASE c.c = "cmp" -> ComparisonAllowed(c.op, c.l, c.r)
    [] c.c = "like" -> StringOperand(c.l) /\ StringOperand(c.r)
    [] c.c = "in" -> \A y \in ToSet(c.list) : ExprsCompatible(c.x, y)
    [] c.c = "between" ->
         /\ IsNullExpr(c.x) \/ IsOrderableType(c.x.type)
         /\ BoundAllowed(c.x, c.lo) /\ BoundAllowed(c.x, c.hi)
    [] c.c = "expr" -> IsNullExpr(c.x) \/ c.x.type = "BOOLEAN"
    [] OTHER -> TRUE

\* The condition with its parts replaced by the resolved ones.
WithParts(c, exprs, conds) ==
  CASE c.c \in {"cmp", "like"} -> [c EXCEPT !.l = exprs[1], !.r = exprs[2]]
    [] c.c \in {"and", "or"} -> [c EXCEPT !.l = conds[1], !.r = conds[2]]
    [] c.c = "not" -> [c EXCEPT !.x = conds[1]]
    [] c.c \in {"isnull", "expr"} -> [c EXCEPT !.x = exprs[1]]
    [] c.c = "in" -> [c EXCEPT !.x = exprs[1], !.list = Tail(exprs)]
    [] c.c = "between" -> [c EXCEPT !.x = exprs[1], !.lo = exprs[2], !.hi = exprs[3]]

Checked(c) ==
  IF (\E p \in ToSet(ExprsOf(c) \o CondsOf(c)) : IsRefused(p)) \/ ~CondAllowed(c) THEN Refused ELSE c

ResolveCond(scope, c) ==
  Checked(WithParts(c, [i \in DOMAIN ExprsOf(c) |-> ResolveExpr(scope, ExprsOf(c)[i])],
                       [i \in DOMAIN CondsOf(c) |-> ResolveCond(scope, CondsOf(c)[i])]))

-----------------------------------------------------------------------------
(* Evaluation.  A condition is true, false or Null (UNKNOWN). *)

RECURSIVE EvalExpr(_, _), EvalCond(_, _)

EvalExpr(x, row) ==
  CASE x.e = "lit" -> x.val
    [] x.e = "col" -> IF x.idx \in DOMAIN row THEN row[x.idx] ELSE Error("range")
    [] x.e = "bin" -> EvalArithmetic(x.op, x.type, EvalExpr(x.l, row), EvalExpr(x.r, row))
    [] x.e = "un" -> EvalUnary(x.op, x.type, EvalExpr(x.x, row))
    [] x.e = "fn" -> Error("context")
    [] x.e = "cond" -> EvalCond(x.cond, row)

Holds(op, sign) ==
  CASE op = "=" -> sign = 0 [] op = "<>" -> sign # 0 [] op = "<" -> sign < 0
    [] op = ">" -> sign > 0 [] op = "<=" -> sign <= 0 [] op = ">=" -> sign >= 0

FirstError(vals) == LET i == Min({j \in DOMAIN vals : Failed(vals[j])}) IN vals[i]
AnyError(vals) == \E i \in DOMAIN vals : Failed(vals[i])
Negate(neg, b) == Bool(b # neg)

CompareOrNull(a, b) == IF a = Null \/ b = Null THEN Null ELSE CompareValues(a, b)

EvalComparison(op, cmp) == IF cmp = Null \/ Failed(cmp) THEN cmp ELSE Bool(Holds(op, Sign(cmp)))

\* IN stops at the first match; a NULL in the list leaves a miss unknown.
\* cmps: x compared with each member of the list, or the member's error
EvalIn(neg, x, cmps) ==
  LET hits == {i \in DOMAIN cmps : cmps[i] # Null /\ ~Failed(cmps[i]) /\ Sign(cmps[i]) = 0}
      seen == IF hits = {} THEN cmps ELSE SubSeq(cmps, 1, Min(hits))
  IN  IF x = Null \/ Failed(x) THEN x
      ELSE IF AnyError(seen) THEN FirstError(seen)
      ELSE IF hits = {} /\ Null \in ToSet(cmps) THEN Null
      ELSE Negate(neg, hits # {})
CompareMember(x, y) == IF Failed(y) THEN y ELSE CompareOrNull(x, y)

\* below, above: x compared with each bound, NULL when x or the bound is
EvalBetween(neg, below, above) ==
  IF below = Null \/ above = Null THEN Null
  ELSE IF AnyError(<<below, above>>) THEN FirstError(<<below, above>>)
  ELSE Negate(neg, Sign(below) >= 0 /\ Sign(above) <= 0)

EvalLike(neg, s, p) ==
  IF s = Null \/ p = Null THEN Null
  ELSE IF s.k # "string" \/ p.k # "string" THEN Error("mismatch")
  ELSE Negate(neg, MatchLike(s.v, p.v))

False == Bool(FALSE)
True == Bool(TRUE)
Not(a) == IF a = Null THEN Null ELSE Bool(a = False)

\* Mutant: UNKNOWN on either side decides.
MutEvalLogic(op, a, b) ==
  IF a = Null \/ b = Null THEN Null
  ELSE IF op = "and" THEN Bool(a = True /\ b = True) ELSE Bool(a = True \/ b = True)
EvalLogic(op, a, b) ==
  LET decides == IF op = "and" THEN False ELSE True
  IN  IF a = decides \/ b = decides THEN decides
      ELSE IF a = Null \/ b = Null THEN Null ELSE Not(decides)

\* A condition whose operands have been evaluated.  Both sides of AND and OR are:
\* an error on either is the result.
EvalCondOn(c, vals, conds) ==
  IF c.c # "in" /\ AnyError(vals \o conds) THEN FirstError(vals \o conds)
  ELSE CASE c.c = "cmp" -> EvalComparison(c.op, CompareOrNull(vals[1], vals[2]))
         [] c.c \in {"and", "or"} -> EvalLogic(c.c, conds[1], conds[2])
         [] c.c = "not" -> Not(conds[1])
         [] c.c = "like" -> EvalLike(c.neg, vals[1], vals[2])
         [] c.c = "isnull" -> Negate(c.neg, vals[1] = Null)
         [] c.c = "in" -> EvalIn(c.neg, vals[1], [i \in DOMAIN Tail(vals) |-> CompareMember(vals[1], vals[i + 1])])
         [] c.c = "between" -> EvalBetween(c.neg, CompareOrNull(vals[1], vals[2]), CompareOrNull(vals[1], vals[3]))
         [] c.c = "expr" -> IF vals[1] = Null \/ vals[1].k = "bool" THEN vals[1] ELSE Error("mismatch")

EvalCond(c, row) ==
  EvalCondOn(c, [i \in DOMAIN ExprsOf(c) |-> EvalExpr(ExprsOf(c)[i], row)],
                [i \in DOMAIN CondsOf(c) |-> EvalCond(CondsOf(c)[i], row)])

\* WHERE, HAVING and ON keep the rows for which the condition is true.
Keeps(result) == result = True
=============================================================================
