------------------------------ MODULE MC_SqlQuery ------------------------------
(* Instances of SqlQuery for TLC: two tables, small contents, and classes of  *)
(* queries, the ones that the planner refuses included.                        *)
EXTENDS SqlMeaning

CONSTANTS Classes  \* the classes of queries that a run asks

MCSchemas ==
  [t |-> <<[name |-> "a", type |-> "INT"], [name |-> "b", type |-> "VARCHAR"]>>,
   u |-> <<[name |-> "c", type |-> "BIGINT"], [name |-> "d", type |-> "DECIMAL"], [name |-> "e", type |-> "BOOLEAN"]>>]

I32(n) == Value("int32", Whole(n))
Big(n) == Value("int64", Whole(n))
Str(s) == Value("string", s)

FewRows == {<<I32(1), Str(<<1>>)>>, <<I32(3), Null>>, <<Null, Str(<<1>>)>>}
ManyRows ==
  <<(<<I32(1), Str(<<1, 2>>)>>), <<I32(-4), Str(<<1>>)>>, <<Null, Null>>, <<I32(1), Str(<<1, 2>>)>>,
    <<I32(3), Str(<<2, 1, 2>>)>>, <<I32(2), Str(<<1, 1, 2>>)>>, <<I32(0), Str(<<>>)>>>>
TRows == UNION {[1..n -> FewRows] : n \in 0..2} \cup {ManyRows}
Dec(q) == Value("decimal", q)
\* 1.5 beside 1.50 in the last one
URows == {<<>>,
          <<(<<Big(63), Dec(<<1, 2>>), True>>), <<Big(1), Dec(<<3, 2>>), False>>, <<Null, Null, Null>>, <<Big(2), Dec(<<1, 2>>), True>>>>,
          <<(<<Big(1), Dec(<<3, 2>>), True>>), <<Big(2), Dec(<<3, 2, 1>>), True>>, <<Big(3), Dec(<<1, 2>>), Null>>>>}
MCContents == {[t |-> r, u |-> s] : r \in TRows, s \in URows}

Name(n) == [e |-> "name", q |-> "", n |-> n]
Dotted(q, n) == [e |-> "name", q |-> q, n |-> n]
Half == Lit("float64", <<1, 2>>, "DOUBLE")
Word(s) == Lit("string", s, "VARCHAR")
Bin(op, l, r) == [e |-> "bin", op |-> op, l |-> l, r |-> r, type |-> "?"]
Minus(x) == [e |-> "un", op |-> "-", x |-> x, type |-> "?"]
Fn(f, x, distinct) == [e |-> "fn", name |-> f, x |-> x, star |-> FALSE, distinct |-> distinct, type |-> "?"]
CountStar == [e |-> "fn", name |-> "COUNT", x |-> NullExpr, star |-> TRUE, distinct |-> FALSE, type |-> "?"]
CondExpr(c) == [e |-> "cond", cond |-> c, type |-> "BOOLEAN"]

Cmp(op, l, r) == [c |-> "cmp", op |-> op, l |-> l, r |-> r]
Both(op, l, r) == [c |-> op, l |-> l, r |-> r]
Negation(x) == [c |-> "not", x |-> x]

Item(x) == [star |-> FALSE, q |-> "", x |-> x, alias |-> ""]
Named(x, alias) == [star |-> FALSE, q |-> "", x |-> x, alias |-> alias]
Star == [star |-> TRUE, q |-> "", x |-> NullExpr, alias |-> ""]
StarOf(q) == [star |-> TRUE, q |-> q, x |-> NullExpr, alias |-> ""]
From(t) == [table |-> t, binding |-> t, join |-> "FROM", on |-> None]
Joined(t, binding, join, on) == [table |-> t, binding |-> binding, join |-> join, on |-> on]
Asc(x) == [x |-> x, desc |-> FALSE]
Desc(x) == [x |-> x, desc |-> TRUE]
Select(items, from) ==
  [items |-> items, from |-> from, where |-> None, group |-> <<>>, having |-> None, order |-> <<>>,
   distinct |-> FALSE, limit |-> None]

Numbers == {Name("a"), IntLit(1), IntLit(5), NullExpr, Half}
Operands == Numbers \cup {Name("b"), Word(<<1>>)}
Leaves ==
  {Cmp(op, l, r) : op \in {"=", "<", ">="}, l \in Operands, r \in Operands}
  \cup {[c |-> "isnull", x |-> Name("b"), neg |-> n] : n \in BOOLEAN}
  \cup {[c |-> "in", x |-> x, list |-> l, neg |-> n] :
          x \in {Name("a"), NullExpr}, n \in BOOLEAN,
          l \in {<<IntLit(1), NullExpr>>, <<NullExpr, IntLit(3)>>, <<IntLit(1), Word(<<1>>)>>,
                 <<Name("a"), Bin("/", IntLit(1), IntLit(0))>>}}
  \cup {[c |-> "between", x |-> x, lo |-> lo, hi |-> hi, neg |-> n] :
          x \in {Name("a"), Name("b"), NullExpr}, lo \in {IntLit(1), Name("a"), Word(<<>>)}, hi \in {IntLit(2), NullExpr, Word(<<1>>)},
          n \in BOOLEAN}
  \cup {[c |-> "expr", x |-> x] : x \in {Name("a"), NullExpr, CondExpr(Cmp("=", Name("a"), IntLit(1)))}}
FewLeaves ==
  {Cmp("=", Name("a"), IntLit(1)), Cmp(">", Name("a"), IntLit(2)), Cmp("=", Name("b"), Word(<<1>>)),
   Cmp("<", NullExpr, Name("a")), [c |-> "isnull", x |-> Name("a"), neg |-> FALSE]}
Nested ==
  {Both(op, l, r) : op \in {"and", "or"}, l \in FewLeaves, r \in FewLeaves}
  \cup {Negation(Both(op, l, r)) : op \in {"and", "or"}, l \in FewLeaves, r \in FewLeaves}
Patterns == {p \in UNION {[1..n -> {1, 2, Percent, Underscore}] : n \in 0..3} : TRUE}

Where(c) == [Select(<<Item(Name("a"))>>, <<From("t")>>) EXCEPT !.where = c]

Arith ==
  {Bin(op, l, r) : op \in {"+", "-", "*", "/", "%"}, l \in Numbers, r \in Numbers \cup {Name("b")}}
  \cup {Minus(x) : x \in {Name("a"), IntLit(4), Half, NullExpr, Minus(IntLit(8))}}

Aggs == {CountStar} \cup {Fn(f, x, d) : f \in {"COUNT", "SUM", "AVG", "MIN", "MAX"}, x \in {Name("a"), Name("b")}, d \in BOOLEAN}
        \cup {Bin("+", Fn("SUM", Name("a"), FALSE), Name("a")), Minus(Fn("MAX", Name("a"), FALSE)),
              Bin("+", CountStar, IntLit(1)), Fn("SUM", CountStar, FALSE), CondExpr(Cmp(">", CountStar, IntLit(1)))}
GroupCol == [q |-> "", n |-> "a"]
Grouped(items, having) ==
  [Select(items, <<From("t")>>) EXCEPT !.group = <<GroupCol>>, !.having = having]

Cut(q, count, offset) == [q EXCEPT !.limit = [count |-> count, offset |-> offset]]
Ordered ==
  {[Select(items, <<From("t")>>) EXCEPT !.order = order, !.distinct = d] :
     items \in {<<Star>>, <<Item(Name("a"))>>, <<Named(Name("b"), "a"), Item(Name("a"))>>, <<StarOf("t")>>},
     order \in {<<Asc(Name("a"))>>, <<Desc(Name("a"))>>, <<Desc(Name("b")), Asc(Name("a"))>>, <<Asc(IntLit(1))>>,
                <<Asc(IntLit(3))>>, <<Asc(Name("b")), Desc(Bin("+", Name("a"), IntLit(1)))>>},
     d \in BOOLEAN}

JoinedQueries ==
  {[Select(items, <<From("t"), Joined(tb[1], tb[2], j[1], j[2])>>) EXCEPT !.where = w] :
     items \in {<<Star>>, <<Item(Dotted("t", "a"))>>, <<Item(Name("c"))>>, <<StarOf("u")>>, <<StarOf("x")>>, <<Item(CountStar)>>},
     tb \in {<<"u", "u">>, <<"u", "t">>, <<"t", "x">>},
     j \in {<<"CROSS", None>>, <<"LEFT", None>>, <<"INNER", Cmp("=", Dotted("t", "a"), Dotted("u", "c"))>>,
            <<"INNER", Cmp(">", Dotted("t", "a"), IntLit(0))>>, <<"INNER", Cmp(">", CountStar, IntLit(0))>>},
     w \in {None, Cmp("=", Name("e"), Name("e")), Cmp("=", Dotted("t", "b"), Word(<<1>>))}}

QueriesOf ==
  [where |-> {Where(c) : c \in Leaves \cup Nested},
   like |-> {Where([c |-> "like", l |-> Name("b"), r |-> Word(p), neg |-> n]) : p \in Patterns, n \in BOOLEAN},
   arith |-> {Select(<<Item(x)>>, from) : x \in Arith, from \in {<<>>, <<From("t")>>}}
             \cup {Select(<<Item(Bin("*", Name("c"), Name("c"))), Item(Bin("+", Name("c"), Name("d"))), Item(Minus(Name("d")))>>, <<From("u")>>)},
   group |-> {Grouped(<<Item(x)>> \o more, having) :
                x \in Aggs \cup {Name("a"), Name("b")}, more \in {<<>>, <<Item(Name("a"))>>},
                having \in {None, Cmp(">", Name("a"), IntLit(1)), Cmp(">", CountStar, IntLit(1))}}
             \cup {Select(<<Item(x)>>, <<From("t")>>) : x \in Aggs}
             \cup {Select(<<Item(Fn(f, Name(n), d)), Item(Fn(g, Name("c"), FALSE))>>, <<From("u")>>) :
                     f \in {"SUM", "AVG", "MIN"}, n \in {"c", "d", "e"}, d \in BOOLEAN, g \in {"SUM", "COUNT"}}
             \cup {[Grouped(<<Item(Name("a")), Item(CountStar)>>, None) EXCEPT !.order = o] :
                     o \in {<<Asc(Name("a"))>>, <<Desc(IntLit(1))>>, <<Asc(IntLit(2))>>, <<Asc(Name("b"))>>}}
             \cup {[Select(<<Item(Name("d")), Item(x)>>, <<From("u")>>) EXCEPT !.group = <<[q |-> "", n |-> "d"]>>] :
                     x \in {CountStar, Fn("SUM", Name("c"), TRUE)}}
             \cup {Select(<<Item(Fn("COUNT", x, TRUE))>>, <<From("u")>>) : x \in {Name("d"), Minus(Name("d"))}}
             \cup {[Select(<<Item(x)>>, <<From("u")>>) EXCEPT !.distinct = TRUE] :
                     x \in {Name("d"), Minus(Name("d")), CondExpr(Cmp("=", Name("d"), Half))}}
             \cup {[Where(Cmp(">", CountStar, IntLit(1))) EXCEPT !.having = h] : h \in {None, Cmp("=", Name("a"), Name("a"))}},
   order |-> Ordered \cup {Cut(q, n, o) : q \in Ordered, n \in 0..2, o \in {0, 1, 5}},
   join |-> JoinedQueries]

MCQueries == UNION {QueriesOf[c] : c \in Classes}
=============================================================================
