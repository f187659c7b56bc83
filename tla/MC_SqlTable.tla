------------------------------ MODULE MC_SqlTable ------------------------------
(* Instances of SqlTable for TLC: four schemas, two that are refused, and the *)
(* statements that are tried on each of them.                                 *)
EXTENDS SqlTable

MCDb == <<1>>
MCTable == <<2, 3>>
\* Names that run into those of the table, and its catalog entries
MCOthers ==
  {EncodeRowKey(<<1>>, <<2>>, <<3, 9>>), EncodeRowKey(<<1>>, <<2, 3, 3>>, <<9>>), EncodeRowKey(<<1, 2>>, <<3>>, <<9>>),
   EncodeCatalogKey(<<7, 0>>, <<MCDb, MCTable>>), EncodeCatalogKey(<<8, 0>>, <<MCDb, MCTable>>)}

Big(n) == Value("int64", Whole(n))
Flt(n, d) == Value("float64", <<n, d>>)
Str(s) == Value("string", s)
Col(name, type) ==
  [name |-> name, type |-> type, len |-> 2, pk |-> FALSE, unique |-> FALSE, notNull |-> FALSE, default |-> Null]
Key(name, type) == [Col(name, type) EXCEPT !.pk = TRUE]
Defaulted(name, type, v) == [Col(name, type) EXCEPT !.default = v]

MCDefs ==
  {<<Key("k", "INT"), Defaulted("a", "INT", Big(2)), [Defaulted("b", "VARCHAR", Str(<<1>>)) EXCEPT !.notNull = TRUE]>>,
   <<Defaulted("a", "BIGINT", Flt(1, 2)), Key("b", "VARCHAR"), Key("k", "FLOAT")>>,
   <<[Key("k", "DECIMAL") EXCEPT !.default = Flt(-3, 2)], Col("a", "BOOLEAN"), Key("b", "TEXT")>>,
   <<Col("id", "BIGINT"), Col("a", "INT"), Col("b", "TEXT")>>,
   <<Col("a", "INT"), Col("a", "INT")>>,
   <<Defaulted("a", "INT", Str(<<1>>))>>}

Name(n) == [e |-> "name", q |-> "", n |-> n]
Word(s) == Lit("string", s, "VARCHAR")
Plus(l, r) == [e |-> "bin", op |-> "+", l |-> l, r |-> r, type |-> "?"]
Half2 == Lit("float64", <<1, 2>>, "DOUBLE")
Truth == [e |-> "lit", val |-> True, type |-> "BOOLEAN"]

Ints == {IntLit(-3), IntLit(0), IntLit(1), IntLit(7)}
MCInserts ==
  {[cols |-> <<"k", "b">>, rows |-> <<(<<k, b>>)>>] : k \in Ints \cup {Half2}, b \in {Word(<<1>>), Word(<<1, 2>>), Word(<<>>)}}
  \cup {[cols |-> <<"b", "a">>, rows |-> <<(<<b, a>>)>>] :
          b \in {Word(<<1>>), Word(<<0>>), Word(<<1, 1, 1>>), NullExpr}, a \in {IntLit(1), Truth, NullExpr}}
  \cup {[cols |-> <<>>, rows |-> <<(<<IntLit(1), IntLit(1), Word(<<1>>)>>), <<k, IntLit(3), Word(<<2>>)>>>>] :
          k \in {IntLit(1), IntLit(2)}}
  \cup {[cols |-> <<"k", "b">>, items |-> <<Plus(Name("k"), IntLit(1)), Name("b")>>],
        [cols |-> <<"a", "a">>, rows |-> <<(<<IntLit(1), IntLit(1)>>)>>]}

Cmp(op, l, r) == [c |-> "cmp", op |-> op, l |-> l, r |-> r]
Wheres == {None, Cmp("=", Name("k"), IntLit(1)), Cmp("<", Name("b"), Word(<<1, 1>>)), Cmp("=", Name("a"), Truth)}
Set(n, x) == [name |-> n, x |-> x]
MCUpdates ==
  {[set |-> s, where |-> w] : w \in Wheres,
     s \in {<<Set("k", Plus(Name("k"), IntLit(1)))>>, <<Set("k", IntLit(1))>>, <<Set("a", NullExpr), Set("b", Word(<<2>>))>>,
            <<Set("k", Name("a")), Set("a", Name("k"))>>, <<Set("b", NullExpr)>>, <<Set("c", IntLit(4))>>}}
MCDeletes == Wheres

Alter(kind, name, to, def) == [kind |-> kind, name |-> name, to |-> to, def |-> def]
MCAlters ==
  {Alter("add", "", "", d) : d \in {Defaulted("c", "INT", Big(5)), [Col("c", "TEXT") EXCEPT !.notNull = TRUE], Col("a", "INT")}}
  \cup {Alter("drop", n, "", Col(n, "INT")) : n \in {"a", "k"}}
  \cup {Alter("rename", n, "c", Col(n, "INT")) : n \in {"a", "b", "k"}}
  \cup {Alter("modify", "a", "", [Defaulted("a", "INT", Big(9)) EXCEPT !.notNull = TRUE])}
=============================================================================
