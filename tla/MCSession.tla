------------------------------ MODULE MCSession ------------------------------
(* Instances of Session for TLC: three tables and the statements on them.   *)
EXTENDS Answers

I(n) == <<"int", n>>
S(n) == <<"str", n>>

MCCatalog ==
  "t" :> <<[name |-> "k", type |-> "int"], [name |-> "s", type |-> "str"]>>
  @@ "u" :> <<[name |-> "k", type |-> "int"], [name |-> "n", type |-> "int"]>>
  @@ "w" :> <<[name |-> "n", type |-> "int"]>>

\* The second page of t holds one row; a value comes twice in each table.
MCTables ==
  "t" :> <<<<I(2), S(1)>>, <<I(1), S(2)>>, <<I(2), S(2)>>>>
  @@ "u" :> <<<<I(2), I(1)>>, <<I(1), I(1)>>>>
  @@ "w" :> <<<<I(1)>>, <<I(2)>>, <<I(1)>>>>

MCDatabase == {[catalog |-> MCCatalog, files |-> MCTables]}

\* With the file of a table no session has declared, and with no schema.
MCFiles == "t" :> <<<<I(12), S(5)>>, <<I(1), S(4)>>>> @@ "u" :> MCTables["u"]
           @@ "w" :> MCTables["w"] @@ "x" :> <<<<I(1), I(7)>>>>

MCDatabases ==
  {[catalog |-> MCCatalog, files |-> MCFiles],
   [catalog |-> NoTables, files |-> MCFiles]}

\* Wide enough for one column in its shortest, and for two to be wrapped.
MCTerminals == {Null, 5, 14}
NoTerminal == {Null}

MCWord == <<"a", "b", "c", "d", "e", "f">>
MCSpelled ==
  "t" :> <<"t">> @@ "u" :> <<"u">> @@ "w" :> <<"w">>
  @@ "x" :> <<"p", "r", "o", "d", "u", "c", "t", "s">>
  @@ "k" :> <<"k">> @@ "s" :> <<"s">> @@ "n" :> <<"n">>
  @@ "inserted_tuples" :> <<"i", "n", "s", "_", "t">>
  @@ "max" :> <<"m">> @@ "sum" :> <<"s">> @@ "count" :> <<"c">>
  @@ "avg" :> <<"a">> @@ "min" :> <<"m">>

MCChar ==
  Symbols \cup ToSet(MCWord) \cup UNION {ToSet(MCSpelled[n]) : n \in DOMAIN MCSpelled}

Ref(a, c) == [table |-> a, name |-> c]
Col(a, c) == [kind |-> "col", ref |-> Ref(a, c)]
Lit(v) == [kind |-> "lit", value |-> v]
Fun(f, a, c) == [kind |-> "fun", fun |-> f, ref |-> Ref(a, c)]
Star == [kind |-> "star"]
Sub(q) == [kind |-> "sub", query |-> q]
Cond(l, op, r) == [l |-> l, op |-> op, r |-> r]
Named1(t) == [table |-> t, alias |-> t]
By(a, c, asc) == [ref |-> Ref(a, c), asc |-> asc]

Query(from, where, group, select, order, limit) ==
  [from |-> from, where |-> where, group |-> group, select |-> select,
   order |-> order, limit |-> limit]

Select(q) == [kind |-> "select", query |-> q]

AllOps == {"=", "!=", ">", ">=", "<", "<=", "LIKE"}

\* One table: every operator, both ways round, with ORDER BY and LIMIT.
Filters ==
  {<<Cond(Col("", "k"), op, Lit(I(1)))>> : op \in AllOps}
  \cup {<<Cond(Lit(I(1)), op, Col("t", "k"))>> : op \in AllOps}
  \cup {<<Cond(Col("", "s"), op, Lit(S(2)))>> : op \in {"LIKE", "<"}}
  \cup {<<>>, <<Cond(Col("t", "k"), "=", Col("", "k"))>>,
        <<Cond(Col("", "k"), "=", Lit(S(1)))>>,
        <<Cond(Col("", "k"), "=", Col("", "s"))>>,
        <<Cond(Lit(I(1)), "=", Lit(I(1)))>>,
        <<Cond(Col("", "k"), ">", Lit(I(1))),
          Cond(Col("", "s"), "=", Lit(S(2)))>>}

OneTable ==
  {Query(<<Named1("t")>>, f, <<>>, s, o, l) :
     f \in Filters, s \in {<<Star>>, <<Col("", "s"), Col("t", "k")>>},
     o \in {Null, By("", "k", TRUE), By("t", "k", FALSE), By("", "s", FALSE)},
     l \in {-1, 0, 1, 2}}

\* Joins of two or three tables: conditions in every order, up to three.
Conditions ==
  {Cond(Col("t", "k"), "=", Col("u", "k")),
   Cond(Col("w", "n"), "=", Col("u", "n")),
   Cond(Col("t", "k"), "<=", Col("w", "n")),
   Cond(Col("u", "k"), ">", Col("t", "k")),
   Cond(Col("u", "k"), "!=", Col("u", "n")),
   Cond(Col("", "n"), "=", Col("t", "k"))}

Wheres == {<<>>} \cup {<<c>> : c \in Conditions}
          \cup {<<c, d>> : c, d \in Conditions}
          \cup {<<c, d, e>> : c, d, e \in Conditions}

Froms == {<<Named1("t"), Named1("u")>>,
          <<Named1("u"), Named1("w"), Named1("t")>>,
          <<Named1("t"), [table |-> "u", alias |-> "t"]>>,
          <<[table |-> "w", alias |-> "u"]>>,
          <<Named1("missing")>>, <<>>}

Joins ==
  {Query(f, w, <<>>, s, Null, -1) :
     f \in Froms, w \in Wheres, s \in {<<Star>>, <<Col("", "s")>>}}

\* Aggregates, with and without groups.
Selects ==
  {<<Col("t", "k"), Fun("max", "", "s")>>, <<Fun("count", "", "s")>>,
   <<Fun("sum", "", "k"), Col("", "s"), Fun("min", "", "k")>>,
   <<Fun("avg", "", "k"), Fun("min", "", "s")>>, <<Fun("avg", "", "s")>>,
   <<Fun("median", "", "k")>>, <<Col("", "s"), Col("", "k")>>,
   <<[kind |-> "fun", fun |-> "count", ref |-> StarRef]>>}

Groupings == {<<>>, <<Ref("", "k")>>, <<Ref("t", "s")>>,
              <<Ref("", "s"), Ref("", "k")>>, <<Ref("u", "k")>>}

Aggregates ==
  {Query(<<Named1("t")>>, f, g, s, o, l) :
     f \in {<<>>, <<Cond(Col("", "k"), ">", Lit(I(1)))>>,
            <<Cond(Col("", "k"), ">", Lit(I(2)))>>},
     g \in Groupings, s \in Selects, o \in {Null, By("", "s", TRUE)},
     l \in {-1, 1}}

\* Conditions on a subquery, itself with a filter, aggregates or a subquery.
Inner ==
  {Query(<<Named1("u")>>, w, g, s, o, l) :
     w \in {<<>>, <<Cond(Col("", "k"), ">", Lit(I(1)))>>,
            <<Cond(Col("", "n"), ">", Lit(I(1)))>>,
            <<Cond(Col("", "k"), "=", Sub(Query(<<Named1("w")>>, <<>>, <<>>,
                                      <<Fun("max", "", "n")>>, Null, -1)))>>},
     g \in {<<>>, <<Ref("", "k")>>},
     s \in {<<Col("", "n")>>, <<Fun("max", "", "n")>>,
            <<Fun("count", "", "k")>>},
     o \in {Null, By("", "k", FALSE)}, l \in {-1, 1}}

WithSubquery ==
  {Query(<<Named1("t")>>, <<Cond(Col("", "k"), op, Sub(i))>> \o f, <<>>,
         <<Col("", "s"), Col("t", "k")>>, o, -1) :
     op \in {"=", ">="}, i \in Inner,
     f \in {<<>>, <<Cond(Col("", "k"), "=", Lit(I(2)))>>},
     o \in {Null, By("", "k", FALSE)}}
  \cup {Query(<<Named1("t"), Named1("w")>>,
              <<Cond(Col("t", "k"), "=", Col("w", "n")),
                Cond(Col("w", "n"), ">=", Sub(i))>>, <<>>,
              <<Col("w", "n"), Col("t", "s")>>, Null, -1) : i \in Inner}
  \cup {Query(<<Named1("t")>>,
              <<Cond(Col("", c), "=",
                     Sub(Query(<<[table |-> "t", alias |-> "v"]>>, <<>>, <<>>,
                               <<Fun("max", "", "s")>>, Null, -1)))>>,
              <<>>, <<Col("t", "s")>>, Null, -1) : c \in {"k", "s"}}
  \cup {Query(<<Named1("t")>>,
              <<Cond(Col("", "k"), "=",
                     Sub(Query(<<[table |-> "t", alias |-> "v"]>>, <<>>,
                               <<Ref("", "k")>>, <<Col("", "k"), f>>,
                               Null, -1)))>>,
              <<>>, <<Star>>, Null, -1) :
          f \in {Fun("max", "", "s"), Fun("max", "", "k")}}

QueryStatements ==
  {Select(q) : q \in OneTable \cup Joins \cup Aggregates \cup WithSubquery}

\* INSERT, into the table read too, CREATE TABLE, and the rows they leave.
InsertStatements ==
  {[kind |-> "insert", table |-> t, query |-> q] : t \in {"u", "x"},
     q \in {Query(<<Named1("u")>>, <<>>, <<>>, <<Star>>, Null, -1),
            Query(<<Named1("u")>>, <<Cond(Col("", "k"), ">", Lit(I(1)))>>,
                  <<>>, <<Col("", "n"), Col("", "k")>>, Null, -1),
            Query(<<Named1("t")>>, <<>>, <<Ref("", "s")>>,
                  <<Fun("sum", "", "k"), Fun("count", "", "k")>>, Null, -1),
            Query(<<Named1("u")>>, <<Cond(Col("", "k"), ">", Lit(I(9)))>>,
                  <<>>, <<Fun("max", "", "k"), Col("", "n")>>, Null, -1),
            Query(<<Named1("u"), Named1("w")>>, <<>>, <<>>, <<Star>>, Null, -1)}}
  \cup {[kind |-> "values", table |-> t, values |-> v] :
          t \in {"u", "x"}, v \in {<<I(3), I(1)>>, <<I(3), S(1)>>, <<I(3)>>}}
  \cup {[kind |-> "values", table |-> "t", values |-> <<I(3), S(0)>>]}
  \cup {[kind |-> "show_tables"]}
  \cup {[kind |-> "show_columns", table |-> t] : t \in {"t", "x"}}
  \cup {[kind |-> "create", table |-> "x", cols |-> MCCatalog["u"]]}
  \cup {Select(Query(<<Named1(t)>>, <<>>, <<>>, <<Star>>,
                     By("", "k", TRUE), -1)) : t \in {"t", "u", "x"}}

GroupedStatements ==
  {Select(Query(<<Named1("t"), Named1("u")>>,
                <<Cond(Col("t", "k"), "=", Col("u", "k"))>>,
                <<Ref("t", "s")>>, <<Col("t", "s"), Fun("max", "u", "n")>>,
                By("t", "s", asc), -1)) : asc \in BOOLEAN}

SubqueryStatements ==
  {Select(Query(<<Named1("t")>>,
                <<Cond(Col("", "k"), "=",
                       Sub(Query(<<Named1("u")>>,
                                 <<Cond(Col("", "n"), ">", Lit(I(n)))>>,
                                 <<>>, <<Fun("max", "", "k")>>, Null, -1)))>>,
                <<>>, <<Col("", "s")>>, Null, -1)) : n \in 0 .. 1}
=============================================================================
