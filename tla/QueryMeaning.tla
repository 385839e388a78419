---------------------------- MODULE QueryMeaning ----------------------------
(***************************************************************************)
(* What a query means, said without operators or plans: the rows of the    *)
(* tables in FROM that satisfy WHERE together, grouped and projected.  A   *)
(* condition on a subquery joins the subquery's rows on their first column *)
(* (as parser.cc:175-177 has it).  The statements are LogicalPlan's.       *)
(***************************************************************************)
EXTENDS Operators, FiniteSets, FiniteSetsExt

\* The tables of FROM (their places in it) a reference may belong to.
Owners(q, catalog, ref) ==
  {i \in DOMAIN q.from :
     /\ ref.table \in {"", q.from[i].alias}
     /\ \E c \in ToSet(catalog[q.from[i].table]) : c.name = ref.name}

Owner(q, catalog, ref) == CHOOSE i \in Owners(q, catalog, ref) : TRUE

Position(q, catalog, ref) ==
  LET cols == catalog[q.from[Owner(q, catalog, ref)].table] IN
  CHOOSE k \in DOMAIN cols : cols[k].name = ref.name

TypeOfRef(q, catalog, ref) ==
  catalog[q.from[Owner(q, catalog, ref)].table][Position(q, catalog, ref)].type

TypeOfExpr(q, catalog, e) ==
  IF e.kind = "lit" THEN TypeOf(e.value) ELSE TypeOfRef(q, catalog, e.ref)

OnSubquery(e) == e.r.kind = "sub"
Subqueries(q) == {i \in DOMAIN q.where : OnSubquery(q.where[i])}
Aggregated(q) == \E i \in DOMAIN q.select : q.select[i].kind = "fun"

-----------------------------------------------------------------------------
(* The rows.                                                               *)

\* A match takes a row of each table, and of each subquery's answer.
Cell(q, catalog, tables, m, ref) ==
  LET i == Owner(q, catalog, ref) IN
  tables[q.from[i].table][m.row[i]][Position(q, catalog, ref)]

CellOfExpr(q, catalog, tables, m, e) ==
  IF e.kind = "lit" THEN e.value ELSE Cell(q, catalog, tables, m, e.ref)

RECURSIVE Meaning(_, _, _)

Matches(q, catalog, tables) ==
  LET answers == [i \in Subqueries(q) |->
                    Meaning(q.where[i].r.query, catalog, tables)]
      sizes == {Len(tables[q.from[i].table]) : i \in DOMAIN q.from}
                 \cup {Len(answers[i]) : i \in Subqueries(q)}
      Left(m, e) == CellOfExpr(q, catalog, tables, m, e.l)
      Right(m, i) == IF OnSubquery(q.where[i]) THEN answers[i][m.sub[i]][1]
                     ELSE CellOfExpr(q, catalog, tables, m, q.where[i].r)
  IN {m \in [row : [DOMAIN q.from -> 1 .. Max(sizes)],
             sub : [Subqueries(q) -> 1 .. Max(sizes)]] :
        /\ \A i \in DOMAIN q.from : m.row[i] <= Len(tables[q.from[i].table])
        /\ \A i \in Subqueries(q) : m.sub[i] <= Len(answers[i])
        /\ \A i \in DOMAIN q.where :
             Compare(Left(m, q.where[i]), q.where[i].op, Right(m, i))}

\* The columns a query yields: [table, name], a function's with its name.
Columns(q, catalog) ==
  LET Star == FlattenSeq([i \in DOMAIN q.from |->
                LET cols == catalog[q.from[i].table] IN
                [k \in DOMAIN cols |-> <<q.from[i].alias, cols[k].name>>]])
      Item(s) ==
        CASE s.kind = "star" -> Star
          [] s.kind = "col" ->
               <<<<q.from[Owner(q, catalog, s.ref)].alias, s.ref.name>>>>
          [] s.kind = "fun" -> <<<<"__aggregate__", <<s.fun, s.ref.name>>>>>>
  IN FlattenSeq([i \in DOMAIN q.select |-> Item(q.select[i])])

\* The row of a match, when nothing is aggregated.
RowOf(q, catalog, tables, m) ==
  LET Star == FlattenSeq([i \in DOMAIN q.from |->
                            tables[q.from[i].table][m.row[i]]])
      Item(s) == IF s.kind = "star" THEN Star
                 ELSE <<Cell(q, catalog, tables, m, s.ref)>>
  IN FlattenSeq([i \in DOMAIN q.select |-> Item(q.select[i])])

\* The row of a set of matches, a group.
GroupRow(q, catalog, tables, group) ==
  LET V(s, m) == Cell(q, catalog, tables, m, s.ref)
      Total(s) == MapThenSumSet(LAMBDA m : V(s, m)[2], group)
      Item(s) ==
        CASE s.kind = "col" -> V(s, CHOOSE m \in group : TRUE)
          [] s.kind = "fun" ->
             CASE s.fun = "count" -> <<"int", Cardinality(group)>>
               [] s.fun = "sum" -> <<"int", Total(s)>>
               [] s.fun = "avg" ->
                    <<"int", Quotient(Total(s), Cardinality(group))>>
               [] s.fun = "max" ->
                    V(s, CHOOSE m \in group :
                           \A k \in group : V(s, m)[2] >= V(s, k)[2])
               [] s.fun = "min" ->
                    V(s, CHOOSE m \in group :
                           \A k \in group : V(s, m)[2] <= V(s, k)[2])
  IN [i \in DOMAIN q.select |-> Item(q.select[i])]

\* The answer, as a sequence whose order means nothing; LIMIT is left out.
Meaning(q, catalog, tables) ==
  LET matches == Matches(q, catalog, tables)
      Key(m) == [i \in DOMAIN q.group |->
                   Cell(q, catalog, tables, m, q.group[i])]
      groups == {{m \in matches : Key(m) = k} : k \in {Key(m) : m \in matches}}
      Listed(set) == FoldSet(LAMBDA x, seq : Append(seq, x), <<>>, set)
      rows == Listed(matches)
      gs == Listed(groups)
  IN IF Aggregated(q)
     THEN [i \in DOMAIN gs |-> GroupRow(q, catalog, tables, gs[i])]
     ELSE [i \in DOMAIN rows |-> RowOf(q, catalog, tables, rows[i])]

\* A row by the names of its columns, and how often each such row comes.
Named(cols, row) ==
  [c \in ToSet(cols) |-> row[CHOOSE i \in DOMAIN cols : cols[i] = c]]

NamedRows(cols, rows) == [i \in DOMAIN rows |-> Named(cols, rows[i])]

Copies(rows, x) == Cardinality({i \in DOMAIN rows : rows[i] = x})

Within(rows, others) ==
  \A x \in ToSet(rows) : Copies(rows, x) <= Copies(others, x)

-----------------------------------------------------------------------------
(* Which queries the parser should take, and what stands against a plan.   *)

Resolved(q, catalog, ref) == Cardinality(Owners(q, catalog, ref)) = 1

\* The types a select list yields; MAX and MIN have that of their column.
TypeOfItem(q, catalog, s) ==
  CASE s.kind = "star" -> catalog[q.from[1].table][1].type
    [] s.kind = "col" -> TypeOfRef(q, catalog, s.ref)
    [] s.kind = "fun" -> IF s.fun \in {"max", "min"}
                         THEN TypeOfRef(q, catalog, s.ref) ELSE "int"

RECURSIVE WellFormed(_, _)
WellFormed(q, catalog) ==
  LET Good(ref) == Resolved(q, catalog, ref)
      GoodExpr(e) == e.kind = "lit" \/ (e.kind = "col" /\ Good(e.ref))
  IN /\ q.from # <<>>
     /\ \A i \in DOMAIN q.from : q.from[i].table \in DOMAIN catalog
     /\ Cardinality({f.alias : f \in ToSet(q.from)}) = Len(q.from)
     /\ \A e \in ToSet(q.where) :
          IF OnSubquery(e)
          THEN /\ e.l.kind = "col" /\ Good(e.l.ref)
               /\ WellFormed(e.r.query, catalog)
               /\ TypeOfRef(q, catalog, e.l.ref)
                    = TypeOfItem(e.r.query, catalog, e.r.query.select[1])
          ELSE /\ "col" \in {e.l.kind, e.r.kind}
               /\ GoodExpr(e.l) /\ GoodExpr(e.r)
               /\ TypeOfExpr(q, catalog, e.l) = TypeOfExpr(q, catalog, e.r)
     /\ \A ref \in ToSet(q.group) : Good(ref)
     /\ q.order # Null => Good(q.order.ref)
     /\ \A s \in ToSet(q.select) :
          CASE s.kind = "star" -> TRUE
            [] s.kind = "col" -> Good(s.ref)
            [] s.kind = "fun" ->
                 /\ s.fun \in {"max", "min", "sum", "avg", "count"}
                 /\ Good(s.ref)
                 /\ s.fun \in {"sum", "avg"} =>
                      TypeOfRef(q, catalog, s.ref) = "int"

\* The conditions that join two tables, and the pair each of them joins.
JoinConditions(q, catalog) ==
  {i \in DOMAIN q.where :
     /\ q.where[i].l.kind = "col" /\ q.where[i].r.kind = "col"
     /\ Owner(q, catalog, q.where[i].l.ref) # Owner(q, catalog, q.where[i].r.ref)}

Pair(q, catalog, i) ==
  {Owner(q, catalog, q.where[i].l.ref), Owner(q, catalog, q.where[i].r.ref)}

\* Two conditions on one pair of tables.
RepeatsPair(q, catalog) ==
  \E i, j \in JoinConditions(q, catalog) :
    i # j /\ Pair(q, catalog, i) = Pair(q, catalog, j)

\* Some tables have as many joins among them as there are of them.
Cyclic(q, catalog) ==
  \E S \in SUBSET DOMAIN q.from :
    /\ S # {}
    /\ Cardinality({i \in JoinConditions(q, catalog) :
                      Pair(q, catalog, i) \subseteq S}) >= Cardinality(S)

Connected(q, catalog) ==
  \A S \in (SUBSET DOMAIN q.from) \ {{}, DOMAIN q.from} :
    \E i \in JoinConditions(q, catalog) :
      Pair(q, catalog, i) \cap S # {} /\ ~(Pair(q, catalog, i) \subseteq S)

-----------------------------------------------------------------------------
(* Where the program is known to mean something else (see the README).     *)

\* Every row of a table has the columns' values (an INSERT may add others).
RowsFit(t, catalog, tables) ==
  \A row \in ToSet(tables[t]) :
    /\ Len(row) = Len(catalog[t])
    /\ \A i \in DOMAIN row : row[i] # Null /\ TypeOf(row[i]) = catalog[t][i].type

RECURSIVE Plain(_, _, _)
Plain(q, catalog, tables) ==
  LET Star(s) == s.kind = "star"
      Text(e) == e.op = "LIKE" /\ e.l.kind = "lit"
  IN /\ \A f \in ToSet(q.from) : RowsFit(f.table, catalog, tables)
     /\ \A e \in ToSet(q.where) : ~Text(e)
     /\ q.group # <<>> => Aggregated(q)
     /\ Aggregated(q) =>
          /\ \A s \in ToSet(q.select) :
               /\ ~Star(s)
               /\ s.kind = "col" => \E g \in ToSet(q.group) :
                    /\ Owner(q, catalog, g) = Owner(q, catalog, s.ref)
                    /\ g.name = s.ref.name
               /\ s.kind = "fun" /\ s.fun = "avg" => q.group # <<>>
     /\ \A i \in Subqueries(q) :
          /\ q.where[i].r.query.limit = -1
          /\ Plain(q.where[i].r.query, catalog, tables)
          /\ Star(q.where[i].r.query.select[1]) =>
               Len(q.where[i].r.query.from) = 1
          /\ \A s \in ToSet(q.select) : ~Star(s)
          /\ \/ Len(q.from) = 1
             \/ {f.alias : f \in ToSet(q.from)} \cap
                  {f.alias : f \in ToSet(q.where[i].r.query.from)} = {}
     /\ Aggregated(q) /\ q.group = <<>> =>
          Matches(q, catalog, tables) # {}

\* What is answered, and not with an error or by the end of the process.
RECURSIVE Supported(_, _, _)
Supported(q, catalog, tables) ==
  /\ Plain(q, catalog, tables)
  /\ ~RepeatsPair(q, catalog) /\ ~Cyclic(q, catalog) /\ Connected(q, catalog)
  /\ \A f \in ToSet(q.from) : tables[f.table] # <<>>
  /\ \A i \in Subqueries(q) :
       LET sub == q.where[i].r.query
           first == sub.select[1]
       IN /\ Supported(sub, catalog, tables)
          /\ sub.order = Null
          /\ first.kind = "fun" /\ first.fun \in {"max", "min"} =>
               TypeOfRef(sub, catalog, first.ref) = "int"
=============================================================================
