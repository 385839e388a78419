------------------------------ MODULE Answers ------------------------------
(***************************************************************************)
(* What a session answers, against what the statements mean: Session with  *)
(* the parser, the plans and the operators there are.                      *)
(***************************************************************************)
EXTENDS Session, LogicalPlan, QueryMeaning

\* ParseQuery, of a statement to execute; the hash map orders the groups.
Plan(s, cat, order) ==
  IF s.kind = "select" THEN ParseSelect(s.query, cat, order)
  ELSE ParseInsert(s, cat, order)

Selecting == statement # Null /\ statement.kind = "select"

ColumnIds == [i \in DOMAIN node.cols |->
                <<node.cols[i].table, node.cols[i].name>>]

\* The rows printed, and those the query means, by the names of the columns.
Printed == NamedRows(ColumnIds, output)
Meant(q) == NamedRows(Columns(q, catalog), Meaning(q, catalog, before))

\* A plain query answered is answered with its meaning: each row as often as
\* it is meant, and with LIMIT as many of them as it allows.
AnswerCorrect ==
  Selecting /\ Answered =>
    LET q == statement.query
        meant == Meant(q)
    IN WellFormed(q, catalog) /\ Plain(q, catalog, before) =>
         /\ Within(Printed, meant)
         /\ Len(output) = IF q.limit = -1 THEN Len(meant)
                          ELSE Min({q.limit, Len(meant)})

\* The column of the output a query is ordered by.
OrderId(q) == <<q.from[Owner(q, catalog, q.order.ref)].alias, q.order.ref.name>>

\* Whether a row of the output may come before another, by that column.
InOrder(q, x, y) ==
  Compare(x[OrderId(q)], IF q.order.asc THEN "<=" ELSE ">=", y[OrderId(q)])

OrderedBySelected(q) ==
  /\ WellFormed(q, catalog)
  /\ q.order # Null
  /\ OrderId(q) \in ToSet(Columns(q, catalog))

\* ORDER BY a selected column orders the rows, and LIMIT cuts off the last:
\* no row left out comes before one printed.
OrderKept ==
  Selecting /\ Answered =>
    LET q == statement.query
        meant == Meant(q)
    IN OrderedBySelected(q) /\ ~Aggregated(q) /\ Plain(q, catalog, before) =>
         /\ \A i, j \in DOMAIN Printed :
              i < j => InOrder(q, Printed[i], Printed[j])
         /\ \A x \in ToSet(meant), y \in ToSet(Printed) :
              Copies(Printed, x) < Copies(meant, x) => InOrder(q, y, x)

\* A supported query is answered: no error, and the process lives on.
SupportedAnswered ==
  Selecting =>
    LET q == statement.query IN
    WellFormed(q, catalog) /\ Supported(q, catalog, before) =>
      phase # "crashed" /\ answer # "error"

\* Planning ends the process just when the joins close a cycle, and fails
\* when they leave tables apart.
PlanMatchesGraph ==
  Selecting =>
    LET q == statement.query IN
    WellFormed(q, catalog) /\ Subqueries(q) = {} /\ ~RepeatsPair(q, catalog) =>
      /\ Cyclic(q, catalog) <=> phase = "crashed" /\ node = Null
      /\ ~Cyclic(q, catalog) /\ ~Connected(q, catalog) => answer = "error"

\* Nothing is printed for what is not a query, or is one not implemented.
OnlyQueriesAnswered ==
  Selecting =>
    LET q == statement.query IN
    \/ output = <<>>
    \/ /\ WellFormed(q, catalog)
       /\ ~RepeatsPair(q, catalog)
       /\ Connected(q, catalog)

\* The rows a statement has added to a table.
NewRows(t) ==
  SubSeq(tables[t], Len(before[t]) + 1, Len(tables[t]))

\* The rows an INSERT is to add.
ToInsert(s) ==
  IF s.kind = "values" THEN <<s.values>> ELSE Meaning(s.query, catalog, before)

InsertDefined(s) ==
  /\ s.table \in DOMAIN before
  /\ s.kind = "values" => TupleFits(catalog[s.table], s.values)
  /\ s.kind = "insert" => /\ WellFormed(s.query, catalog)
                          /\ Supported(s.query, catalog, before)
                          /\ s.query.limit = -1

\* An INSERT adds the rows of its query over the tables as they were, all in
\* one step and once, after the rows already there, and counts them, even
\* when it reads the table it adds to; nothing else changes a table's rows.
InsertExact ==
  statement # Null =>
    LET Kept(T) == \A t \in T : tables[t] = before[t] IN
    IF statement.kind \notin {"insert", "values"} THEN Kept(DOMAIN before)
    ELSE LET t == statement.table IN
         /\ Kept(DOMAIN before \ {t})
         /\ InsertDefined(statement) =>
              LET rows == ToInsert(statement)
                  new == NewRows(t)
                  done == /\ tables[t] = before[t] \o new
                          /\ Len(new) = Len(rows) /\ Within(new, rows)
                          /\ output = <<<<<<"int", Len(rows)>>>>>>
              IN IF Answered THEN done
                 ELSE /\ answer = "none" /\ phase # "crashed"
                      /\ done \/ (tables = before /\ output = <<>>)

\* Claimed by e2e_tests/test_queries.sql:7, whose answer is compared, in
\* order, with SQLite's: ORDER BY orders the groups of a GROUP BY too.
GroupsOrdered ==
  Selecting /\ Answered =>
    LET q == statement.query IN
    OrderedBySelected(q) /\ Aggregated(q) =>
      \A i, j \in DOMAIN Printed :
        i < j => InOrder(q, Printed[i], Printed[j])

\* Claimed by execution/join_predicate.cc:12: the values a join compares are
\* there, so that joining a subquery's rows never ends the process.
JoinedValuesThere ==
  Selecting =>
    LET q == statement.query IN
    /\ WellFormed(q, catalog)
    /\ ~Cyclic(q, catalog)
    /\ \A i \in Subqueries(q) : q.where[i].r.query.order = Null
    /\ Plain([q EXCEPT !.where = <<>>], catalog, before)
    => phase # "crashed"
=============================================================================
