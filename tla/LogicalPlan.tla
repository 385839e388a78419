---------------------------- MODULE LogicalPlan ----------------------------
(***************************************************************************)
(* From a parsed statement to the operators that execute it                *)
(* (src/komfydb/parser.cc, execution/logical_plan, optimizer).             *)
(*   statement  [kind: "select", query], [kind: "insert", table, query],   *)
(*              [kind: "values", table, values], [kind: "create", table,   *)
(*              cols]                                                      *)
(*   query      [from: Seq([table, alias]), where: Seq([l, op, r]), group, *)
(*              select, order: Null or [ref, asc], limit: -1 for none]     *)
(*   expression [kind: "col", ref], [kind: "lit", value], [kind: "star"],  *)
(*              [kind: "sub", query], [kind: "fun", fun, ref]              *)
(*   ref        [table: alias or "", name]                                 *)
(* A logical plan and a physical one carry a status, as calls do.          *)
(***************************************************************************)
EXTENDS Operators, FiniteSets

\* COLUMN_REF_STAR, and the reference a subquery's JoinNode leaves unset.
StarRef == [table |-> "null", name |-> "*"]
NoRef == [table |-> "", name |-> ""]

EmptyPlan ==
  [st |-> "ok", scans |-> <<>>, filters |-> <<>>, joins |-> <<>>,
   groups |-> <<>>, aggs |-> <<>>, selects |-> <<>>, order |-> Null,
   limit |-> -1]

Failed(lp) == [lp EXCEPT !.st = "error"]

\* The next step of the parser, unless one before it failed.
Step(lp, Do(_)) == IF lp.st = "ok" THEN Do(lp) ELSE lp

Aliases(lp) == {s.alias : s \in ToSet(lp.scans)}

\* TupleDesc::IndexForFieldName; 0 is its error.
IndexForFieldName(cols, name) == SelectInSeq(cols, LAMBDA c : c.name = name)

\* The columns behind an alias (alias_to_id and the catalog).
ColumnsOf(lp, catalog, alias) ==
  catalog[(CHOOSE s \in ToSet(lp.scans) : s.alias = alias).table]

HasColumn(lp, catalog, alias, name) ==
  IndexForFieldName(ColumnsOf(lp, catalog, alias), name) # 0

CheckColumnRef(lp, catalog, ref) ==
  \/ ref = StarRef
  \/ ref.table \in Aliases(lp) /\ HasColumn(lp, catalog, ref.table, ref.name)

\* Mutant: a column without a table belongs to any alias that has it.
GetColumnRef_Any(lp, catalog, ref) ==
  LET having == {a \in Aliases(lp) : HasColumn(lp, catalog, a, ref.name)} IN
  IF ref.table # "" THEN ref
  ELSE IF having = {} THEN Null
  ELSE [ref EXCEPT !.table = CHOOSE a \in having : TRUE]

\* A column without a table belongs to the only alias that has it.
GetColumnRef(lp, catalog, ref) ==
  LET having == {a \in Aliases(lp) : HasColumn(lp, catalog, a, ref.name)} IN
  IF ref.table # "" THEN ref
  ELSE IF Cardinality(having) = 1
  THEN [ref EXCEPT !.table = CHOOSE a \in having : TRUE]
  ELSE Null

GetColumnType(lp, catalog, ref) ==
  LET cols == ColumnsOf(lp, catalog, ref.table) IN
  cols[IndexForFieldName(cols, ref.name)].type

\* The type, or an error (CheckColumnRef fails on just the same references).
Comparable(lp, catalog, l, r) ==
  /\ CheckColumnRef(lp, catalog, l)
  /\ CheckColumnRef(lp, catalog, r)
  /\ GetColumnType(lp, catalog, l) = GetColumnType(lp, catalog, r)

-----------------------------------------------------------------------------
(* Building the logical plan: LogicalPlan::Add..., Parser::Parse...        *)

AddScan(lp, scan) ==
  IF scan.alias \in Aliases(lp) THEN Failed(lp)
  ELSE [lp EXCEPT !.scans = Append(@, scan)]

IsDuplicateCondition(lp, l, r) ==
  \E j \in ToSet(lp.joins) :
    {j.l.table, j.r.table} = {l.table, r.table}

AddJoin(lp, l, op, r) ==
  IF IsDuplicateCondition(lp, l, r) THEN Failed(lp)
  ELSE [lp EXCEPT !.joins =
          Append(@, [l |-> l, op |-> op, r |-> r, sub |-> Null])]

AddSubqueryJoin(lp, l, op, sub) ==
  [lp EXCEPT !.joins = Append(@, [l |-> l, op |-> op, r |-> NoRef,
                                  sub |-> sub])]

AddFilter(lp, filter) == [lp EXCEPT !.filters = Append(@, filter)]

\* Op::Flip.
Flip(op) ==
  CASE op = ">" -> "<" [] op = ">=" -> "<="
    [] op = "<" -> ">" [] op = "<=" -> ">="
    [] OTHER -> op

AddFilterColConst(lp, catalog, ref, op, value) ==
  IF ref # Null /\ CheckColumnRef(lp, catalog, ref)
     /\ GetColumnType(lp, catalog, ref) = TypeOf(value)
  THEN AddFilter(lp, [l |-> ref, op |-> op, value |-> value])
  ELSE Failed(lp)

\* Two columns: a join of two tables or a filter on one.
ParseColCol(lp, catalog, l, op, r) ==
  IF l = Null \/ r = Null THEN Failed(lp)
  ELSE IF ~Comparable(lp, catalog, l, r) THEN Failed(lp)
  ELSE IF l.table # r.table THEN AddJoin(lp, l, op, r)
  ELSE AddFilter(lp, [l |-> l, op |-> op, r |-> r])

RECURSIVE GenerateLogicalPlan(_, _)

ParseSubquery(lp, catalog, l, op, query) ==
  LET sub == GenerateLogicalPlan(query, catalog) IN
  IF l = Null THEN Failed(lp)
  ELSE IF sub.st # "ok" THEN [lp EXCEPT !.st = sub.st]
  ELSE IF ~CheckColumnRef(lp, catalog, l) THEN Failed(lp)
  ELSE AddSubqueryJoin(lp, l, op, sub)

ParseSimpleExpression(lp, catalog, e) ==
  LET Ref(x) == GetColumnRef(lp, catalog, x.ref)
      kinds == <<e.l.kind, e.r.kind>>
  IN CASE kinds = <<"col", "col">> ->
            ParseColCol(lp, catalog, Ref(e.l), e.op, Ref(e.r))
       [] kinds = <<"col", "sub">> ->
            ParseSubquery(lp, catalog, Ref(e.l), e.op, e.r.query)
       [] kinds = <<"col", "lit">> ->
            AddFilterColConst(lp, catalog, Ref(e.l), e.op, e.r.value)
       [] kinds = <<"lit", "col">> ->
            AddFilterColConst(lp, catalog, Ref(e.r), Flip(e.op), e.l.value)
       [] OTHER -> Failed(lp)

ParseFromClause(lp, catalog, from) ==
  IF \E i \in DOMAIN from : from[i].table \notin DOMAIN catalog
  THEN Failed(lp)
  ELSE FoldLeft(LAMBDA p, scan : Step(p, LAMBDA x : AddScan(x, scan)),
                lp, from)

\* A reference resolved and checked, then used.
WithRef(lp, catalog, ref, Do(_, _)) ==
  LET r == GetColumnRef(lp, catalog, ref) IN
  IF r = Null THEN Failed(lp)
  ELSE IF ~CheckColumnRef(lp, catalog, r) THEN Failed(lp)
  ELSE Do(lp, r)

AddGroupBy(lp, ref) == [lp EXCEPT !.groups = Append(@, ref)]

AggregateFunctions == {"max", "min", "sum", "avg", "count", "none"}

\* The first aggregate turns what was selected into aggregates.
AddAggregate(lp, fun, ref) ==
  LET none == [i \in DOMAIN lp.selects |->
                 [fun |-> "none", ref |-> lp.selects[i]]] IN
  IF fun \notin AggregateFunctions THEN Failed(lp)
  ELSE [lp EXCEPT !.selects = <<>>,
                  !.aggs = @ \o Append(none, [fun |-> fun, ref |-> ref])]

AddSelect(lp, ref) ==
  IF lp.aggs # <<>> THEN AddAggregate(lp, "none", ref)
  ELSE [lp EXCEPT !.selects = Append(@, ref)]

ParseColumn(lp, catalog, item) ==
  CASE item.kind = "fun" ->
         WithRef(lp, catalog, item.ref,
                 LAMBDA p, r : AddAggregate(p, item.fun, r))
    [] item.kind = "col" -> WithRef(lp, catalog, item.ref, AddSelect)
    [] item.kind = "star" -> AddSelect(lp, StarRef)

ParseOrderBy(lp, catalog, order) ==
  IF order = Null THEN lp
  ELSE WithRef(lp, catalog, order.ref, LAMBDA p, r :
         [p EXCEPT !.order = [ref |-> r, asc |-> order.asc]])

\* A query without FROM has no fromTable to look at.
GenerateLogicalPlan(query, catalog) ==
  LET from == ParseFromClause(EmptyPlan, catalog, query.from)
      where == FoldLeft(LAMBDA p, e : Step(p, LAMBDA x :
                          ParseSimpleExpression(x, catalog, e)),
                        from, query.where)
      group == FoldLeft(LAMBDA p, ref : Step(p, LAMBDA x :
                          WithRef(x, catalog, ref, AddGroupBy)),
                        where, query.group)
      select == FoldLeft(LAMBDA p, item : Step(p, LAMBDA x :
                           ParseColumn(x, catalog, item)),
                         group, query.select)
      order == Step(select, LAMBDA p : ParseOrderBy(p, catalog, query.order))
  IN IF query.from = <<>> THEN [EmptyPlan EXCEPT !.st = "crash"]
     ELSE Step(order, LAMBDA p : [p EXCEPT !.limit = query.limit])

-----------------------------------------------------------------------------
(* The physical plan: a subplan per class of joined tables, in union-find. *)

\* OpIterator::GetIndexForColumnRef; 0 is its error.
IndexForColumnRef(n, ref) ==
  SelectInSeq(n.cols, LAMBDA c : c.table = ref.table /\ c.name = ref.name)

\* Mutant: the table itself stands for its class.
GetEquiv_Direct(alias, equiv) == equiv[alias]

RECURSIVE GetEquiv(_, _)
GetEquiv(alias, equiv) ==
  IF equiv[alias] = alias THEN alias ELSE GetEquiv(equiv[alias], equiv)

\* Mutant: subplans left unjoined do not count.
GetSubplanRoots_One(equiv) == {CHOOSE a \in DOMAIN equiv : equiv[a] = a}

GetSubplanRoots(equiv) == {GetEquiv(a, equiv) : a \in DOMAIN equiv}

SeqScan(lp, catalog, scan) ==
  LET cols == catalog[scan.table] IN
  Scan(scan.table, [i \in DOMAIN cols |->
         [table |-> scan.alias, name |-> cols[i].name,
          type |-> cols[i].type]])

ProcessScanNodes(lp, catalog) ==
  [st |-> "ok",
   equiv |-> [a \in Aliases(lp) |-> a],
   subplans |-> [a \in Aliases(lp) |->
     SeqScan(lp, catalog, CHOOSE s \in ToSet(lp.scans) : s.alias = a)]]

\* FilterNode::GetPredicate, of columns known to be there.
GetPredicate(cols, filter) ==
  IF "value" \in DOMAIN filter
  THEN [l |-> IndexForFieldName(cols, filter.l.name), op |-> filter.op,
        value |-> filter.value]
  ELSE [l |-> IndexForFieldName(cols, filter.l.name), op |-> filter.op,
        r |-> IndexForFieldName(cols, filter.r.name)]

ProcessFilter(s, filter) ==
  LET child == s.subplans[filter.l.table] IN
  [s EXCEPT !.subplans[filter.l.table] =
     FilterOf(child, GetPredicate(child.cols, filter))]

\* JoinOptimizer::InstatiateJoin; a subplan moved from is a null pointer.
InstatiateJoin(join, l, r) ==
  LET lf == IndexForColumnRef(l, join.l)
      rf == IF join.sub = Null THEN IndexForColumnRef(r, join.r) ELSE 1
  IN IF l = Null \/ r = Null THEN Answer("crash", Null)
     ELSE IF lf = 0 \/ rf = 0 THEN Answer("error", Null)
     ELSE IF l.cols[lf].type # r.cols[rf].type THEN Answer("error", Null)
     ELSE Answer("ok", JoinOf(l, [l |-> lf, op |-> join.op, r |-> rf], r))

RECURSIVE GeneratePhysicalPlan(_, _, _)

\* The left subplan is moved out first, so a join inside a class finds Null.
ProcessJoin(s, join, catalog, order) ==
  LET lt == GetEquiv(join.l.table, s.equiv)
      rt == GetEquiv(join.r.table, s.equiv)
      left == s.subplans[lt]
      moved == IF join.sub # Null THEN s
               ELSE [s EXCEPT !.equiv[rt] = lt, !.subplans[rt] = Null]
      On(r) == IF r.st = "ok" THEN [moved EXCEPT !.subplans[lt] = r.node]
               ELSE [s EXCEPT !.st = r.st]
  IN On(Then(CASE join.sub # Null ->
                    GeneratePhysicalPlan(join.sub, catalog, order)
               [] join.sub = Null /\ lt = rt -> Answer("ok", Null)
               [] OTHER -> Answer("ok", s.subplans[rt]),
             LAMBDA right : InstatiateJoin(join, left, right)))

IsApplicable(fun, type) == type = "int" \/ fun \notin {"avg", "sum"}

\* The [fun, field] pairs of an aggregate; a star is every column.
AggregateFields(plan, agg) ==
  IF agg.fun = "none" /\ agg.ref = StarRef
  THEN [i \in DOMAIN plan.cols |-> <<"none", i>>]
  ELSE <<<<agg.fun, IndexForColumnRef(plan, agg.ref)>>>>

ProcessAggregateNodes(lp, plan, order) ==
  LET aggs == FlattenSeq([i \in DOMAIN lp.aggs |->
                            AggregateFields(plan, lp.aggs[i])])
      groups == [i \in DOMAIN lp.groups |->
                   IndexForColumnRef(plan, lp.groups[i])]
      bad(a) == IF a[2] = 0 THEN TRUE
                ELSE ~IsApplicable(a[1], plan.cols[a[2]].type)
  IN IF (\E i \in DOMAIN aggs : bad(aggs[i])) \/ 0 \in ToSet(groups)
     THEN Answer("error", Null)
     ELSE Answer("ok", AggregateOf(plan, [i \in DOMAIN aggs |-> aggs[i][1]],
                                   [i \in DOMAIN aggs |-> aggs[i][2]],
                                   groups, order))

\* Mutant: a star yields no column.
ProcessSelectNodes_NoStar(lp, plan) ==
  LET fields == FlattenSeq([i \in DOMAIN lp.selects |->
                  IF lp.selects[i] = StarRef THEN <<>>
                  ELSE <<IndexForColumnRef(plan, lp.selects[i])>>])
  IN IF 0 \in ToSet(fields) THEN Answer("error", Null)
     ELSE Answer("ok", ProjectOf(plan, fields))

ProcessSelectNodes(lp, plan) ==
  LET fields == FlattenSeq([i \in DOMAIN lp.selects |->
                  IF lp.selects[i] = StarRef
                  THEN [c \in DOMAIN plan.cols |-> c]
                  ELSE <<IndexForColumnRef(plan, lp.selects[i])>>])
  IN IF 0 \in ToSet(fields) THEN Answer("error", Null)
     ELSE Answer("ok", ProjectOf(plan, fields))

ProcessOrderBy(lp, plan) ==
  LET field == IndexForColumnRef(plan, lp.order.ref) IN
  IF lp.order = Null THEN Answer("ok", plan)
  ELSE IF field = 0 THEN Answer("error", Null)
  ELSE Answer("ok", OrderOf(plan, field, lp.order.asc))

ProcessLimit(lp, plan) ==
  IF lp.limit >= 0 THEN Answer("ok", LimitOf(plan, lp.limit))
  ELSE Answer("ok", plan)

\* order is AggregateOf's, for every Aggregate of the plan.
GeneratePhysicalPlan(lp, catalog, order) ==
  LET filters == FoldLeft(ProcessFilter, ProcessScanNodes(lp, catalog),
                          lp.filters)
      Joined(s, j) == IF s.st = "ok" THEN ProcessJoin(s, j, catalog, order)
                      ELSE s
      Produced(p) == IF lp.aggs # <<>> THEN ProcessAggregateNodes(lp, p, order)
                     ELSE ProcessSelectNodes(lp, p)
      On(s) ==
        LET roots == GetSubplanRoots(s.equiv)
            plan == s.subplans[CHOOSE a \in roots : TRUE]
        IN CASE s.st # "ok" -> Answer(s.st, Null)
             [] s.st = "ok" /\ Cardinality(roots) # 1 -> Answer("error", Null)
             [] OTHER -> Then(Then(ProcessOrderBy(lp, plan), Produced),
                              LAMBDA p : ProcessLimit(lp, p))
  IN On(FoldLeft(Joined, filters, lp.joins))

\* Parser::ParseSelectStatement.
ParseSelect(query, catalog, order) ==
  LET On(lp) == IF lp.st # "ok" THEN Answer(lp.st, Null)
                ELSE GeneratePhysicalPlan(lp, catalog, order)
  IN On(GenerateLogicalPlan(query, catalog))

\* GetTuple, of an INSERT ... VALUES.
TupleFits(cols, values) ==
  /\ Len(values) = Len(cols)
  /\ \A i \in DOMAIN cols : TypeOf(values[i]) = cols[i].type

\* The rows an INSERT ... SELECT yields are not held against the columns.
ParseInsert(s, catalog, order) ==
  LET cols == catalog[s.table]
      Into(p) == Answer("ok", InsertOf(p, s.table))
  IN CASE s.table \notin DOMAIN catalog -> Answer("error", Null)
       [] s.table \in DOMAIN catalog /\ s.kind = "insert" ->
            Then(ParseSelect(s.query, catalog, order), Into)
       [] OTHER -> IF TupleFits(cols, s.values)
                   THEN Into(Fixed(cols, <<s.values>>))
                   ELSE Answer("error", Null)
=============================================================================
