----------------------------- MODULE Operators -----------------------------
(***************************************************************************)
(* The operators a query is executed with (src/komfydb/execution): each a  *)
(* record with the operator's own fields and its children's records.  A    *)
(* call answers [st, node]: the status, "ok", "oor" (OutOfRange), "error"  *)
(* or "crash" (the process dies there), and the operator after the call.   *)
(* tables is what the scans read; Null is also a pointer moved from.       *)
(***************************************************************************)
EXTENDS Values, SequencesExt

CONSTANT PageRows    \* rows of a page

ASSUME OperatorsAssumption == PageRows \in Nat \ {0}

\* IntField::Compare and StringField::Compare, of values of one type.
Compare(v, op, w) ==
  CASE op = "="  -> v[2] = w[2]
    [] op = "!=" -> v[2] # w[2]
    [] op = ">"  -> v[2] > w[2]
    [] op = ">=" -> v[2] >= w[2]
    [] op = "<"  -> v[2] < w[2]
    [] op = "<=" -> v[2] <= w[2]
    [] op = "LIKE" -> IF TypeOf(v) = "int" THEN v[2] = w[2] ELSE w[2] <= v[2]

\* A comparison of fields that are not there, or of two types, has no
\* value, and its caller takes the value all the same.
Holds(v, op, w) ==
  IF v = Null \/ w = Null THEN "crash"
  ELSE IF TypeOf(v) # TypeOf(w) THEN "crash"
  ELSE IF Compare(v, op, w) THEN "yes" ELSE "no"

-----------------------------------------------------------------------------
Answer(st, n) == [st |-> st, node |-> n]

\* What a call answered by the only child answers in turn.
OfChild(n, r) == Answer(r.st, [n EXCEPT !.child = r.node])

\* RETURN_IF_ERROR, then the rest of the function.
Then(r, Rest(_)) == IF r.st = "ok" THEN Rest(r.node) ELSE r

RECURSIVE Open(_, _), Rewind(_, _), Fetch(_, _), Gather(_, _, _)

\* OpIterator::Next: the buffered record or a fetched one, moved out.
Next(n, tables) ==
  LET Out(r) ==
        IF r.st = "ok"
        THEN [st |-> "ok", node |-> [r.node EXCEPT !.next = Null],
              rec |-> r.node.next]
        ELSE [st |-> r.st, node |-> r.node, rec |-> Null]
  IN Out(IF n.next = Null THEN Fetch(n, tables) ELSE Answer("ok", n))

\* ITERATE_RECORDS: the records up to the first status that is not ok.
Gather(n, tables, recs) ==
  LET On(r) ==
        IF r.st = "ok" THEN Gather(r.node, tables, Append(recs, r.rec))
        ELSE [st |-> r.st, node |-> r.node, recs |-> recs]
  IN On(Next(n, tables))

\* The next record is the head of a list kept by the operator.
FetchHead(n) ==
  IF n.rest = <<>> THEN Answer("oor", n)
  ELSE Answer("ok", [n EXCEPT !.next = Head(n.rest), !.rest = Tail(n.rest)])

-----------------------------------------------------------------------------
(* SeqScan and its TableIterator; page counts the pages asked for.         *)

Scan(table, cols) ==
  [kind |-> "scan", cols |-> cols, next |-> Null, table |-> table,
   page |-> 0, rest |-> <<>>]

LoadNextPage(n, tables) ==
  LET rows == tables[n.table]
      first == n.page * PageRows + 1
      last == IF first + PageRows - 1 < Len(rows)
              THEN first + PageRows - 1 ELSE Len(rows)
  IN IF first <= Len(rows)
     THEN Answer("ok", [n EXCEPT !.page = @ + 1,
                                 !.rest = SubSeq(rows, first, last)])
     ELSE Answer("oor", [n EXCEPT !.page = @ + 1])

OpenScan(n, tables) == LoadNextPage([n EXCEPT !.page = 0], tables)

FetchScan(n, tables) ==
  IF n.rest # <<>> THEN FetchHead(n)
  ELSE Then(LoadNextPage(n, tables), LAMBDA m : FetchHead(m))

-----------------------------------------------------------------------------
(* FixedIterator, Filter, Project, Limit.                                  *)

Fixed(cols, recs) ==
  [kind |-> "fixed", cols |-> cols, next |-> Null, recs |-> recs,
   rest |-> <<>>]

\* A predicate is [l, op, r] on two fields, or [l, op, value].
FilterOf(child, pred) ==
  [kind |-> "filter", cols |-> child.cols, next |-> Null, child |-> child,
   pred |-> pred]

Evaluate(pred, row) ==
  Holds(Field(row, pred.l), pred.op,
        IF "value" \in DOMAIN pred THEN pred.value ELSE Field(row, pred.r))

RECURSIVE FetchFilter(_, _)
FetchFilter(n, tables) ==
  LET On(r) ==
        LET m == [n EXCEPT !.child = r.node]
            holds == Evaluate(n.pred, r.rec)
        IN CASE r.st # "ok" -> Answer(r.st, m)
             [] r.st = "ok" /\ holds = "crash" -> Answer("crash", m)
             [] r.st = "ok" /\ holds = "yes" ->
                  Answer("ok", [m EXCEPT !.next = r.rec])
             [] OTHER -> FetchFilter(m, tables)
  IN On(Next(n.child, tables))

ProjectOf(child, fields) ==
  [kind |-> "project", cols |-> [i \in DOMAIN fields |-> child.cols[fields[i]]],
   next |-> Null, child |-> child, fields |-> fields]

\* A field of another type than the column's is cast to a null pointer.
FetchProject(n, tables) ==
  LET On(r) ==
        LET m == [n EXCEPT !.child = r.node]
            row == [i \in DOMAIN n.fields |-> Field(r.rec, n.fields[i])]
            Sound(i) == row[i] # Null /\ TypeOf(row[i]) = n.cols[i].type
            bad == SelectInSeq([i \in DOMAIN row |-> Sound(i)], LAMBDA b : ~b)
        IN CASE r.st # "ok" -> Answer(r.st, m)
             [] r.st = "ok" /\ bad = 0 -> Answer("ok", [m EXCEPT !.next = row])
             [] OTHER -> Answer(IF row[bad] = Null THEN "error" ELSE "crash", m)
  IN On(Next(n.child, tables))

LimitOf(child, limit) ==
  [kind |-> "limit", cols |-> child.cols, next |-> Null, child |-> child,
   limit |-> limit, fetched |-> 0]

FetchLimit(n, tables) ==
  LET On(r) == Answer(r.st, [n EXCEPT !.fetched = @ + 1, !.child = r.node,
                                      !.next = r.rec])
  IN IF n.fetched = n.limit THEN Answer("oor", n)
     ELSE On(Next(n.child, tables))

-----------------------------------------------------------------------------
(* Join: nested loops, the right child rewound for each left record.       *)

\* The predicate compares field l of the left record with r of the right.
JoinOf(left, pred, right) ==
  [kind |-> "join", cols |-> left.cols \o right.cols, next |-> Null,
   left |-> left, right |-> right, lnext |-> Null, pred |-> pred]

\* What a call answered by the right child answers in turn.
OfRight(n, r) == Answer(r.st, [n EXCEPT !.right = r.node])

\* Join::Open, and the calls of Join::Rewind: the left child, then the right.
BothChildren(n, l, Right(_)) ==
  Then(Answer(l.st, [n EXCEPT !.left = l.node]), LAMBDA m :
       OfRight(m, Right(m.right)))

RewindJoin(n, tables) ==
  Then(BothChildren(n, Rewind(n.left, tables), LAMBDA c : Rewind(c, tables)),
       LAMBDA m : Answer("ok", [m EXCEPT !.lnext = Null, !.next = Null]))

\* Mutant: the right child is not rewound for the next left record.
AfterRight_NoRewind(m, tables) == Answer("ok", m.right)

\* What the right child is when it has run out.
AfterRight(m, tables) == Rewind(m.right, tables)

RECURSIVE FetchJoin(_, _)
FetchJoin(n, tables) ==
  LET OnLeft(l) ==
        Then(Answer(l.st, [n EXCEPT !.left = l.node, !.lnext = l.rec]),
             LAMBDA m : FetchJoin(m, tables))
      OnRight(r) ==
        LET m == [n EXCEPT !.right = r.node]
            holds == Holds(Field(n.lnext, n.pred.l), n.pred.op,
                           Field(r.rec, n.pred.r))
        IN CASE r.st = "oor" ->
                  Then(OfRight([m EXCEPT !.lnext = Null], AfterRight(m, tables)),
                       LAMBDA x : FetchJoin(x, tables))
             [] r.st = "ok" /\ holds = "crash" -> Answer("crash", m)
             [] r.st = "ok" /\ holds = "no" -> FetchJoin(m, tables)
             [] r.st = "ok" /\ holds = "yes" ->
                  Answer("ok", [m EXCEPT !.next = n.lnext \o r.rec])
             [] OTHER -> Answer(r.st, m)
  IN IF n.lnext = Null THEN OnLeft(Next(n.left, tables))
     ELSE OnRight(Next(n.right, tables))

-----------------------------------------------------------------------------
(* OrderBy: pos is the iterator `it`; a record handed out leaves a Null.   *)

OrderOf(child, field, asc) ==
  [kind |-> "order", cols |-> child.cols, next |-> Null, child |-> child,
   field |-> field, asc |-> asc, recs |-> <<>>, pos |-> 1]

\* Mutant: DESC is taken for ASC.
Before_Ascending(n, x, y) == Compare(x[n.field], "<", y[n.field])

\* Of records that have the field, and of one type.
Before(n, x, y) == Compare(x[n.field], IF n.asc THEN "<" ELSE ">", y[n.field])

\* The sort by insertion; std::sort may leave equal keys in another order.
Sorted(n, recs) ==
  LET Insert(s, x) ==
        LET k == SelectInSeq(s, LAMBDA y : Before(n, x, y)) IN
        IF k = 0 THEN Append(s, x) ELSE InsertAt(s, k, x)
  IN FoldLeft(Insert, <<>>, recs)

\* Some comparison of the sort has no value: a record was handed out before, a
\* field is not set, or two are of different types.  Any sort makes one of them.
Incomparable(n, recs) ==
  LET key(i) == IF recs[i] = Null THEN Null ELSE Field(recs[i], n.field)
  IN \E i, j \in DOMAIN recs : i # j /\ Holds(key(i), "<", key(j)) = "crash"

\* Prepare appends to what an earlier Prepare left, and sorts it all.
PrepareOrder(n, tables) ==
  LET On(r) ==
        LET m == [n EXCEPT !.child = r.node]
            recs == n.recs \o r.recs
        IN CASE r.st # "oor" -> Answer(r.st, m)
             [] r.st = "oor" /\ Incomparable(n, recs) -> Answer("crash", m)
             [] OTHER -> Answer("ok", [m EXCEPT !.pos = 1,
                                                !.recs = Sorted(n, recs)])
  IN On(Gather(n.child, tables, <<>>))

FetchOrder(n) ==
  IF n.pos > Len(n.recs) THEN Answer("oor", n)
  ELSE Answer("ok", [n EXCEPT !.next = n.recs[n.pos],
                              !.recs = [@ EXCEPT ![n.pos] = Null],
                              !.pos = @ + 1])

-----------------------------------------------------------------------------
(* Aggregate: a group is [key, row, size]; out_tuples is rest.             *)

AggregateCol(col, type) ==
  IF type = "none" THEN col
  ELSE [table |-> "__aggregate__", name |-> <<type, col.name>>,
        type |-> "int"]

\* order is the order the hash map's iteration gives the groups in.
AggregateOf(child, types, fields, groups, order) ==
  [kind |-> "aggregate", next |-> Null, child |-> child,
   cols |-> [i \in DOMAIN types |-> AggregateCol(child.cols[fields[i]],
                                                 types[i])],
   types |-> types, fields |-> fields, groups |-> groups, order |-> order,
   rest |-> <<>>]

InitialField(type, v) == IF type = "count" THEN <<"int", 1>> ELSE v

\* AggregateTuple::ApplyAggregate; sums are far from 2^31.
ApplyAggregate(type, old, new) ==
  CASE type = "none" -> old
    [] type \in {"sum", "avg"} -> <<"int", old[2] + new[2]>>
    [] type = "max" -> IF Compare(old, "<", new) THEN new ELSE old
    [] type = "min" -> IF Compare(old, ">", new) THEN new ELSE old
    [] type = "count" -> <<"int", old[2] + 1>>

\* Division truncates towards zero.
Quotient(a, b) == IF a >= 0 THEN a \div b ELSE -((-a) \div b)

\* FinalizeAggregates, of groups only.
Finalized(n, g) ==
  [i \in DOMAIN n.types |-> IF n.types[i] = "avg"
                            THEN <<"int", Quotient(g.row[i][2], g.size)>>
                            ELSE g.row[i]]

\* A record joins its group, or starts one; Null after an unset field.
AddToGroup(n, groups, row) ==
  LET key == [i \in DOMAIN n.groups |-> Field(row, n.groups[i])]
      v == [i \in DOMAIN n.types |-> Field(row, n.fields[i])]
      g == SelectInSeq(groups, LAMBDA x : x.key = key)
      unset == \/ Null \in ToSet(key)
               \/ \E i \in DOMAIN v :
                    v[i] = Null /\ (g # 0 \/ n.types[i] # "count")
      first == [i \in DOMAIN v |-> InitialField(n.types[i], v[i])]
  IN CASE unset -> Null
       [] ~unset /\ g = 0 ->
            Append(groups, [key |-> key, row |-> first, size |-> 1])
       [] OTHER ->
            [groups EXCEPT ![g].size = @ + 1,
                           ![g].row = [i \in DOMAIN v |->
                              ApplyAggregate(n.types[i], @[i], v[i])]]

\* Without GROUP BY there is always a row, and it is not finalized.
OutTuples(n, groups) ==
  CASE n.groups = <<>> /\ groups = <<>> -> <<[i \in DOMAIN n.types |-> Null]>>
    [] n.groups = <<>> /\ groups # <<>> -> <<groups[1].row>>
    [] OTHER ->
         LET out == [i \in DOMAIN groups |-> Finalized(n, groups[i])] IN
         IF n.order = "seen" THEN out ELSE Reverse(out)

PrepareAggregate(n, tables) ==
  LET On(r) ==
        LET m == [n EXCEPT !.child = r.node]
            groups == FoldLeft(LAMBDA gs, row :
                                 IF gs = Null THEN Null
                                 ELSE AddToGroup(n, gs, row), <<>>, r.recs)
        IN CASE groups = Null -> Answer("error", m)
             [] groups # Null /\ r.st # "oor" -> Answer(r.st, m)
             [] OTHER -> Answer("ok", [m EXCEPT !.rest = OutTuples(n, groups)])
  IN On(Gather(n.child, tables, <<>>))

-----------------------------------------------------------------------------
(* Insert: added is what it hands to BufferPool::InsertTuples.             *)

InsertCols == <<[table |-> "__insert__", name |-> "inserted_tuples",
                 type |-> "int"]>>

InsertOf(child, table) ==
  [kind |-> "insert", cols |-> InsertCols, next |-> Null, child |-> child,
   table |-> table, inserted |-> FALSE, added |-> <<>>]

\* Mutant: inserted is not looked at.
FetchInsert_Again(n, tables) ==
  LET On(r) == Answer("ok", [n EXCEPT !.child = r.node, !.added = r.recs,
                                      !.next = <<<<"int", Len(r.recs)>>>>])
  IN On(Gather(n.child, tables, <<>>))

\* Mutant: what the last call leaves is added too.
FetchInsert_End(n, tables) ==
  LET On(r) ==
        LET m == [n EXCEPT !.inserted = TRUE, !.child = r.node] IN
        IF r.st # "oor" THEN Answer(r.st, m)
        ELSE Answer("ok", [m EXCEPT !.added = Append(r.recs, Null),
                                    !.next = <<<<"int", Len(r.recs)>>>>])
  IN IF n.inserted THEN Answer("oor", n)
     ELSE On(Gather(n.child, tables, <<>>))

\* All the records are gathered before the first of them is added.
FetchInsert(n, tables) ==
  LET On(r) ==
        LET m == [n EXCEPT !.inserted = TRUE, !.child = r.node] IN
        IF r.st # "oor" THEN Answer(r.st, m)
        ELSE Answer("ok", [m EXCEPT !.added = r.recs,
                                    !.next = <<<<"int", Len(r.recs)>>>>])
  IN IF n.inserted THEN Answer("oor", n)
     ELSE On(Gather(n.child, tables, <<>>))

-----------------------------------------------------------------------------
(* The virtual calls.                                                      *)

Open(n, tables) ==
  CASE n.kind = "scan" -> OpenScan(n, tables)
    [] n.kind = "fixed" -> Answer("ok", [n EXCEPT !.rest = n.recs])
    [] n.kind = "join" ->
         BothChildren(n, Open(n.left, tables), LAMBDA c : Open(c, tables))
    [] OTHER ->
         Then(OfChild(n, Open(n.child, tables)), LAMBDA m :
              CASE n.kind = "order" -> PrepareOrder(m, tables)
                [] n.kind = "aggregate" -> PrepareAggregate(m, tables)
                [] n.kind = "limit" -> Answer("ok", [m EXCEPT !.fetched = 0])
                [] OTHER -> Answer("ok", m))

\* Filter, Project, Limit, SeqScan and OrderBy keep a buffered record.
Rewind(n, tables) ==
  CASE n.kind = "scan" -> OpenScan(n, tables)
    [] n.kind = "fixed" -> Answer("ok", [n EXCEPT !.rest = n.recs])
    [] n.kind = "join" -> RewindJoin(n, tables)
    [] OTHER ->
         Then(OfChild(n, Rewind(n.child, tables)), LAMBDA m :
              CASE n.kind = "order" -> PrepareOrder(m, tables)
                [] n.kind = "aggregate" ->
                     PrepareAggregate([m EXCEPT !.rest = <<>>, !.next = Null],
                                      tables)
                [] n.kind = "limit" -> Answer("ok", [m EXCEPT !.fetched = 0])
                [] n.kind = "insert" ->
                     Answer("ok", [m EXCEPT !.inserted = FALSE])
                [] OTHER -> Answer("ok", m))

Fetch(n, tables) ==
  CASE n.kind = "scan" -> FetchScan(n, tables)
    [] n.kind \in {"fixed", "aggregate"} -> FetchHead(n)
    [] n.kind = "filter" -> FetchFilter(n, tables)
    [] n.kind = "join" -> FetchJoin(n, tables)
    [] n.kind = "project" -> FetchProject(n, tables)
    [] n.kind = "limit" -> FetchLimit(n, tables)
    [] n.kind = "order" -> FetchOrder(n)
    [] n.kind = "insert" -> FetchInsert(n, tables)
=============================================================================
