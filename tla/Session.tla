------------------------------ MODULE Session ------------------------------
(***************************************************************************)
(* The statements of a session (src/komfydb/database.cc, Repl and          *)
(* TestRepl; execution/executor.cc): a statement is parsed and planned,    *)
(* its plan opened, its records fetched and printed one at a time.  When   *)
(* the session is over another may follow.  The rows are where BufferPool  *)
(* leaves them for the scans, and in the files when the session has ended; *)
(* how they get there is BufferPool's matter.                              *)
(***************************************************************************)
EXTENDS Printer

CONSTANTS
  Statement,      \* the statements that may be given
  Database,       \* [catalog, files]: the schema file and the heap files
  Terminal,       \* widths of the terminal of Repl; Null for TestRepl
  MaxStatements   \* bound on the statements of a session

\* Parser::ParseQuery, which makes the plan of a statement to execute, and the
\* virtual functions of a plan; each answers a status and the plan after it.
CONSTANTS
  ParseQuery(_, _, _),
  OpIteratorOpen(_, _),
  OpIteratorNext(_, _)

Executed == {"select", "insert", "values"}
Kind == Executed \cup {"create", "show_tables", "show_columns"}

ASSUME SessionAssumption ==
  /\ MaxStatements \in Nat
  /\ Null \notin Statement
  /\ \A s \in Statement :
       /\ s.kind \in Kind
       /\ s.kind = "create" => s.table \in DOMAIN Spelled /\ IsDesc(s.cols)
  /\ \A d \in Database :
       /\ IsFiniteSet(DOMAIN d.catalog)
       /\ DOMAIN d.catalog \subseteq DOMAIN d.files \cap DOMAIN Spelled
       /\ \A t \in DOMAIN d.catalog : IsDesc(d.catalog[t])
       /\ \A t \in DOMAIN d.files : d.files[t] \in Seq(Record)
  /\ \A w \in Terminal \ {Null} : w \in Nat

VARIABLES
  schema,      \* the tables every session starts with
  width,       \* of the terminal, Null under TestRepl
  files,       \* rows in the heap files, since the last clean exit
  catalog,     \* the columns of each table: Seq([name, type])
  tables,      \* the rows of each table
  phase,       \* "ready", "planned", "open", "down"; "crashed" for good
  statement,   \* the last one given, Null before the first
  before,      \* tables when it was given
  node,        \* the root of its plan
  output,      \* the rows printed for it
  screen,      \* the lines the Repl drew for it
  answer,      \* its status: "none" so far, "ok" or "error"
  given        \* statements given so far

setting == <<schema, width>>
vars == <<setting, files, catalog, tables, phase, statement, before, node,
          output, screen, answer, given>>

Phase == {"ready", "planned", "open", "down", "crashed"}

\* What the variables may hold; a plan ready to open has printed nothing and
\* changed nothing, and a session ready for a statement has answered the last.
TypeOK ==
  /\ DOMAIN tables = DOMAIN catalog
  /\ phase \in Phase
  /\ statement # Null => statement.kind \in Kind
  /\ width = Null => screen = <<>>
  /\ answer \in {"none", "ok", "error"}
  /\ given \in 0 .. MaxStatements
  /\ phase = "planned" => output = <<>> /\ tables = before
  /\ phase = "ready" => (answer = "none" <=> statement = Null)

\* The catalog and the rows of a session that has no table.
NoTables == [t \in {} |-> <<>>]

\* The rows of a file; one that is not there is made, empty.
RowsOf(t) == IF t \in DOMAIN files THEN files[t] ELSE <<>>

Init ==
  /\ \E d \in Database :
       /\ schema = d.catalog /\ files = d.files
       /\ catalog = d.catalog
       /\ tables = [t \in DOMAIN d.catalog |-> d.files[t]]
  /\ width \in Terminal
  /\ phase = "ready"
  /\ statement = Null
  /\ before = Null
  /\ node = Null
  /\ output = <<>>
  /\ screen = <<>>
  /\ answer = "none"
  /\ given = 0

\* A statement is taken up when the one before it is done with.
Take(s) ==
  /\ phase = "ready"
  /\ given < MaxStatements
  /\ given' = given + 1
  /\ statement' = s
  /\ before' = tables
  /\ output' = <<>>

\* Mutant: a table starts without rows.
Opened_Empty(t) == <<>>

\* HeapFile::Create opens the file that is there.
Opened(t) == RowsOf(t)

\* A function with one more value.
Put(f, t, x) == [u \in DOMAIN f \cup {t} |-> IF u = t THEN x ELSE f[u]]

CreateTable(s) ==
  IF s.table \in DOMAIN catalog
  THEN answer' = "error" /\ UNCHANGED <<catalog, tables>>
  ELSE /\ answer' = "ok"
       /\ catalog' = Put(catalog, s.table, s.cols)
       /\ tables' = Put(tables, s.table, Opened(s.table))

\* CREATE TABLE, done at once.
Create ==
  \E s \in Statement :
    /\ s.kind = "create"
    /\ Take(s)
    /\ CreateTable(s)
    /\ screen' = <<>>
    /\ UNCHANGED <<setting, files, phase, node>>

\* The names of the tables, in the order of a hash map.
TableNames ==
  LET names == SetToSeq(DOMAIN catalog) IN {names, Reverse(names)}

\* SHOW TABLES; of no tables the longest name is looked for past the end.
ShowTables ==
  \E s \in Statement :
    /\ s.kind = "show_tables"
    /\ Take(s)
    /\ \/ width = Null /\ screen' = <<>> /\ answer' = "error" /\ phase' = phase
       \/ /\ width # Null /\ DOMAIN catalog # {}
          /\ \E names \in TableNames : screen' = PrettyShowTables(names)
          /\ answer' = "ok" /\ phase' = phase
       \/ /\ width # Null /\ DOMAIN catalog = {}
          /\ phase' = "crashed" /\ answer' = "none" /\ screen' = <<>>
    /\ UNCHANGED <<setting, files, catalog, tables, node>>

\* SHOW COLUMNS; TestRepl has neither.
ShowColumns ==
  \E s \in Statement :
    /\ s.kind = "show_columns"
    /\ Take(s)
    /\ IF width # Null /\ s.table \in DOMAIN catalog
       THEN screen' = PrettyShowColumns(catalog[s.table]) /\ answer' = "ok"
       ELSE screen' = <<>> /\ answer' = "error"
    /\ UNCHANGED <<setting, files, catalog, tables, phase, node>>

\* Any status but ok ends the statement before it prints a thing.
Goes(r, next) ==
  /\ node' = r.node
  /\ phase' = CASE r.st = "ok" -> next
                [] r.st = "crash" -> "crashed"
                [] OTHER -> "ready"
  /\ answer' = IF r.st \in {"ok", "crash"} THEN "none" ELSE "error"

\* The hash map orders the groups.
Submit ==
  \E s \in Statement, order \in {"seen", "reversed"} :
    /\ s.kind \in Executed
    /\ Take(s)
    /\ Goes(ParseQuery(s, catalog, order), "planned")
    /\ screen' = <<>>
    /\ UNCHANGED <<setting, files, catalog, tables>>

WidthOf(cols) == ColumnWidth(width, Len(cols))

\* The Repl draws the header before it opens the plan.
OpenPlan ==
  /\ phase = "planned"
  /\ \/ /\ width = Null
        /\ Goes(OpIteratorOpen(node, tables), "open")
        /\ UNCHANGED screen
     \/ /\ width # Null
        /\ Wrappable(GetFieldNames(node.cols), WidthOf(node.cols))
        /\ Goes(OpIteratorOpen(node, tables), "open")
        /\ screen' = GetTableHeader(node.cols, WidthOf(node.cols))
     \/ /\ width # Null
        /\ ~Wrappable(GetFieldNames(node.cols), WidthOf(node.cols))
        /\ phase' = "crashed"
        /\ UNCHANGED <<node, answer, screen>>
  /\ UNCHANGED <<setting, files, catalog, tables, statement, before, output,
                 given>>

\* PrintRecord and GetTupleLines take the value of each column, set or not.
Printable(row, cols) ==
  /\ \A i \in DOMAIN cols : Field(row, i) # Null
  /\ width # Null => Wrappable(GetFieldTexts(row, cols), WidthOf(cols))

\* The tables once a record is fetched.
Added(r) ==
  IF node.kind = "insert"
  THEN [tables EXCEPT ![node.table] = @ \o r.node.added]
  ELSE tables

FetchRow ==
  /\ phase = "open"
  /\ \E r \in {OpIteratorNext(node, tables)} :
       /\ r.st = "ok"
       /\ node' = r.node
       /\ tables' = Added(r)
       /\ IF Printable(r.rec, node.cols)
          THEN /\ output' = Append(output, SubSeq(r.rec, 1, Len(node.cols)))
               /\ screen' = IF width = Null THEN screen ELSE
                    screen \o GetTupleLines(r.rec, node.cols, WidthOf(node.cols))
               /\ phase' = phase
          ELSE /\ phase' = "crashed"
               /\ UNCHANGED <<output, screen>>
  /\ UNCHANGED <<setting, files, catalog, statement, before, answer, given>>

\* The loop ends at any other status, an error or not.
FinishQuery ==
  /\ phase = "open"
  /\ \E r \in {OpIteratorNext(node, tables)} :
       /\ r.st # "ok"
       /\ node' = r.node
       /\ IF r.st = "crash"
          THEN phase' = "crashed" /\ UNCHANGED <<answer, screen>>
          ELSE /\ phase' = "ready" /\ answer' = "ok"
               /\ screen' = IF width = Null THEN screen ELSE
                    Append(screen,
                           GetLineBreak(WidthOf(node.cols), Len(node.cols)))
  /\ UNCHANGED <<setting, files, catalog, tables, statement, before, output,
                 given>>

\* A row the file can hold.
Storable(t, row) ==
  /\ Len(row) = Len(catalog[t])
  /\ \A i \in DOMAIN row : row[i] # Null

NoStatement ==
  /\ statement' = Null /\ before' = Null /\ node' = Null
  /\ output' = <<>> /\ screen' = <<>> /\ answer' = "none"

\* The input ends and the pool writes everything back; a row it cannot write
\* stops that, which is BufferPool's matter.
Quit ==
  /\ phase = "ready"
  /\ \A t \in DOMAIN tables : \A row \in ToSet(tables[t]) : Storable(t, row)
  /\ files' = [t \in DOMAIN tables \cup DOMAIN files |->
                 IF t \in DOMAIN tables THEN tables[t] ELSE files[t]]
  /\ catalog' = NoTables /\ tables' = NoTables
  /\ NoStatement
  /\ phase' = "down"
  /\ UNCHANGED <<setting, given>>

\* Database::Create and LoadSchema.
Start ==
  /\ phase = "down"
  /\ catalog' = schema
  /\ tables' = [t \in DOMAIN schema |-> Opened(t)]
  /\ phase' = "ready"
  /\ UNCHANGED <<setting, files, statement, before, node, output, screen, answer,
                 given>>

NextStep ==
  \/ Create \/ ShowTables \/ ShowColumns
  \/ Submit \/ OpenPlan \/ FetchRow \/ FinishQuery
  \/ Quit \/ Start

Spec == Init /\ [][NextStep]_vars

-----------------------------------------------------------------------------
(* What a session shows.                                                   *)

Answered == phase = "ready" /\ answer = "ok"

\* What the loop relies on: a plan keeps its columns when it is opened and
\* while it runs, and its records, those inserted among them, are records.
PlansSound ==
  /\ phase \in {"planned", "open"} => IsDesc(node.cols)
  /\ phase = "planned" =>
       OpIteratorOpen(node, tables).node.cols = node.cols
  /\ phase = "open" =>
       \E r \in {OpIteratorNext(node, tables)} :
         /\ r.node.cols = node.cols
         /\ r.st = "ok" => r.rec \in Record
         /\ r.st = "ok" /\ node.kind = "insert" =>
              r.node.added \in Seq(Record)

\* Every line drawn is as long as the others: the frame is one rectangle, no
\* wider than the terminal when a query is printed.
ScreenAligned ==
  \A i \in DOMAIN screen :
    /\ Len(screen[i]) = Len(screen[1])
    /\ node # Null /\ statement.kind \in Executed =>
         Len(screen[i]) <= width

\* Who reads the screen column by column finds the titles and the rows that
\* were fetched, whatever was wrapped; SHOW lists each table once, by its
\* whole name.
ScreenTells ==
  width # Null /\ Answered =>
    /\ statement.kind \in Executed =>
         Told(screen, Len(node.cols), WidthOf(node.cols)) =
           <<GetFieldNames(node.cols)>>
           \o [i \in DOMAIN output |-> GetFieldTexts(output[i], node.cols)]
    /\ statement.kind = "show_tables" =>
         LET shown == SubSeq(screen, 4, Len(screen) - 1)
             NameIn(line) == CellText(line, 1, Len(line) - 2)
         IN /\ {NameIn(shown[i]) : i \in DOMAIN shown}
                 = {Spelled[t] : t \in DOMAIN catalog}
            /\ Len(shown) = Cardinality(DOMAIN catalog)
    /\ statement.kind = "show_columns" =>
         Told(screen, 1, Len(screen[1]) - 2)
           = <<<<DescText(catalog[statement.table])>>>>
    /\ statement.kind = "create" => screen = <<>>

\* The rows of a table, declared in this session or not.
RowsAnywhere(t) == IF t \in DOMAIN tables THEN tables[t] ELSE RowsOf(t)

\* Rows are only ever added: no statement, end or start of a session loses
\* or changes one, also of a table the next session does not declare, or
\* declares again by CREATE TABLE.
RowsKept ==
  [][\A t \in DOMAIN tables \cup DOMAIN files :
       IsPrefix(RowsAnywhere(t), RowsAnywhere(t)')]_vars
=============================================================================
