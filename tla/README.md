# KomfyDB in TLA+

KomfyDB is a small relational database: one process, one thread, a REPL that reads SQL,
plans it over iterators, and keeps its tables in heap files of 4096-byte pages behind a
buffer pool with LRU replacement. This directory models four parts of it: the storage
core, down to the bytes of a page, checked with TLC and proved with TLAPS; the way of a
statement from the parser's tree to the lines on the terminal, checked with TLC against
what the query means, and proved where it is about what is kept and what is shown; the
operators of a plan, call by call, checked and proved to be what their callers take them
for, and the union-find that joins the tables of a plan, likewise; and the end-to-end
test, which drives the database as a child process over two pipes and two signals,
checked and proved. Paths below are relative to the repository.

## Inventory

| Component | State | Operations | Interacts with |
|---|---|---|---|
| Heap page (`komfydb/storage/heap_page.*`) | header bits, records, `free_space`, `is_dirty` | `Create` (parse), `GetPageData` (serialise), `AddTuples`, `RemoveRecord`, `SetDirty`, `GetRecords` | called by the pool and the file |
| Heap file (`heap_file.*`) | stream and its fail bit, `file_length` | `Create`, `ReadPage`, `WritePage`, `CreatePage`, `PageCount` | called by the pool; the file system |
| Buffer pool (`buffer_pool.*`) | `page_pool`, `lru`, `pid_to_lru` | `GetPage`, `EvictPage`, `FlushPage(s)`, `InsertPage`, `InsertTuples`, `RemoveTuples`, destructor | files through the catalog; shared by all iterators |
| Table iterator (`table_iterator.*`) | page counter, copied records | `Open`, `HasNext`, `Next`, `Rewind` | `GetPage` |
| Catalog (`catalog.*`) | four maps over ids and names | `AddTable`, lookups | pool, parser, session |
| Operators (`komfydb/execution/*`) | look-ahead record, position, materialised records | `Open`, `HasNext`, `Next`, `Rewind`, `Close` | their children; pool for INSERT and DELETE |
| Logical plan (`execution/logical_plan/*`) | nodes of the query, union-find over its tables, subplans | `Add...`, `GeneratePhysicalPlan` | parser, operators |
| Parser (`parser.*`) | none | `ParseQuery` | an external SQL parser |
| Session (`database.*`, `main.cc`) | the loop, the SIGINT jump buffer | `Repl`, `TestRepl`, `CreateTable`, `LoadSchema`, SHOW | everything above |
| Executor and printing (`execution/executor.cc`, `utils/utility.cc`) | width of the terminal | `PrettyExecute`, `PythonExecute`, wrapping, frames | operators; standard output |
| End-to-end harness (`e2e_tests/komfy_database.py`, `test_runner.py`) | the two pipes, the flag its handler sets | `load`, `execute` | `TestRepl` by pipes and signals |
| Optimizer, transactions, histograms | none that changes | stubs | - |

Two processes run only in the end-to-end test, where a signal overtakes the output it
announces and a full pipe blocks its writer. Inside the database there is one thread,
and what is hard is the interplay of caches and counters that are kept by hand: a dirty
flag that decides whether a page may be dropped, a list and a map that must name the
same pages, a `free_space` next to the bits it counts, a file length that runs ahead of
the file. Each is touched by every statement, at page granularity, in orders a unit test
does not reach; and the process can die, or be left by `siglongjmp`, between any two
pages. On the query side it is the composition: a plan is a tree of stateful iterators,
any of which may be rewound under a join, built out of conditions in any order from
subplans that are moved about, and statuses are dropped in places that assume they are
good. A page is a layout computed by hand in three places (parse, dump, mark), and so is
a row on the terminal. `PROJECT.json` lists these hazards at their lines.

What makes each component correct:

- page: every tuple given to it is placed once and comes back from its image, byte
  for byte, whatever stands next to it;
- pool: pool and list name the same pages, the bound is kept, a page dropped
  unwritten is on file, and no reader sees a page older than the last change;
- file: every page it claims to have can be read;
- iterator: a scan returns every row once, whatever is evicted meanwhile;
- operators: each yields the rows of its query, once, again after every rewind;
- logical plan: every name is resolved to one column; the joins leave one plan
  over all the tables, or the query is refused;
- session: what is printed for a query is what it means, an INSERT adds what it
  should and once, a table has its rows again in a later session;
- printing: who reads the screen column by column reads the values;
- harness: what a call takes for the response is the response, all of it, and
  every call returns;
- process: after a clean exit nothing is lost; after any other end, what was
  written back remains and the files are still usable.

## Modules

| Module | What it is |
|---|---|
| `HeapPage` | the page as a value: slots, free count, dirty flag, and the operations on it |
| `HeapFile` | the files: images on disk, their length, the object's length, the fail bit |
| `BufferPool` | the machine: pool, list, running statement, life of the process; its properties |
| `TableStore` | the abstract specification: rows in memory, rows on stable storage |
| `MCBufferPool` | the instance for TLC |
| `ListLemmas` | lemmas on lists, counting and induction |
| `BufferPoolProofs` | lemmas on page operations; the theorems where every row can be written, and those that hold when some cannot |
| `PageLayout` | the bytes of a page: header bits, integers, texts, padding |
| `PageOnFile` | a page in memory and on file, with the operations of `HeapPage`: what `PageLayout` implements |
| `MCPageLayout` | its instance for TLC |
| `PageLayoutProofs` | lemmas on the bytes; that they are the page the pool works with |
| `Joining` | sequences laid end to end, in a page and on the screen |
| `Values` | values and records |
| `Operators` | the operators as records, their `Open`, `Rewind` and `Fetch` as functions on them |
| `LogicalPlan` | from a parsed statement to a tree of operators |
| `QueryMeaning` | what a query means, without operators or plans; and the lists of what is left out |
| `Printer` | the lines `Repl` draws, and how a reader takes them apart again |
| `Session` | the machine: statements, the plan being run, what is printed, sessions one after the other; what it keeps and shows |
| `Answers` | `Session` with the parser and the operators above: what it answers |
| `MCSession` | the instances for TLC |
| `SessionProofs` | lemmas on the lines drawn; the theorems of `Session` |
| `CursorState` | an operator as its caller knows it, and what each call and answer makes of it |
| `Cursor` | the abstract specification of every operator: its records once and in order, then OutOfRange, and again after a Rewind |
| `NestedLoop` | `Join` between two calls of a child; it implements `Cursor` over two of them |
| `OneChild` | `Filter`, `Project` and `Limit` between two calls of their child; they implement `Cursor` over one |
| `TableScan` | `SeqScan` and its `TableIterator` between two pages of the pool; they implement `Cursor` over a table |
| `NestedLoopProofs`, `OperatorProofs` | their theorems, those of a join in the first |
| `Subplans` | how the logical plan joins its tables: each level of `GetEquiv`, each subplan moved; it implements `JoinGraph` |
| `JoinGraph` | the abstract specification of planning: joins as edges between tables |
| `SubplansProofs` | its theorems |
| `MCCalls` | an instance of the three operators and of planning for TLC, of which one is called |
| `Harness` | the test and the database as two processes; its properties |
| `MCHarness`, `HarnessProofs` | its instances for TLC; its theorems |

`BufferPool` EXTENDS `HeapFile`, which EXTENDS `HeapPage`; `TableStore` is instantiated
by `BufferPool` under a refinement mapping. `Session` EXTENDS `Printer` and knows of a
plan only its virtual functions, as `Repl` does: the parser and they are CONSTANT
operators (`ParseQuery`, `OpIteratorOpen`, `OpIteratorNext`), of which it takes the
contract `PlansSound`. `Answers` EXTENDS it with `LogicalPlan` and `QueryMeaning`, which
EXTEND `Operators`, and its runs give the operators the values `Plan`, `Open` and `Next`
of these modules. The halves meet at a scan: `ScanReturnsTable` (proved) says that a
scan returns the rows of its table, and `Session` lets a scan read `tables`, page by
page; and at the end of a session, where `Quit` leaves in `files` what
`CleanExitKeepsRows` promises if every row can be written. `PageLayout` stands under
`HeapPage`, whose tuples are opaque: it implements `PageOnFile`, which EXTENDS
`HeapPage`. `NestedLoop` and `OneChild` use `Cursor` twice over: each child is an
instance of it, of which nothing else is known, and the operator itself implements one
(`Self`, `OpSelf`, `ScanSelf`), so that a plan of such operators over scans is put
together of what each is shown to be by itself. The names of `OneChild` and of
`TableScan` begin with `Op` and `Scan` where `NestedLoop` has the same, so that one
instance may extend all three. `Operators` has the same operators as functions, whole
calls at a time, for the plans `Session` runs, and `LogicalPlan` the planning that
`Subplans` has step by step. `Subplans` stands alone: of a subplan it knows the tables
under it. To `Harness` a statement is the number of pieces it prints and how it ends.

### How state and actions correspond to the code

`page_pool` is the map of the same name; `lru` is the list, most recent first.
`pid_to_lru` is not a variable: while a page is on the list, the iterator the map
holds is its node. When it is not (after a failed eviction), the iterator dangles,
and `HitDangling` lets `list::erase` remove any node, or none, or (`Kill`) abort.

A statement is a loop over pages or record ids, and one step is one iteration:
`InsertExisting` and `InsertNew` are the two loops of `InsertTuples`, `RemoveNext`
that of `RemoveTuples`, `ScanPage` one `LoadNextPage`, `FlushNext` one page of
`FlushPages`. An iteration evicts at most one page and changes at most one, so no
finer step is needed for a crash to fall between two writes. What the step does
to pool, list and file is composed of the operators named after the functions it
calls: `GetPage` is `Hit` or `Miss` (or `HitDangling`), `GetPageFails` its error
paths (`EvictError`, `RangeError`), and the errors leave behind exactly what the
early returns of the code leave behind: a page popped off the list but still in
the pool, a page evicted for one that turned out not to exist, a `file_length`
one page ahead.

`disk_pages` is the length of a file, `file_length` what the object believes.
`good` is the fail bit of the stream, which no code looks at: a read past the end
clears it for good, later reads parse zeros and later writes do nothing.

`Kill` is a crash at any point; it is also SIGINT during a query, whose
`siglongjmp` (`komfydb/main.cc:65`) leaves iterators on the stack that keep the
pool alive, so that its destructor never runs. `BeginFlush` .. `FlushDone` is the
clean end of the REPL.

An operator is a record of its own fields, among them `next` (the look-ahead
record `next_record`) and its children. A virtual call is a function of the record
and the tables that answers a status and the record after the call: `ok`, `oor`
(OutOfRange, the end), `error`, and `crash` where the code takes the value of an
error, or follows a pointer that was moved from. `Then` is RETURN_IF_ERROR. The
logical plan is a record of its lists; `subplans` and `equiv` are the maps of
that name, a subplan moved out is `Null`.

`Session` takes a statement in `Submit` (parsed and planned), `OpenPlan` (Open,
where sorts and aggregates read everything), one `FetchRow` per printed row and
`FinishQuery`, or in one step if it is CREATE TABLE or SHOW. The loop is
sequential, so nothing falls between these steps but the end of the process.
`width` is that of the terminal of `Repl`, and `Null` under `TestRepl`, which
draws nothing and has no SHOW; `screen` are the lines drawn, each a sequence of
characters. The header is drawn before the plan is opened, so that a column too
narrow or an empty title (`Wrappable`) ends the process there. `Quit` is the end
of the input and of the pool, `Start` the next session: `LoadSchema` and, by
CREATE TABLE, files that are there already. `Quit` waits until every row can be
written; what happens otherwise is the matter of `BufferPool`.

`Cursor` is `OpIterator` seen by a caller: a record of the rows it stands for, how
many it has fetched (`pos`), the `next_record` it holds (`next`), the last call and
its status, `busy` until it is answered. `HasNext` with nothing held is a call of
`FetchNext`, `Take` the move of `Next`; `Next` with nothing held is one after the
other. An answer may be an error at any call, and OutOfRange at `Open`, which a
table without pages gives; nobody calls an operator that has failed, nor asks it for
a record after OutOfRange before a `Rewind` (`Usable`, `Askable`), and that the
operators keep to this with their children is itself a property
(`ChildrenCalledRight`, `ChildCalledRight`).

`NestedLoop`, `OneChild` and `TableScan` have the members of the operators, and `pc`
for where a call is. A step is what happens between two calls of a child or of the
pool: `AskLeft`, `LeftRecord`, `AskRight`, `RightRecord`, `RightOver`, `RightAgain`
are the two loops of `Join::FetchNext` (`execution/join.cc:82-103`), `LeftReady` and
`RightReady` its `Open` and `Rewind`, `LeftFails` and `RightFails` the early returns.
A `Limit` counts in `AskChild`, before its child answers; `ProjectRecord` may fail or
crash half way through a record. In `TableScan` a page is loaded in `LoadPage`,
passed when it is used up in `PageOver` (the recursion of `TableIterator::HasNext`),
and `LoadFails` is the status of `GetPage`, whatever the reason. `dead` is a process
that took the value of an error in a predicate or followed a failed `dynamic_cast`.

`Subplans` has `equiv` and `subplans`, the locals of the loop in `ProcessJoinNodes`
(`execution/logical_plan/logical_plan.cc:260-285`) and the names `GetEquiv` is called
with, one in another: `Descend` is a call, `Compress` the assignment on the way back,
which makes the name refer to the root. `MoveLeft` moves the left subplan out *before*
`GetEquiv` looks for the right one, `JoinTables` is all that lies between that and
the next join, `InstatiateJoin` included, and `JoinSubquery` the same for a subquery.
`NextAlias` and `KeepRoot` are the loop of `GetSubplanRoots`, which compresses paths
too, and `Finish` what `GeneratePhysicalPlan` makes of the roots. `JoinGraph` has no
classes: it asks whether a join's tables are `Linked` by the joins before it.

`PageLayout` has the members of a page, and `image`, the page on file. `AddTuples`
and `RemoveRecord` set and clear header bits; `WritePage` is `GetPageData` and the
write, `ReadPage` an eviction and the parse of what was written. A byte is a number
below 2^`Bits`, and an integer four of them, swapped on the way to the file and
back. `ParseString` takes a C string, up to the first zero byte wherever that is,
and cuts it at the length it has read: `Beyond` is what memory may hold after the
page. A text longer than its field kills the process (`vector::insert` of a negative
count).

In `Harness` a pipe keeps order and loses nothing, so counters say what is in it:
lines `written` and `taken` on one, pieces `printed` (into the buffer of `stdout`),
`flushed` (into the pipe) and `received` on the other. `Spill` is a buffer that is
full or flushed, and waits for room in the pipe; `Write` is the parent's write, and
waits likewise; `Read` takes what is there and does not wait. `KillParent` sends
the signal of `TestRepl` (`query_done`), `GetLine` that of SYNC (`loading_done`);
both are pending or not, as signals are. `query_done_handler` runs between any two
steps of the parent, and before a system call returns to the program (`Delivered`).
`Execute` to `Judge` are the conditions of the loop in `execute`
(`e2e_tests/komfy_database.py:90`) in the order the code evaluates them.

### What is abstracted

- To the pool a tuple is opaque. A tuple in `Malformed` is one `GetPageData` fails on: a row
  with fewer fields than its table, or with a null field, which INSERT .. SELECT
  can store because it compares no types (`komfydb/parser.cc:426`).
- All tables have rows of the same width, `NumSlots` to a page.
- A slot whose bit is clear is `Empty`; the stale record the code keeps there is
  never looked at.
- A write reaches the file at once: a 4096-byte write goes through the stream
  buffer of libstdc++ unbuffered.
- `MaxPages` bounds a file; an INSERT starts only if its tuples fit in that bound
  (`Fits`), which stands for a disk that is large enough.
- `RemoveTuples` takes any record ids, not only those a scan of the table found.
- In `Session` the rows of a table are a sequence, new ones at its end, `PageRows`
  to a page; sums are far from 2^31; a text is a prefix of one word without
  repeated letters, so that order and containment are those of its length.
- `Spelled` gives a name its letters and `Word` those of a text; a decimal has its
  digits. A file is opened again with the columns it was written with.
- The reading and writing of a pipe is in pieces and lines, not bytes; what a piece
  says is its place in the output. SQLite's answer is taken to be the whole response
  (`Whole`): `Judge` ends the test on any other.
- The order of a hash map is one of two, that of first appearance and its reverse.
  `std::sort` is a stable sort; equal keys may come otherwise, which no property
  depends on.
- To `NestedLoop` and `OneChild` a record is opaque, and a predicate, a projection
  and their ways to fail are operators of it (`Filter`, `Evaluate`, `Copies`,
  `Image`); a limit is not negative, as it is only then applied
  (`logical_plan.cc:396`). To `TableScan` the rows of the table stay as they are: an
  INSERT drains its child first (`execution/insert.cc:73`).
- To `Subplans` a join is its two tables, or a table and a subquery: columns are
  there and of one type, as `AddJoin` and `CompareTypes` have checked
  (`logical_plan.cc:93`, `parser.cc:207`), and `OrderJoins` keeps the order. A
  subquery's plan may fail or end the process; what it plans is its own.
- The statement is the parser's tree; a list of conditions stands for AND.

### What the queries are held against, and what is left out

`QueryMeaning` evaluates a query over all choices of a row from each table. The
condition on a subquery is a join with its rows, as the comment at
`komfydb/parser.cc:175` has it (SQL would want a single value). Where the program
is known to mean something else, and no document says otherwise, `Plain` (for the
answer) and `Supported` (for being answered) leave the query out; the model
has the behaviour all the same:

- LIKE with the literal on the left is swapped (`parser.cc:224`); GROUP BY
  without an aggregate is ignored (`logical_plan.cc:388`); a bare column next to
  an aggregate takes the first row's value; AVG without GROUP BY is the sum
  (`aggregate.cc:158`).
- An aggregate of no rows without GROUP BY is a row of unset fields, which cannot
  be printed or compared (the run `subquery`).
- `*` yields the columns in the order of the joins (rows are compared by the names
  of their columns), a subquery's among them; these keep their aliases and can be
  taken for columns of the query around it (`op_iterator.cc:31`).
- INSERT .. SELECT does not check its rows, and what reads such rows may end the
  process. MAX and MIN of a text column are typed INT (`aggregate.cc:95`).
- A subquery under LIMIT has no one meaning; one with ORDER BY ends the process
  when it is rewound (`order_by.cc:51`).
- Two conditions on one pair of tables, and tables not joined, are refused with
  an error that says so; conditions that close a cycle end the process
  (`logical_plan.cc:265`), which `PlanMatchesGraph` states. A table without a page
  cannot be opened (`table_iterator.cc:48`).

## Model checking

| Run | Instance | Question |
|---|---|---|
| `evict` | 1 table, 3 pages of 1 row, pool of 2, tuples a, b | the invariants, with `IInv` as the inductive one, when every statement evicts |
| `tables` | 2 interchangeable tables, 2 pages of 2 rows each, pool of 1, one tuple | batches that fill, straddle and reuse pages, and tables that evict each other's; `BufferPool` implements `TableStore` |
| `malformed` | as `evict`, one of two tuples cannot be written; fairness | what survives when evictions fail: no bad image reaches a file, the list stays within the pool (`FaultInv` is the inductive one); statements and the shutdown end |
| `clean_exit` | as `malformed` | violated on purpose, of a row that could be written: see below |
| `queries` | tables of 3, 2 and 3 rows, 2 to a page, repeated values; one query of several thousand | what is printed is what the query means (`AnswerCorrect`), ORDER BY and LIMIT agree (`OrderKept`), a supported query is answered (`SupportedAnswered`), cycles and unjoined tables (`PlanMatchesGraph`), nothing is printed for what is no query (`OnlyQueriesAnswered`); plans keep the contract of `Session` (`PlansSound`) |
| `inserts` | the same tables, or none and their files; three statements in a row, in one session or several; `TestRepl` and terminals of 5 and 14 columns | an INSERT adds what it should, once, also into the table it reads (`InsertExact`); rows outlive the session and a CREATE TABLE of an old name (`RowsKept`); the screen is one frame (`ScreenAligned`) and says what was fetched (`ScreenTells`); `PlansSound` also for inserts |
| `grouped` | GROUP BY with ORDER BY | violated on purpose: see below |
| `subquery` | a subquery that aggregates some rows or none | violated on purpose: see below |
| `bytes` | bytes of 2 bits, pages of 3 slots that fill the page, an integer and a text of 1, 2 and 3 where 2 fit | an image is a page long (`ImageIsPage`), a text is read without leaving its field (`ReadsInside`), and the bytes are a page as the pool has it (`ImplementsPage`) |
| `plans` | a join over every pair of children of up to 2 records of 3, with a predicate that is neither symmetric nor always defined; a filter, a projection or a limit of 0 to 3 over up to 3 records of 4, one of them with a field not set and one with a field of another type; a scan of up to 3 pages of up to 2 records, among them no page and empty pages; the planning of up to 3 joins of 4 tables with each other and with subqueries; fairness | each operator is a cursor (`JoinIsCursor`, `OneChildIsCursor`, `ScanIsCursor`) and calls its children as cursors (a part of each); what is planned depends on the joins as edges (`PlannedByGraph`); every call is answered and planning ends (`EveryCallReturns`); `IInv`, `OpIInv`, `ScanIInv`, `PlanIInv` are the inductive invariants |
| `calls` | scripts and queries of up to 2 lines, refused, silent, long and fatal ones; capacities below | a response is whole (`ResponseWhole`), nothing is left over between calls (`QuietBetweenCalls`), `load` and `execute` return |
| `long_script` | a script that prints more than the pipe holds | violated on purpose: see below |

The bounds: one page more than the pool is what it takes for every statement to
evict, two rows per page what it takes for a page to be partly full, two tuples
per batch what it takes for a batch to straddle two pages, two tables what it
takes for one statement to evict another table's page (with a pool of one page every
page asked for evicts). The invariants relate at
most two pages at a time; the proofs below remove the bounds altogether.

The queries: every comparison both ways round, up to three tables with up to
three conditions in every order (enough for a chain joined at either end, a
cycle, a repeated pair and a table left apart), each aggregate over no, one and two
grouping columns, subqueries with filters, groups and a subquery of their own
under one or two joins, and unknown tables, aliases, columns, functions and
mismatched types. Three rows make a second page, repeated values make joins and
groups of more than one row. Three statements are a CREATE TABLE, an INSERT and
what reads it, or an INSERT twice.

The bytes: with 2 bits to a byte a header of 3 slots takes two bytes, so a bit is
looked up beyond the first; slots and header fill the page exactly, so that the
last text is read past its end; integers are of either sign, the least among them;
texts are shorter than, as long as and longer than their field, which ends
the process (and is why the run does not look for deadlock).

The screen: 5 columns are too few for two columns of any text (the process ends),
enough for one whose values are then cut into letters; 14 take one or two columns,
cut and not cut.

The operators: two records on the right take a second pass to tell a left record
joined twice from one joined once, and two on the left take a rewind between them;
limits are below, at and above the number of records; three pages have an empty one
first, in the middle, last, or two in a row. The caller rewinds at any time it may,
and each child may fail at each call; since after a failure nothing is called and a
caller may stop, the run does not look for deadlock. One of the three operators, or
planning, is called in a behaviour, and the others stay as they are: they share nothing.

The joins: on four tables three joins make a chain, a star, or a cycle and a table left
apart, and two of them two pairs; two can make a path of two names, which the third
compresses, on its left or on its right, while a subplan is in hand. No two joins are of
the same tables, which `AddJoin` refuses.

The harness: 2 lines fit in the child's input, 4 pieces in its output and 2 in its
buffer, and a read takes 3, so that a response takes several reads, a buffer spills
in the middle of one, a read ends in the middle of one, and the parent's writes
block. Scripts print at most what the pipe holds, except in `long_script`.

Fairness: `FairSpec` is weak fairness of the running statement and of the
shutdown. The process is one thread and the code never waits, so a loop that has
begun takes its next iteration unless the process is killed. Nothing is assumed
about new statements, kills or restarts. In the modules of the operators it is weak
fairness of `Step`, for the same reason: a call that is made runs to its answer, its
children's calls included (each answers, as `EveryCallReturns` says of it in turn), and
the caller need not make another; and in `Subplans` of the one call that plans. In
`Harness` it is weak fairness of the
child, of the parent and of the handler: two processes the system schedules, and
a pending signal that is delivered; neither is assumed to find a pipe with room.

`clean_exit` shows a disagreement of the code with itself. The destructor of the
pool drops the status of `FlushPages`, which returns at the first page it cannot
write, and then logs "All pages flushed." (`komfydb/storage/buffer_pool.cc:15-20`,
`:72`). The property asks nothing of malformed rows, which no page image can hold. In
the run's trace one INSERT adds a good row and a malformed one, to a page each; the
flush meets the page of the malformed row first and returns, and the good row is gone.

`grouped`: ORDER BY is stacked below the aggregation, which forgets the order
(`execution/logical_plan/logical_plan.cc:385`), although an end-to-end test orders
groups and compares them with SQLite's (`e2e_tests/test_queries.sql:7`).

`subquery`: `JoinPredicate::Filter` takes the values of its fields, assuming "all
the values are correct" (`execution/join_predicate.cc:12`); an aggregate of no
rows has none, so `WHERE k = (SELECT MAX(k) FROM u WHERE ...)` ends the process
when no row of `u` qualifies.

`long_script`: `load` is to "load database from sql file"
(`e2e_tests/database.py:11`), but it writes all of the file before it reads, while
the child answers every statement: once the answers fill the pipe the child waits
for the parent and takes no more lines, and the parent waits for the child in
`write` or in `sigwait`. An INSERT answers 10 bytes, so this takes some 6600 of
them on a pipe of 64 KiB.

## Proofs

### The pool

`BufferPoolProofs` proves, for every number of tables,
pages, slots, pool pages and tuples, each invariant the runs check. Those that hold
whatever rows are stored (`FaultInv`: types, `FreeSpaceExact`, `LruSound`,
`HeldPagesCached`, `FileWellFormed`) need no assumption. The others, `[]IInv`,
`ScanReturnsTable` and that `Spec` implies `Store!Spec`, are proved under the
assumption that no tuple is malformed: with malformed tuples they are false, as
`PoolExact` fails once an eviction does.

The argument. None of the interesting invariants is inductive alone:
`CleanPagesOnFile` needs every rewrite to set the flag and every read to come
from a file long enough (`NoPageLost`); that needs each new page to be cached
until it is written (`PoolExact`, since a page off the list would never be
evicted, and one evicted must be cached) and the list to name cached pages only
(`LruSound`); `AddTuples` places all it is given only if `FreeSpaceExact`;
a scan is right only if what it has copied agrees with the pages it has passed
(`ScanSound`), which no eviction may change. `IInv` is their conjunction with type
correctness, `LengthsAgree`, and `StatementSound`, which ties the local variables
of a statement to its mode. `Invariance` is proved from three facts: `Init`
implies `IInv`, every action preserves it (one lemma per action), and stuttering
does. The lemmas about `GetPage` and `InsertPage` are shared: each says what the
pool, the files and the visible contents are after the call, so that the proofs of
the actions speak of rows and not of lists. The step lemmas prove at the same
time that the action is a step of `TableStore`, which gives `Refinement`.

The argument for `FaultInv` is another, for after a failed eviction the list names
only some of the cached pages, and `erase` of a dangling iterator may take any node
off it. What is left is that the list names *cached* pages, each once: a page comes
to its front when it was not on it, or its own node is erased, and a page that is
dropped was its last. `CreatePage` counts up from `file_length`, and every cached
page is below that, so a new page cannot be on the list either. Only a page without
malformed tuples gets past `WriteFails` to a file.

`ListLemmas` has what moving to the front, dropping the last and pushing do to a
list without repetitions; the first part of `BufferPoolProofs` what adding and
removing do to the free slots of a page.

### The bytes of a page

`PageLayoutProofs` proves, for every byte width, page size, schema and set of
rows, the three properties the run `bytes` checks: an image is a page long
(`ImagesArePages`), a text is read without leaving its field (`TextsEndInside`), and
the bytes are a page as the pool has it (`BytesImplementPage`: every step of
`PageLayout` is a step of `PageOnFile` or a stutter). The assumptions are those of
the module: sizes are what the types make them (`SizesAssumption`); a row has the
fields of its table, integers of four bytes and texts without a zero byte, as they
come from C strings (`RowAssumption`); and what memory holds after the page are
bytes (`BeyondAssumption`).

The inductive invariant (`IInv`) says of the page in memory that its header has a bit
for every slot and that `free_space` counts those that are clear, without which the
loop of `AddTuples` would end before all tuples have a slot; and of the image that
behind every bit that is set stands the dump of some row, no text of it longer than
its column. Such a row is read back the same *whatever stands next to it*: that is
what the second half of the argument shows, since a text is taken up to the first
zero byte wherever it is and then cut, and the padding of the field ends it or the
cut does.

It rests on these lemmas: setting or clearing one bit of a byte
leaves its others (`Marked`, `Freed`), dumped integers and texts are read back
(`FieldRead`), pieces of given lengths laid end to end are found again at their
offsets (`JoinedPieces`), and the loop over the slots fills the free ones in order
(`FilledPlacing`). Header and slots fit in a page (`SlotsFit`, so the padding is never
negative), and a page has no slot exactly when a row is as wide as the page
(`NoSlotForWideTuples`: for those rows the second loop of `InsertTuples` would not
end).

Powers of two, the loops and the concatenations are recursive functions; what the
lemmas need of them is an induction, which the provers cannot take from the library.
`ListLemmas` replaces it: a set of naturals that is not empty has a least element
(`LeastNatural`), hence a set that holds zero and every successor is all of them
(`SetInduction`), and a recursive function exists by its finite iterations (`Iterate`).

### The session and the screen

`SessionProofs` proves, for every database, terminal, set of statements and number
of them, what a session keeps and shows: the shape of its state (`SessionTyped`);
that no statement, end or start of a session loses or changes a row
(`RowsAreKept`); that the lines of the screen are one rectangle, no wider than the
terminal under a query (`ScreenIsAligned`); and that who reads the screen finds what
was fetched (`ScreenIsTrue`). The assumptions are that names and texts have no space
in them, and a name a character at least (`PrinterAssumption`: a value that ends in
a space cannot be told on the screen from one that does not), and that statements
and databases are of their types (`SessionAssumption`).

The parser and the operators are any at all that keep a contract, `PlansSound`: a
plan has columns that can be printed, keeps them when it is opened and while it
runs, and fetches and inserts records. The last three theorems have `[]PlansSound`
as a hypothesis. It is not proved, because the operators are recursive, but it is an
invariant of the runs `queries` and `inserts`, with the operators there are; that a
record has all the columns announced is not among it, for `Repl` looks at each field
it prints and the process ends at one that is missing.

The argument for the rows is `Stored`: rows and files are records, and every table
declared has a name that can be printed. `Quit` and `Start` move rows between
`tables` and `files`, so what is kept is the rows of a table wherever they are.

The argument for the screen is longer. `ScreenTells` speaks of a screen that is
complete, and no step completes it at once: the header is drawn before the plan is
opened, a row with each fetch, the last line break at the end. `Screened` says what
the screen is in between, `Drawing`: a frame but for its last line break, that shows
the titles and the records fetched so far. One lemma each says that the header opens
a frame, a row keeps it open (`RowDrawn`) and the line break closes it.

A frame (`Framed` in `SessionProofs`) is a list of places where the line breaks are,
with lines between them that hold a text per column: the r-th line has the r-th
piece of each text, or blanks. The lemmas on the printer follow the lines back to the
text: the pieces `WrapWord` cuts are consecutive and fill the word (`Pieces`,
`WrappedJoins`); a piece padded to its column is found between the borders, and the
blanks cut off are those that were put there (`BorderedCell`, `CellRead`), which
needs that no piece ends in a space (`PieceFits`); the lines of a row hold its
pieces (`LinesHold`) and read column by column give the texts again (`HoldTells`);
a line break is told from a line of texts by its first character; and a frame whose
n-th row is appended is a frame of n rows (`FramedStep`), in which a reader finds the
n rows (`FramedTells`). `Fitting` is the arithmetic of the widths: columns of
(width - 1) / n characters each, borders included, fit in the terminal.

### The operators

`NestedLoopProofs` and `OperatorProofs` prove that a join, a filter, a projection, a
limit and a scan are cursors: for all records, predicates,
limits and tables, whatever the children stand for, however the caller calls and
whichever call fails (`JoinRefines`, `OperatorRefines`, `ScanRefines`). Of a child
only `Cursor` is assumed, and that its parent makes no other calls of it than a
cursor's caller may is proved too (both theorems `CalledRight`). So what is proved of
a scan is what a filter over it needs, what is proved of the filter is what a join
needs of each side, and so on up the plan. The assumptions are that no record is the
null pointer and that a projection's copies are records (`OneChildAssumption`).

What the operator has fetched is not counted in the code. The refinement mapping
says it: a join stands behind all pairs of the left records it is done with, and
those of the current one with the right records it has passed (`Position`); a scan
behind all records of the pages it has loaded less those still in hand; a filter
behind what it made of the records its child has given. `JoinedLen` is how much the
first pieces of a list of pieces make, and the lemmas `JoinedLens` and `JoinedAt` of
`ListLemmas` are the arithmetic: a piece adds its length, and the k-th record of the
n-th piece stands k places behind the pieces before it. With them a step that finds a
match moves the position by one, to that match, a step that finds none leaves it, and
the end of the right child's records is where the next left record's begin.

None of this holds unless operator and children agree where they are, and that is the
inductive invariant (`IInv`, `OpIInv`, `ScanIInv`: the types, and `InStep`,
`OpInStep`, `ScanInStep`). In a join the record kept from one call to the next
is the last the left child gave (`Recorded`); while the left child is asked the right
one stands at its first record (`AtLeft`), without which pairs would be lost; after a
`Rewind` no left record is kept, and at OutOfRange the left child is at its end
(`AtRest`), without which pairs would come twice or be left out. A limit has counted
what its child has given, and one more while it asks. In a scan the records in hand
are the last of the page loaded last (`LeftOf`), and OutOfRange is answered behind
the last page only. One lemma per action says that it keeps the invariant and is a
step of the `Cursor` the operator implements, or none of its caller's concern.

### The union-find of a plan

`SubplansProofs` proves, for every finite set of tables and every list of joins, that
planning is `JoinGraph` (`PlanRefines`): the result is a plan over *all* tables exactly
when the joins link them all, an error when they leave some apart, and the end of the
process at a join inside a class, in whatever order the joins come and whatever
`GetEquiv` has rewritten on the way. The assumption is that there is a table and that
joins are between tables of the query (`AliasAssumption`, `JoinListsAssumption`).

The inductive invariant (`PlanIInv`, theorem `SubplansWhole`) holds while planning is
busy. `OneSubplanEach` says that the subplans are a partition of the tables: each table
is under one, that of a root, a name that refers to itself, and it refers to a table
under the same; what is not a root has the null pointer. This is of no use unless a
subplan in hand counts as well: `Held` is the map, or `lsubplan` from the time it is moved
out of the map until it is joined. `SubplansJoined` says that the classes are those of
the joins made: no join leads out of a class, and a set that no join leads out of is made
of whole classes. The rest is about where `GetEquiv` is: the names it has gone through
are no roots and of one class with the name it is at (`PathSound`), so that compressing
changes no class and no root; that class is the one of the table the join names
(`StartSound`); the root whose subplan is in hand is still a root, with nothing in the map,
after the second `GetEquiv` (`HandSound`); and the roots passed are kept (`RootsSound`).
`equiv` has no cycle but those of length one, or `GetEquiv` would not end; the invariant
does not say so, and that it ends is checked only.

The step that matters is `JoinTables`. If the roots differ, the two classes become one
(`UnitedClasses`), and the class of the left table, which no join leads out of, shows
that the two were not linked; if they are one, the class itself shows that they were,
and the right subplan is the null pointer the left one has left (`JoinTablesCases`).
`LinkedIsOneClass` is the bridge to the graph and `OneRootIsAll` the end: one root is left
exactly when all tables are linked, and its subplan is over all of them.

### The harness

`HarnessProofs` proves for every script, list of queries and capacity that no pipe
overflows (`HarnessTypeCorrect`), that a response is whole (`WholeResponses`) and that
nothing is under way between calls (`QuietKept`). Neither of the last two is inductive.
`IInv` adds, for each place the child can be in, where its output stands (`ChildSound`),
and for each place the parent can be in, what that allows of the child, of both signals
and of the counters (`LoadSound`, `CallSound`): the flag is up only if the child has
flushed its response and waits for a line, so a read after it has seen the flag finds
all that is left; and SYNC is the last line of a script, so its signal finds the
script's output flushed, and the reads of `load` leave none of it.

### Only model-checked

Liveness (`StatementsReturn`, `ShutdownEnds`, `EveryCallReturns`, `LoadReturns`,
`ExecuteReturns`), which is out of the prover's reach; and what is printed for a query
as against what it means, with the contract of the plans (`AnswerCorrect`, `OrderKept`,
`SupportedAnswered`, `PlanMatchesGraph`, `OnlyQueriesAnswered`, `InsertExact`,
`PlansSound`): plans are trees, and the functions on them recursive operators. The
theorems on cursors are each about one operator, and `PlanRefines` about tables, not
about the operators over them; that a tree of them is one is the reader's step from
child to parent, which the run `queries` takes for the plans it has. Sorting,
aggregation, INSERT and the lists they hand out are in the runs only: an ORDER BY is no
cursor, for its `Rewind` is broken (`order_by.cc:51`), and is therefore no child the
theorem on joins speaks of.

## Not modelled

- SQL's syntax (an external parser), a schema file's syntax, the statements that
  nothing implements, EXPLAIN, log messages.
- `Delete`, which no statement makes (`komfydb/parser.cc:533`); in the storage model
  `RemoveTuples` is there.
- Statistics and join order: the statistics are stubs that return constants,
  nothing in a session asks for them, and `OrderJoins` returns the joins as they are.
  Transactions: an identifier. The before-image of a page: nothing reads it. Status
  utilities: early returns, which the models have as statuses. The encoder and the
  generators of test data: tools.
- Rows as wide as a page, a file of 4 GiB: the first ends in the loop described
  above, the second is beyond any instance.
- Several table iterators over the pool at once. Each copies the rows of a page when
  it loads it, `ImplementsStore` says that no `GetPage` changes what any other
  reader sees, and `ScanIsCursor` that a scan needs no more than that.
- A caller that goes on after an error, or asks after OutOfRange: no code does.
- In `Harness`, a child that dies while the parent waits: `load` then waits for a
  signal, and `execute` reads, for ever, which is why `ExecuteReturns` excepts it and
  no script of `calls` ends the child. A query without a newline, which the child
  never gets.

## Plan

1. Several scans of one table over a small pool as an instance of its own, in the
   place of the tables of `TableScan`.
2. `OrderBy`, `Aggregate` and `Insert` call by call, as `OneChild` has the operators
   that keep no list.
3. The columns under a subplan in `Subplans`, a subquery's among them, so that a
   reference may find the wrong one.
4. EXPLAIN, as a function from a plan to the nodes it prints.
