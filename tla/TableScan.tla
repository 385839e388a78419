----------------------------- MODULE TableScan -----------------------------
(***************************************************************************)
(* SeqScan and its TableIterator, call by call: the steps of Open, Rewind  *)
(* and FetchNext (seq_scan.cc, table_iterator.cc) between two pages asked  *)
(* of the buffer pool.  The rows of the table stay as they are while it is *)
(* scanned.  The caller is any that Cursor allows.                         *)
(***************************************************************************)
EXTENDS CursorState, Joining

CONSTANT Tables   \* what a table may hold: the records of each page

ASSUME TablesAssumption == Null \notin Row /\ Tables \subseteq Seq(Seq(Row))

VARIABLES
  pages,                  \* the records on the pages of the table
  page_ctr,               \* the page asked for last, from 0
  records,                \* those of the page loaded last, from current_tuple on
  scan_next_record,       \* the record held for Next
  scan_call, scan_status, \* the caller's last call, and its answer
  scan_pc                 \* whose turn it is: of the "client", of the buffer
                          \* pool in LoadNextPage ("load"), or of the iterator's
                          \* HasNext ("has")

scan_vars ==
  <<pages, page_ctr, records, scan_next_record, scan_call, scan_status, scan_pc>>

-----------------------------------------------------------------------------
(* The caller's steps.                                                     *)

\* page_ctr has no value before Open.
ScanInit ==
  /\ pages \in Tables
  /\ page_ctr = -1 /\ records = <<>> /\ scan_next_record = Null
  /\ scan_call = "none" /\ scan_status = "ok" /\ scan_pc = "client"

\* TableIterator::Open, which is its Rewind as well.
FromTheStart ==
  /\ page_ctr' = -1
  /\ scan_status' = "busy" /\ scan_pc' = "load"
  /\ UNCHANGED <<pages, records, scan_next_record>>

ScanOpen == scan_call = "none" /\ scan_call' = "open" /\ FromTheStart

ScanIdle ==
  /\ scan_call # "none" /\ scan_next_record = Null
  /\ \/ scan_status = "ok"
     \/ scan_status = "oor" /\ scan_call = "fetch"

\* Mutant: the scan goes on where it was.
ScanRewind_GoesOn ==
  /\ ScanIdle /\ scan_call' = "rewind"
  /\ scan_status' = "busy" /\ scan_pc' = "load"
  /\ UNCHANGED <<pages, page_ctr, records, scan_next_record>>

ScanRewind == ScanIdle /\ scan_call' = "rewind" /\ FromTheStart

\* HasNext with no record held, or Next with none.
ScanFetchNext ==
  /\ ScanIdle /\ scan_status = "ok"
  /\ scan_call' = "fetch" /\ scan_status' = "busy" /\ scan_pc' = "has"
  /\ UNCHANGED <<pages, page_ctr, records, scan_next_record>>

\* Next, when a record is held.
ScanTake ==
  /\ scan_next_record # Null
  /\ scan_next_record' = Null
  /\ UNCHANGED <<pages, page_ctr, records, scan_call, scan_status, scan_pc>>

-----------------------------------------------------------------------------
(* The iterator's steps.                                                   *)

\* A page's records replace those of the last, and a fetch looks again.
LoadPage ==
  /\ scan_pc = "load" /\ page_ctr + 1 < Len(pages)
  /\ page_ctr' = page_ctr + 1
  /\ records' = pages[page_ctr + 2]
  /\ IF scan_call = "fetch" THEN scan_pc' = "has" /\ scan_status' = scan_status
     ELSE scan_pc' = "client" /\ scan_status' = "ok"
  /\ UNCHANGED <<pages, scan_next_record, scan_call>>

\* There is no such page, or the pool cannot make room for it or read it.
LoadFails ==
  /\ scan_pc = "load"
  /\ page_ctr' = page_ctr + 1
  /\ scan_status' \in
       {"error"} \cup (IF page_ctr + 1 < Len(pages) THEN {} ELSE {"oor"})
  /\ scan_pc' = "client"
  /\ UNCHANGED <<pages, records, scan_next_record, scan_call>>

\* Mutant: the page after one without records is taken for the end.
PageOver_Empty ==
  /\ scan_pc = "has" /\ records = <<>>
  /\ IF pages[page_ctr + 1] = <<>>
     THEN scan_pc' = "client" /\ scan_status' = "oor"
     ELSE scan_pc' = "load" /\ scan_status' = scan_status
  /\ UNCHANGED <<pages, page_ctr, records, scan_next_record, scan_call>>

\* HasNext at the end of a page loads the next.
PageOver ==
  /\ scan_pc = "has" /\ records = <<>>
  /\ scan_pc' = "load"
  /\ UNCHANGED <<pages, page_ctr, records, scan_next_record, scan_call, scan_status>>

\* Next copies the record at current_tuple and moves on.
Give ==
  /\ scan_pc = "has" /\ records # <<>>
  /\ scan_next_record' = Head(records) /\ records' = Tail(records)
  /\ scan_status' = "ok" /\ scan_pc' = "client"
  /\ UNCHANGED <<pages, page_ctr, scan_call>>

-----------------------------------------------------------------------------
ScanCaller == ScanOpen \/ ScanRewind \/ ScanFetchNext \/ ScanTake

ScanStep == LoadPage \/ LoadFails \/ PageOver \/ Give

ScanNext == ScanCaller \/ ScanStep

\* A call runs to its answer; the caller need not make another.
ScanSpec == ScanInit /\ [][ScanNext]_scan_vars /\ WF_scan_vars(ScanStep)

-----------------------------------------------------------------------------
\* The pages whose records have been loaded: after a failure not the one
\* asked for.
Loaded == IF scan_status \in {"oor", "error"} THEN page_ctr ELSE page_ctr + 1

ScanSelf ==
  [rows |-> Joined(pages),
   pos |-> IF scan_call = "fetch"
           THEN JoinedLen(pages, Loaded) - Len(records) ELSE 0,
   next |-> scan_next_record, call |-> scan_call, status |-> scan_status]

T == INSTANCE Cursor WITH c <- ScanSelf

-----------------------------------------------------------------------------
ScanTypeOK ==
  /\ pages \in Tables /\ page_ctr \in -1 .. Len(pages)
  /\ records \in Seq(Row) /\ scan_next_record \in Row \cup {Null}
  /\ scan_call \in Calls /\ scan_status \in Statuses
  /\ scan_pc \in {"client", "load", "has"}

ScanTurns ==
  /\ scan_pc = "client" <=> scan_status # "busy"
  /\ scan_pc # "client" => scan_call # "none" /\ scan_next_record = Null
  /\ scan_pc = "has" => scan_call = "fetch"
  /\ scan_next_record # Null => scan_call = "fetch" /\ scan_status = "ok"
  /\ scan_call = "none" => scan_status = "ok"

\* What is left of a page is its last records.
LeftOf(page) ==
  /\ Len(records) <= Len(page)
  /\ \A k \in 1 .. Len(records) : records[k] = page[Len(page) - Len(records) + k]

\* Where the iterator is, by the call and its answer.
AtPage ==
  /\ scan_call \in {"open", "rewind"} /\ scan_pc = "load" => page_ctr = -1
  /\ scan_call \in {"open", "rewind"} /\ scan_status = "ok" =>
       page_ctr = 0 /\ Len(pages) > 0 /\ records = pages[1]
  /\ scan_call = "fetch" =>
       /\ Loaded \in 1 .. Len(pages) /\ LeftOf(pages[Loaded])
       /\ scan_pc = "load" \/ scan_status \in {"oor", "error"} => records = <<>>
       /\ scan_status = "oor" => Loaded = Len(pages)
  /\ scan_call = "rewind" => scan_status # "oor" /\ Len(pages) > 0

\* The iterator holds the rest of the page it loaded last, and it has passed
\* the records of the pages before, those of empty pages included.
ScanInStep == ScanTurns /\ AtPage

\* The inductive invariant.
ScanIInv == ScanTypeOK /\ ScanInStep

\* A scan is a cursor over the records of the table, page by page.
ScanIsCursor == T!Spec

\* A call is answered, however many pages are empty.
ScanCallsReturn == scan_status = "busy" ~> scan_status # "busy"

=============================================================================
