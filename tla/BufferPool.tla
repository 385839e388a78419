----------------------------- MODULE BufferPool -----------------------------
(***************************************************************************)
(* The buffer pool of komfydb (src/komfydb/storage/buffer_pool.cc) over    *)
(* the heap files, and the statements that use it: INSERT, DELETE and the  *)
(* scan of a table, run one at a time by the single thread of the process. *)
(*                                                                         *)
(* One step is one iteration of a statement's loop: at most one page is    *)
(* evicted and at most one page is changed in it, so that the process can  *)
(* be killed between any two pages.                                        *)
(***************************************************************************)
EXTENDS HeapFile, SequencesExt

CONSTANTS
  PagesCnt,   \* BufferPool::pages_cnt
  MaxBatch    \* bound on the tuples, or record ids, of one statement

ASSUME PoolAssumption == PagesCnt \in Nat \ {0} /\ MaxBatch \in Nat

VARIABLES
  page_pool,    \* cached pages, by page id
  lru,          \* page ids, most recently used first
  pc,           \* what the process is doing
  result,       \* how the last statement, or the process, ended
  table_id,     \* the table of the running statement
  page_no,      \* its loop counter over pages
  page_count,   \* the page count it read when it began
  tuples,       \* INSERT: the tuples not added yet
  ids,          \* DELETE: the record ids not removed yet
  held,         \* DELETE: the pages whose pointer is kept across iterations
  output,       \* scan: how often each record has been copied out
  left          \* shutdown: the pages FlushPages has not come to yet

poolVars == <<page_pool, lru>>
stmtVars == <<table_id, page_no, page_count, tuples, ids, held, output, left>>
vars == <<fileVars, poolVars, pc, result, stmtVars>>

RecordId == PageId \X Slot
PageOf(rid) == rid[1]
SlotOf(rid) == rid[2]
Nothing == [rid \in RecordId |-> 0]

Cached == DOMAIN page_pool
OnLru(pid) == \E i \in DOMAIN lru : lru[i] = pid

TypeOK ==
  /\ FileTypeOK
  /\ Cached \subseteq PageId
  /\ page_pool \in [Cached -> Page]
  /\ lru \in Seq(PageId)
  /\ pc \in {"idle", "insert", "remove", "scan", "flush", "down"}
  /\ result \in {"none", "ok", "error"}
  /\ table_id \in Table
  /\ page_no \in 0 .. MaxPages
  /\ page_count \in 0 .. MaxPages
  /\ tuples \in Seq(Tuple)
  /\ ids \in Seq(RecordId)
  /\ held \subseteq PageId
  /\ output \in [RecordId -> Nat]
  /\ left \subseteq PageId

Init ==
  /\ FileInit
  /\ page_pool = <<>>
  /\ lru = <<>>
  /\ pc = "idle"
  /\ result = "none"
  /\ table_id \in Table
  /\ page_no = 0
  /\ page_count = 0
  /\ tuples = <<>>
  /\ ids = <<>>
  /\ held = {}
  /\ output = Nothing
  /\ left = {}

-----------------------------------------------------------------------------
(* EvictPage, GetPage and InsertPage *)

\* Mutant: room is made one page late.
Evicting_Late == Cardinality(Cached) = PagesCnt + 1 /\ lru # <<>>

\* Room is made when the pool holds exactly pages_cnt pages, and not when the
\* list is empty.
Evicting == Cardinality(Cached) = PagesCnt /\ lru # <<>>
Victim == Last(lru)
EvictFails ==
  Evicting /\ page_pool[Victim].dirty /\ WriteFails(Victim, page_pool[Victim])

KeptPages == IF Evicting THEN Cached \ {Victim} ELSE Cached

\* Mutant: the victim is dropped from the pool and not from the list.
KeptLru_NotPopped == lru
KeptLru == IF Evicting THEN Front(lru) ELSE lru

\* Mutant: EvictPage forgets FlushPage.
WriteVictim_Dropped == UNCHANGED <<disk, disk_pages>>

\* FlushPage of the victim; a page that is not dirty is dropped unwritten.
WriteVictim ==
  IF Evicting /\ page_pool[Victim].dirty
  THEN WritePage(Victim, page_pool[Victim])
  ELSE UNCHANGED <<disk, disk_pages>>

\* The page GetPage hands out, when it does.
Fetched(pid) == IF pid \in Cached THEN page_pool[pid] ELSE Create(ReadData(pid))

Keep(pid, new) ==
  page_pool' = [p \in KeptPages \cup {pid} |-> IF p = pid THEN new ELSE page_pool[p]]

\* A cached page moves to the front of the list.
Hit(pid, new) ==
  /\ pid \in Cached
  /\ \E i \in DOMAIN lru :
       lru[i] = pid /\ lru' = Cons(pid, RemoveAt(lru, i))
  /\ page_pool' = [page_pool EXCEPT ![pid] = new]
  /\ UNCHANGED fileVars

\* A cached page whose list node was freed by a failed eviction: list::erase of
\* the dangling iterator is undefined.  The process aborts (see Kill), or some
\* node, possibly none, leaves the list.
HitDangling(pid, new) ==
  /\ pid \in Cached /\ ~OnLru(pid)
  /\ \/ lru' = Cons(pid, lru)
     \/ \E i \in DOMAIN lru : lru' = Cons(pid, RemoveAt(lru, i))
  /\ page_pool' = [page_pool EXCEPT ![pid] = new]
  /\ UNCHANGED fileVars

Miss(pid, new) ==
  /\ pid \notin Cached /\ InRange(pid) /\ ~EvictFails
  /\ WriteVictim
  /\ ReadStream(pid)
  /\ Keep(pid, new)
  /\ lru' = Cons(pid, KeptLru)
  /\ UNCHANGED file_length

\* GetPage(pid) returns the page, and the caller leaves it as new.
GetPage(pid, new) == Hit(pid, new) \/ HitDangling(pid, new) \/ Miss(pid, new)

\* Mutant: the victim leaves the pool first, and the list only when it is written.
EvictError_PoolFirst ==
  /\ EvictFails
  /\ page_pool' = [p \in KeptPages |-> page_pool[p]]
  /\ UNCHANGED <<fileVars, lru>>

\* The eviction failed: its victim is off the list and still in the pool.
EvictError ==
  /\ EvictFails
  /\ lru' = Front(lru)
  /\ UNCHANGED <<fileVars, page_pool>>

\* The page does not exist: found out after a page was evicted for it.
RangeError(pid) ==
  /\ pid \notin Cached /\ ~InRange(pid) /\ ~EvictFails
  /\ WriteVictim
  /\ page_pool' = [p \in KeptPages |-> page_pool[p]]
  /\ lru' = KeptLru
  /\ UNCHANGED <<file_length, good>>

GetPageFails(pid) == (pid \notin Cached /\ EvictError) \/ RangeError(pid)

\* InsertPage of a page just made by CreatePage.
InsertPage(pid, new) ==
  /\ ~EvictFails
  /\ WriteVictim
  /\ Keep(pid, new)
  /\ lru' = Cons(pid, KeptLru)
  /\ UNCHANGED good

-----------------------------------------------------------------------------
(* Statements *)

\* What a query sees in each page.
Contents == [pid \in PageId |-> Fetched(pid).data]

Forget ==
  /\ tuples' = <<>> /\ ids' = <<>> /\ held' = {} /\ output' = Nothing /\ left' = {}
  /\ page_no' = 0 /\ page_count' = 0
  /\ UNCHANGED table_id

Return(status) == pc' = "idle" /\ result' = status /\ Forget

Begin(kind, t) ==
  /\ pc = "idle"
  /\ pc' = kind /\ result' = "none"
  /\ table_id' = t /\ page_no' = 0
  /\ UNCHANGED <<fileVars, poolVars>>

Batch(S) == UNION {[1 .. n -> S] : n \in 0 .. MaxBatch}

\* Only batches for which MaxPages leaves room are tried.
Fits(t, ts) ==
  Len(ts) <= Cardinality({rid \in RecordId : /\ TableOf(PageOf(rid)) = t
                                              /\ Contents[PageOf(rid)][SlotOf(rid)] = Empty})

BeginInsert(t, ts) ==
  /\ Begin("insert", t)
  /\ Fits(t, ts)
  /\ tuples' = ts
  /\ page_count' = file_length[t]
  /\ UNCHANGED <<ids, held, output, left>>

ToAdd(page) == IF Len(tuples) < page.free THEN Len(tuples) ELSE page.free

\* Mutants: one tuple per page is counted; none is.
TuplesAdded_One(n) == tuples' = Tail(tuples)
TuplesAdded_None(n) == tuples' = tuples
TuplesAdded(n) == tuples' = SubSeq(tuples, n + 1, Len(tuples))

\* First loop of InsertTuples: fill the pages the table had.  SetDirty is
\* called even when nothing was added.
InsertExisting ==
  /\ pc = "insert" /\ page_no < page_count /\ tuples # <<>>
  /\ LET pid == <<table_id, page_no>>
         n == ToAdd(Fetched(pid))
     IN  \/ /\ \E new \in AddTuples(Fetched(pid), SubSeq(tuples, 1, n)) :
                 GetPage(pid, SetDirty(new))
            /\ TuplesAdded(n)
            /\ page_no' = page_no + 1
            /\ UNCHANGED <<pc, result, table_id, page_count, ids, held, output, left>>
         \/ GetPageFails(pid) /\ Return("error")

\* Second loop: a new page is made, filled, and only then given to the pool.
\* When no room can be made for it, the page is gone but file_length stays.
InsertNew ==
  /\ pc = "insert" /\ page_no >= page_count /\ tuples # <<>>
  /\ file_length[table_id] < MaxPages
  /\ LET pid == NewPageId(table_id)
         n == ToAdd(Create(Blank))
     IN  \/ /\ \E new \in AddTuples(Create(Blank), SubSeq(tuples, 1, n)) :
                 InsertPage(pid, SetDirty(new))
            /\ CreatePage(table_id)
            /\ TuplesAdded(n)
            /\ UNCHANGED <<pc, result, table_id, page_no, page_count, ids, held, output, left>>
         \/ /\ EvictFails /\ lru' = Front(lru)
            /\ CreatePage(table_id)
            /\ UNCHANGED <<disk, disk_pages, good, page_pool>>
            /\ Return("error")

InsertDone ==
  /\ pc = "insert" /\ tuples = <<>>
  /\ Return("ok")
  /\ UNCHANGED <<fileVars, poolVars>>

BeginRemove(t, rids) ==
  /\ Begin("remove", t)
  /\ ids' = rids
  /\ page_count' = file_length[t]
  /\ UNCHANGED <<tuples, held, output, left>>

\* Mutant: every page is kept once it has been asked for.
Hold_All(pid) == held' = held \cup {pid}

\* The pointer kept for the next iteration.
Hold(pid) == held' = {pid}

\* One iteration of RemoveTuples.  The page of the previous iteration is used
\* again without asking the pool for it.
RemoveNext ==
  /\ pc = "remove" /\ ids # <<>>
  /\ LET pid == PageOf(Head(ids))
         slot == SlotOf(Head(ids))
         old == Fetched(pid)
         Removed == SetDirty(RemoveRecord(old, slot))
         Use(new) ==
           IF pid \in held
           THEN page_pool' = [page_pool EXCEPT ![pid] = new] /\ UNCHANGED <<fileVars, lru>>
           ELSE GetPage(pid, new)
     IN  \/ /\ HasRecord(old, slot)
            /\ Use(Removed)
            /\ ids' = Tail(ids) /\ Hold(pid)
            /\ UNCHANGED <<pc, result, table_id, page_no, page_count, tuples, output, left>>
         \/ /\ ~HasRecord(old, slot)
            /\ Use(old)
            /\ Return("error")
         \/ pid \notin held /\ GetPageFails(pid) /\ Return("error")

RemoveDone ==
  /\ pc = "remove" /\ ids = <<>>
  /\ Return("ok")
  /\ UNCHANGED <<fileVars, poolVars>>

BeginScan(t) ==
  /\ Begin("scan", t)
  /\ page_count' = 0
  /\ UNCHANGED <<tuples, ids, held, output, left>>

\* TableIterator::LoadNextPage copies the records of the next page.  The page
\* after the last one is asked for as well: its OutOfRange ends the scan, and
\* is an error of Open when the table has no page at all.
ScanPage ==
  /\ pc = "scan"
  /\ LET pid == <<table_id, page_no>>
     IN  \/ /\ GetPage(pid, Fetched(pid))
            /\ output' = [rid \in RecordId |->
                            IF PageOf(rid) = pid /\ HasRecord(Fetched(pid), SlotOf(rid))
                            THEN output[rid] + 1 ELSE output[rid]]
            /\ page_no' = page_no + 1
            /\ UNCHANGED <<pc, result, table_id, page_count, tuples, ids, held, left>>
         \/ /\ RangeError(pid)
            /\ Return(IF page_no = 0 THEN "error" ELSE "ok")
         \/ pid \notin Cached /\ EvictError /\ Return("error")

-----------------------------------------------------------------------------
(* The life of the process *)

\* The destructor of the pool calls FlushPages when the REPL has ended.
BeginFlush ==
  /\ pc = "idle"
  /\ pc' = "flush" /\ result' = "none"
  /\ left' = Cached
  /\ UNCHANGED <<fileVars, poolVars, table_id, page_no, page_count, tuples, ids, held, output>>

\* Mutant: a page that cannot be written is tried again.
GiveUp_Retry == left' = left

\* The first failure ends the loop, and the destructor drops its status.
GiveUp == left' = {}

\* The pages come in the order of the hash map.
FlushNext ==
  /\ pc = "flush"
  /\ \E pid \in left :
       \/ /\ ~page_pool[pid].dirty
          /\ left' = left \ {pid}
          /\ UNCHANGED <<disk, disk_pages>>
       \/ /\ page_pool[pid].dirty /\ ~WriteFails(pid, page_pool[pid])
          /\ WritePage(pid, page_pool[pid])
          /\ left' = left \ {pid}
       \/ /\ page_pool[pid].dirty /\ WriteFails(pid, page_pool[pid])
          /\ GiveUp
          /\ UNCHANGED <<disk, disk_pages>>
  /\ UNCHANGED <<file_length, good, poolVars, pc, result, table_id, page_no,
                 page_count, tuples, ids, held, output>>

Stop(status) ==
  /\ pc' = "down" /\ result' = status
  /\ page_pool' = <<>> /\ lru' = <<>>
  /\ Reopen
  /\ Forget

\* "All pages flushed."
FlushDone == pc = "flush" /\ left = {} /\ Stop("ok")

\* The process dies, or a SIGINT leaves a running statement by siglongjmp: the
\* iterators on its stack are never destroyed, nor is the pool they share.
Kill == pc # "down" /\ Stop("error")

Start ==
  /\ pc = "down"
  /\ pc' = "idle" /\ result' = "none"
  /\ UNCHANGED <<fileVars, poolVars, stmtVars>>

-----------------------------------------------------------------------------
Statement ==
  \/ InsertExisting \/ InsertNew \/ InsertDone
  \/ RemoveNext \/ RemoveDone
  \/ ScanPage

Shutdown == FlushNext \/ FlushDone

Next ==
  \/ \E t \in Table, ts \in Batch(Tuple) : BeginInsert(t, ts)
  \/ \E t \in Table, rids \in Batch(RecordId) : BeginRemove(t, rids)
  \/ \E t \in Table : BeginScan(t)
  \/ Statement
  \/ BeginFlush \/ Shutdown
  \/ Kill
  \/ Start

Spec == Init /\ [][Next]_vars

\* A statement that has begun keeps running: nothing else runs in its thread.
FairSpec == Spec /\ WF_vars(Statement) /\ WF_vars(Shutdown)

-----------------------------------------------------------------------------
(* Properties *)

\* free_space counts the zero bits of the header: AddTuples trusts it to place
\* every tuple it is given.
FreeSpaceExact ==
  \A pid \in Cached :
    page_pool[pid].free = Cardinality(FreeSlots(page_pool[pid].data))

LruDistinct == \A i, j \in DOMAIN lru : lru[i] = lru[j] => i = j

\* The list names cached pages only, each once: EvictPage and FlushPage look
\* their victim up in page_pool without a test.
LruSound == LruDistinct /\ \A pid \in PageId : OnLru(pid) => pid \in Cached

\* Every cached page is on the list (GetPage erases its node without a test),
\* and the pool never outgrows pages_cnt.
PoolExact ==
  /\ \A pid \in Cached : OnLru(pid)
  /\ Cardinality(Cached) <= PagesCnt

\* A page the file is said to have is in the pool or on file, although
\* CreatePage lengthens the file before the page exists: no read of a page
\* runs past the end of the file, which would set failbit for good.
NoPageLost ==
  /\ pc # "down" => \A pid \in PageId :
       InRange(pid) => pid \in Cached \/ NumberOf(pid) < disk_pages[TableOf(pid)]
  /\ \A t \in Table : good[t]

\* A page that is not dirty can be dropped unwritten: the file has the same.
CleanPagesOnFile ==
  \A pid \in Cached :
    ~page_pool[pid].dirty => /\ page_pool[pid].data = disk[pid]
                             /\ NumberOf(pid) < disk_pages[TableOf(pid)]

\* The raw pointer RemoveTuples keeps from one iteration to the next points at
\* a page that is still in the pool.
HeldPagesCached == held \subseteq Cached

\* The object's length runs ahead of the file, never behind; what lies past the
\* end of the file is blank; every cached page is within the object's length.
LengthsAgree ==
  /\ \A t \in Table : disk_pages[t] <= file_length[t]
  /\ \A pid \in PageId : disk_pages[TableOf(pid)] <= NumberOf(pid) => disk[pid] = Blank
  /\ \A pid \in Cached : InRange(pid)

\* What a statement carries from one iteration to the next belongs to it; the
\* page count an INSERT read when it began is still within the file; what
\* FlushPages has passed is on file.
StatementSound ==
  /\ pc # "insert" => tuples = <<>>
  /\ pc # "remove" => ids = <<>> /\ held = {}
  /\ pc # "scan" => output = Nothing
  /\ pc # "flush" => left = {}
  /\ left \subseteq Cached
  /\ pc = "insert" => page_count <= file_length[table_id]
  /\ pc = "flush" => \A pid \in Cached \ left : page_pool[pid].data = disk[pid]
  /\ pc = "down" => Cached = {}

\* The rows a scan has copied out are those of the pages it has passed.
ScanSound ==
  pc = "scan" =>
    output = [rid \in RecordId |->
                IF /\ TableOf(PageOf(rid)) = table_id
                   /\ NumberOf(PageOf(rid)) < page_no
                   /\ Contents[PageOf(rid)][SlotOf(rid)] # Empty
                THEN 1 ELSE 0]

\* The inductive invariant, where every tuple is well formed.  NoPageLost holds
\* of a process that is down as well: its files have the length it will read.
PoolInv ==
  /\ FreeSpaceExact /\ LruSound /\ PoolExact
  /\ CleanPagesOnFile /\ LengthsAgree
  /\ \A t \in Table : good[t]
  /\ \A pid \in PageId :
       InRange(pid) => pid \in Cached \/ NumberOf(pid) < disk_pages[TableOf(pid)]

IInv == TypeOK /\ PoolInv /\ StatementSound /\ ScanSound /\ HeldPagesCached

\* No page image with a record that cannot be parsed back reaches a file.
FileWellFormed ==
  \A pid \in PageId : \A s \in Slot : disk[pid][s] \notin Malformed

\* What holds whatever rows are stored, evictions that fail included: the
\* inductive invariant of a pool that may hold what it cannot write.
FaultInv ==
  /\ TypeOK
  /\ FreeSpaceExact /\ LruSound /\ FileWellFormed
  /\ \A pid \in Cached : InRange(pid)
  /\ HeldPagesCached /\ left \subseteq Cached
  /\ pc # "remove" => held = {}
  /\ pc # "flush" => left = {}

\* The rows queries see, and those a new process would see.
Rows == [rid \in RecordId |-> Contents[PageOf(rid)][SlotOf(rid)]]
StableRows == [rid \in RecordId |-> disk[PageOf(rid)][SlotOf(rid)]]
HomeOf == [rid \in RecordId |-> TableOf(PageOf(rid))]

\* A scan that ends without error has returned every row of the table once,
\* whatever was evicted on the way.
ScanReturned ==
  pc = "scan" /\ pc' = "idle" /\ result' = "ok" =>
    output = [rid \in RecordId |->
                IF HomeOf[rid] = table_id /\ Rows[rid] # Empty THEN 1 ELSE 0]
ScanReturnsTable == [][ScanReturned]_vars

\* The pool and the files under it are a store of rows: no eviction, reload or
\* restart shows except as the loss a crash may cause.
Store == INSTANCE TableStore WITH
  Place <- RecordId, Home <- HomeOf, rows <- Rows, stable <- StableRows,
  mode <- pc, todo <- tuples, doomed <- ids

ImplementsStore == Store!Spec

\* After the destructor has logged "All pages flushed." a new process finds
\* every row the old one had, but for those no page image can hold.
RowsFlushed ==
  pc = "flush" /\ pc' = "down" /\ result' = "ok" =>
    \A rid \in RecordId : Rows[rid] \notin Malformed => Rows'[rid] = Rows[rid]
CleanExitKeepsRows == [][RowsFlushed]_vars

\* Every statement returns, unless the process dies first.
StatementsReturn ==
  pc \in {"insert", "remove", "scan"} ~> pc \in {"idle", "down"}

\* So does the shutdown.
ShutdownEnds == pc = "flush" ~> pc = "down"

=============================================================================
