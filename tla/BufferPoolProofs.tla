-------------------------- MODULE BufferPoolProofs --------------------------
(***************************************************************************)
(* The buffer pool keeps its invariants, and implements TableStore, for    *)
(* every number of tables, pages, slots and pool pages, when every tuple   *)
(* is well formed; and what it keeps whatever rows are stored: also when   *)
(* some cannot be written to a page, so that an eviction fails half way    *)
(* and leaves a page in the pool that is on the list no more.              *)
(***************************************************************************)
EXTENDS BufferPool, ListLemmas

-----------------------------------------------------------------------------
(* What the operations on a page preserve, for every number of slots        *)

\* free_space is the number of zero header bits.
FreeExact(page) == page.free = Cardinality(FreeSlots(page.data))

LEMMA FreeSlotsFinite ==
  ASSUME NEW data \in Data
  PROVE  /\ IsFiniteSet(FreeSlots(data))
         /\ Cardinality(FreeSlots(data)) \in Nat
<1>1. IsFiniteSet(Slot)
  BY SlotsAssumption, FS_Interval DEF Slot
<1>2. FreeSlots(data) \in SUBSET Slot
  BY DEF FreeSlots
<1>3. QED
  BY <1>1, <1>2, FS_Subset, FS_CardinalityType

LEMMA BlankType == Blank \in Data
  BY DEF Blank, Data

\* A page parsed from an image counts its zero header bits.
LEMMA CreateExact ==
  ASSUME NEW data \in Data
  PROVE  /\ Create(data) \in Page
         /\ FreeExact(Create(data))
         /\ Create(data).data = data
         /\ Create(data).dirty = FALSE
  BY FreeSlotsFinite DEF Create, Page, FreeExact

\* n distinct slots can be taken from the free ones.
LEMMA PlacementCount ==
  ASSUME NEW data \in Data, NEW n \in Nat, NEW p \in Placements(data, n)
  PROVE  /\ Cardinality(FreeSlots(data) \ {p[i] : i \in 1 .. n}) =
              Cardinality(FreeSlots(data)) - n
         /\ \A i, j \in 1 .. n : p[i] = p[j] => i = j
<1> DEFINE Taken == {p[i] : i \in 1 .. n}
<1>1. p \in [1 .. n -> FreeSlots(data)] /\ \A i, j \in 1 .. n : i < j => p[i] < p[j]
  BY DEF Placements
<1>2. \A i, j \in 1 .. n : p[i] = p[j] => i = j
  <2> SUFFICES ASSUME NEW i \in 1 .. n, NEW j \in 1 .. n, p[i] = p[j], i # j
               PROVE  FALSE
    OBVIOUS
  <2>1. p[i] \in Int /\ p[j] \in Int
    BY <1>1, SlotsAssumption DEF FreeSlots, Slot
  <2>2. i < j \/ j < i
    OBVIOUS
  <2>3. QED
    BY <1>1, <2>1, <2>2
<1>3. Taken \subseteq FreeSlots(data)
  BY <1>1
<1>4. p \in Bijection(1 .. n, Taken)
  <2>1. p \in [1 .. n -> Taken]
    BY <1>1
  <2>2. QED
    BY <2>1, <1>2 DEF Bijection, Injection, Surjection, IsInjective
<1>5. Cardinality(Taken) = n
  BY <1>4, FS_CountingElements DEF ExistsBijection
<1>6. Cardinality(FreeSlots(data) \ Taken) = Cardinality(FreeSlots(data)) - n
  <2>1. FreeSlots(data) \cap Taken = Taken
    BY <1>3
  <2>2. IsFiniteSet(FreeSlots(data))
    BY FreeSlotsFinite
  <2>3. Cardinality(FreeSlots(data) \ Taken) =
          Cardinality(FreeSlots(data)) - Cardinality(FreeSlots(data) \cap Taken)
    BY <2>2, FS_Difference
  <2>4. QED
    BY <2>1, <2>3, <1>5
<1>7. QED
  BY <1>2, <1>6

\* The data of a page filled with n tuples: what was there stays, and the free
\* slots are those no tuple took.
LEMMA FilledType ==
  ASSUME NEW data \in Data, NEW n \in Nat, NEW p \in Placements(data, n),
         NEW ts \in Seq(Tuple), n <= Len(ts)
  PROVE  /\ Filled(data, p, ts) \in Data
         /\ \A i \in 1 .. n : Filled(data, p, ts)[p[i]] = ts[i]
         /\ \A s \in Slot : (\A i \in 1 .. n : p[i] # s) => Filled(data, p, ts)[s] = data[s]
         /\ FreeSlots(Filled(data, p, ts)) = FreeSlots(data) \ {p[i] : i \in 1 .. n}
<1>1. p \in [1 .. n -> FreeSlots(data)]
  BY DEF Placements
<1>2. \A i, j \in 1 .. n : p[i] = p[j] => i = j
  BY PlacementCount
<1>3. \A i \in 1 .. n : ts[i] \in Tuple
  BY ElementOfSeq
<1>4. ASSUME NEW i \in 1 .. n
      PROVE  Filled(data, p, ts)[p[i]] = ts[i]
  <2>1. p[i] \in Slot
    BY <1>1 DEF FreeSlots
  <2>2. (CHOOSE k \in 1 .. n : p[k] = p[i]) = i
    BY <1>2
  <2>3. DOMAIN p = 1 .. n
    BY <1>1
  <2>4. QED
    BY <2>1, <2>2, <2>3 DEF Filled
<1>5. ASSUME NEW s \in Slot, \A i \in 1 .. n : p[i] # s
      PROVE  Filled(data, p, ts)[s] = data[s]
  BY <1>1, <1>5 DEF Filled
<1>6. ASSUME NEW s \in Slot
      PROVE  Filled(data, p, ts)[s] \in Tuple \cup {Empty}
  <2>1. CASE \E i \in 1 .. n : p[i] = s
    BY <2>1, <1>3, <1>4
  <2>2. CASE \A i \in 1 .. n : p[i] # s
    BY <2>2, <1>5 DEF Data
  <2>3. QED
    BY <2>1, <2>2
<1>7. Filled(data, p, ts) \in Data
  BY <1>6 DEF Filled, Data
<1>8. FreeSlots(Filled(data, p, ts)) = FreeSlots(data) \ {p[i] : i \in 1 .. n}
  <2>1. ASSUME NEW s \in Slot
        PROVE  Filled(data, p, ts)[s] = Empty <=>
                 data[s] = Empty /\ \A i \in 1 .. n : p[i] # s
    <3>1. CASE \E i \in 1 .. n : p[i] = s
      BY <3>1, <1>3, <1>4, TupleAssumption
    <3>2. CASE \A i \in 1 .. n : p[i] # s
      BY <3>2, <1>5
    <3>3. QED
      BY <3>1, <3>2
  <2>2. QED
    BY <2>1 DEF FreeSlots
<1>9. QED
  BY <1>4, <1>5, <1>7, <1>8

\* AddTuples, asked for no more tuples than free_space, places every one of
\* them in a free slot and keeps free_space exact.
LEMMA AddTuplesExact ==
  ASSUME NEW page \in Page, FreeExact(page),
         NEW ts \in Seq(Tuple), Len(ts) <= page.free,
         NEW new \in AddTuples(page, ts)
  PROVE  /\ new \in Page
         /\ FreeExact(new)
         /\ new.dirty = page.dirty
         /\ \E p \in [1 .. Len(ts) -> FreeSlots(page.data)] :
              /\ \A i, j \in 1 .. Len(ts) : p[i] = p[j] => i = j
              /\ \A i \in 1 .. Len(ts) : new.data[p[i]] = ts[i]
              /\ \A s \in Slot : (\A i \in 1 .. Len(ts) : p[i] # s) => new.data[s] = page.data[s]
<1>1. page.data \in Data /\ page.free \in Int /\ page.dirty \in BOOLEAN
  BY DEF Page
<1>2. Len(ts) \in Nat /\ Len(ts) <= Cardinality(FreeSlots(page.data))
  BY LenProperties DEF FreeExact
<1>3. PICK p \in Placements(page.data, Len(ts)) :
        new = [data |-> Filled(page.data, p, ts), free |-> page.free - Len(ts),
               dirty |-> page.dirty]
  BY <1>2 DEF AddTuples
<1>4. /\ new.data = Filled(page.data, p, ts)
      /\ new.free = page.free - Len(ts)
      /\ new.dirty = page.dirty
  BY <1>3
<1>5. /\ Filled(page.data, p, ts) \in Data
      /\ \A i \in 1 .. Len(ts) : Filled(page.data, p, ts)[p[i]] = ts[i]
      /\ \A s \in Slot : (\A i \in 1 .. Len(ts) : p[i] # s) =>
                          Filled(page.data, p, ts)[s] = page.data[s]
      /\ FreeSlots(Filled(page.data, p, ts)) =
           FreeSlots(page.data) \ {p[i] : i \in 1 .. Len(ts)}
  BY <1>1, <1>2, FilledType
<1>6. /\ Cardinality(FreeSlots(page.data) \ {p[i] : i \in 1 .. Len(ts)}) =
           Cardinality(FreeSlots(page.data)) - Len(ts)
      /\ \A i, j \in 1 .. Len(ts) : p[i] = p[j] => i = j
  BY <1>1, <1>2, PlacementCount
<1>7. new \in Page
  BY <1>1, <1>2, <1>3, <1>5 DEF Page
<1>8. FreeExact(new)
  BY <1>4, <1>5, <1>6 DEF FreeExact
<1>9. p \in [1 .. Len(ts) -> FreeSlots(page.data)]
  BY DEF Placements
<1>10. QED
  BY <1>4, <1>5, <1>6, <1>7, <1>8, <1>9

\* RemoveRecord frees the one slot it is given.
LEMMA RemoveRecordExact ==
  ASSUME NEW page \in Page, FreeExact(page), NEW slot, HasRecord(page, slot)
  PROVE  /\ RemoveRecord(page, slot) \in Page
         /\ FreeExact(RemoveRecord(page, slot))
         /\ RemoveRecord(page, slot).data = [page.data EXCEPT ![slot] = Empty]
<1>1. page.data \in Data /\ page.free \in Int /\ page.dirty \in BOOLEAN
  BY DEF Page
<1>2. slot \in Slot /\ slot \notin FreeSlots(page.data)
  BY DEF HasRecord, FreeSlots
<1>3. /\ RemoveRecord(page, slot).data = [page.data EXCEPT ![slot] = Empty]
      /\ RemoveRecord(page, slot).free = page.free + 1
      /\ RemoveRecord(page, slot) \in Page
  BY <1>1, <1>2 DEF RemoveRecord, Page, Data
<1>4. FreeSlots([page.data EXCEPT ![slot] = Empty]) = FreeSlots(page.data) \cup {slot}
  BY <1>1, <1>2 DEF FreeSlots, Data
<1>5. Cardinality(FreeSlots(page.data) \cup {slot}) = Cardinality(FreeSlots(page.data)) + 1
  BY <1>1, <1>2, FreeSlotsFinite, FS_AddElement
<1>6. QED
  BY <1>3, <1>4, <1>5 DEF FreeExact

LEMMA SetDirtyExact ==
  ASSUME NEW page \in Page
  PROVE  /\ SetDirty(page) \in Page
         /\ SetDirty(page).data = page.data
         /\ SetDirty(page).free = page.free
         /\ SetDirty(page).dirty = TRUE
  BY DEF SetDirty, Page

-----------------------------------------------------------------------------
(* The state of the pool and the files *)

\* The part of the type invariant about the pool and the files.
PoolTypeOK ==
  /\ FileTypeOK
  /\ Cached \subseteq PageId
  /\ page_pool \in [Cached -> Page]
  /\ lru \in Seq(PageId)

CoreInv == PoolTypeOK /\ PoolInv

\* A step copies pages to their files as they were before it.
WroteBack == \A p \in PageId : disk'[p] = disk[p] \/ disk'[p] = Contents[p]

LEMMA PageIdParts ==
  ASSUME NEW pid \in PageId
  PROVE  /\ TableOf(pid) \in Table
         /\ NumberOf(pid) \in Nat /\ NumberOf(pid) < MaxPages
         /\ pid = <<TableOf(pid), NumberOf(pid)>>
  BY FileAssumption DEF PageId, PageNo, TableOf, NumberOf

LEMMA MakePageId ==
  ASSUME NEW t \in Table, NEW n \in Nat, n < MaxPages
  PROVE  /\ <<t, n>> \in PageId
         /\ TableOf(<<t, n>>) = t /\ NumberOf(<<t, n>>) = n
  BY FileAssumption DEF PageId, PageNo, TableOf, NumberOf

\* The list names the cached pages, each once.
LEMMA LruNames ==
  CoreInv => Names(lru, Cached)
<1> SUFFICES ASSUME CoreInv PROVE Names(lru, Cached)
  OBVIOUS
<1>1. \A i \in DOMAIN lru : lru[i] \in PageId
  BY LenProperties, ElementOfSeq DEF CoreInv, PoolTypeOK
<1>2. \A i \in DOMAIN lru : lru[i] \in Cached
  BY <1>1 DEF CoreInv, PoolInv, LruSound, OnLru
<1>3. QED
  BY <1>2 DEF CoreInv, PoolInv, PoolExact, LruSound, LruDistinct, OnLru, Names

LEMMA NamedLru ==
  Names(lru, Cached) => LruSound /\ \A pid \in Cached : OnLru(pid)
  BY DEF Names, LruSound, LruDistinct, OnLru

\* What a query sees: the cached page, or else the one on file.
SeenInPoolOrFile ==
  \A p \in PageId :
    /\ Contents[p] = IF p \in Cached THEN page_pool[p].data ELSE disk[p]
    /\ Contents[p] \in Data

LEMMA Visible == CoreInv => SeenInPoolOrFile
<1> SUFFICES ASSUME CoreInv, NEW p \in PageId
             PROVE  /\ Contents[p] = IF p \in Cached THEN page_pool[p].data ELSE disk[p]
                    /\ Contents[p] \in Data
  BY DEF SeenInPoolOrFile
<1>1. good[TableOf(p)] /\ disk[p] \in Data
  BY PageIdParts DEF CoreInv, PoolInv, PoolTypeOK, FileTypeOK
<1>2. p \in Cached => page_pool[p].data \in Data
  BY DEF CoreInv, PoolTypeOK, Page
<1>3. Create(disk[p]).data = disk[p]
  BY <1>1, CreateExact
<1>4. QED
  BY <1>1, <1>2, <1>3 DEF Contents, Fetched, ReadData

LEMMA VisibleNext == CoreInv' => SeenInPoolOrFile'
  BY Visible, PTL

\* The page GetPage hands out is a page, with an exact free_space.
LEMMA FetchedExact ==
  ASSUME CoreInv, NEW pid \in PageId
  PROVE  /\ Fetched(pid) \in Page
         /\ FreeExact(Fetched(pid))
         /\ Fetched(pid).data = Contents[pid]
         /\ pid \notin Cached => ~Fetched(pid).dirty
<1>1. Fetched(pid).data = Contents[pid]
  BY DEF Contents
<1>2. CASE pid \in Cached
  BY <1>1, <1>2 DEF CoreInv, PoolTypeOK, PoolInv, FreeSpaceExact, FreeExact, Fetched
<1>3. CASE pid \notin Cached
  <2>1. ReadData(pid) \in Data
    BY BlankType, PageIdParts DEF CoreInv, PoolTypeOK, FileTypeOK, ReadData
  <2>2. QED
    BY <1>1, <1>3, <2>1, CreateExact DEF Fetched
<1>4. QED
  BY <1>2, <1>3

\* With well-formed tuples only, nothing is ever unwritable.
LEMMA NeverFails ==
  ASSUME CoreInv, Malformed = {}
  PROVE  ~EvictFails
<1>1. SUFFICES ASSUME Evicting PROVE ~WriteFails(Victim, page_pool[Victim])
  BY DEF EvictFails
<1>2. Victim \in Cached
  BY <1>1, LruNames, FrontNames DEF CoreInv, PoolTypeOK, Evicting, Victim
<1>3. InRange(Victim)
  BY <1>2 DEF CoreInv, PoolInv, LengthsAgree
<1>4. QED
  BY <1>3 DEF WriteFails, Serialisable

LEMMA CachedFinite ==
  ASSUME CoreInv
  PROVE  IsFiniteSet(Cached) /\ Cardinality(Cached) \in Nat
<1>1. Len(lru) \in Nat /\ lru \in [1 .. Len(lru) -> PageId] /\ DOMAIN lru = 1 .. Len(lru)
  BY LenProperties DEF CoreInv, PoolTypeOK
<1>2. lru \in Surjection(1 .. Len(lru), Cached)
  BY <1>1, LruNames DEF Names, Surjection
<1>3. IsFiniteSet(Cached)
  BY <1>1, <1>2, FS_NatSurjection DEF ExistsSurjection
<1>4. QED
  BY <1>3, FS_CardinalityType

\* After making room the list names the pages kept, and there is room.
LEMMA RoomMade ==
  ASSUME CoreInv
  PROVE  /\ Evicting => Victim \in Cached
         /\ KeptPages \subseteq Cached
         /\ KeptLru \in Seq(PageId)
         /\ Names(KeptLru, KeptPages)
         /\ IsFiniteSet(KeptPages)
         /\ Cardinality(KeptPages) \in Nat
         /\ Cardinality(KeptPages) < PagesCnt
<1>1. /\ lru \in Seq(PageId) /\ Names(lru, Cached)
      /\ Cached \subseteq PageId
      /\ IsFiniteSet(Cached) /\ Cardinality(Cached) \in Nat
      /\ Cardinality(Cached) <= PagesCnt
      /\ PagesCnt \in Nat \ {0}
  BY LruNames, CachedFinite, PoolAssumption DEF CoreInv, PoolTypeOK, PoolInv, PoolExact
<1>2. CASE Evicting
  <2>1. /\ Victim \in Cached /\ Front(lru) \in Seq(PageId)
        /\ Names(Front(lru), Cached \ {Victim})
    BY <1>1, <1>2, FrontNames DEF Evicting, Victim
  <2>2. /\ IsFiniteSet(Cached \ {Victim})
        /\ Cardinality(Cached \ {Victim}) = Cardinality(Cached) - 1
    BY <1>1, <2>1, FS_RemoveElement
  <2>3. KeptPages = Cached \ {Victim} /\ KeptLru = Front(lru)
    BY <1>2 DEF KeptPages, KeptLru
  <2>4. QED
    BY <1>1, <1>2, <2>1, <2>2, <2>3 DEF Evicting
<1>3. CASE ~Evicting
  <2>1. KeptPages = Cached /\ KeptLru = lru
    BY <1>3 DEF KeptPages, KeptLru
  <2>2. Cardinality(Cached) < PagesCnt
    <3>1. CASE lru = <<>>
      <4>1. Cached = {}
        BY <1>1, <3>1 DEF Names
      <4>2. QED
        BY <1>1, <4>1, FS_EmptySet
    <3>2. CASE lru # <<>>
      BY <1>1, <1>3, <3>2 DEF Evicting
    <3>3. QED
      BY <3>1, <3>2
  <2>3. QED
    BY <1>1, <1>3, <2>1, <2>2
<1>4. QED
  BY <1>2, <1>3

-----------------------------------------------------------------------------
(* The steps of the pool *)

\* Writing a cached page to its file changes no other page image, and leaves
\* lengths and blank pages in order.
LEMMA PageWritten ==
  ASSUME CoreInv, NEW v \in Cached, WritePage(v, page_pool[v])
  PROVE  /\ disk' \in [PageId -> Data]
         /\ disk_pages' \in [Table -> 0 .. MaxPages]
         /\ \A t \in Table : disk_pages[t] <= disk_pages'[t] /\ disk_pages'[t] <= file_length[t]
         /\ disk'[v] = page_pool[v].data
         /\ NumberOf(v) < disk_pages'[TableOf(v)]
         /\ \A p \in PageId : p # v => disk'[p] = disk[p]
         /\ \A p \in PageId : disk_pages'[TableOf(p)] <= NumberOf(p) => disk'[p] = Blank
<1>1. /\ disk \in [PageId -> Data]
      /\ disk_pages \in [Table -> 0 .. MaxPages]
      /\ file_length \in [Table -> 0 .. MaxPages]
      /\ v \in PageId
      /\ MaxPages \in Nat
  BY FileAssumption DEF CoreInv, PoolTypeOK, FileTypeOK
<1>2. /\ \A t \in Table : good[t] /\ disk_pages[t] <= file_length[t]
      /\ \A p \in PageId : disk_pages[TableOf(p)] <= NumberOf(p) => disk[p] = Blank
      /\ NumberOf(v) < file_length[TableOf(v)]
  BY DEF CoreInv, PoolInv, LengthsAgree, InRange
<1>3. TableOf(v) \in Table /\ NumberOf(v) \in Nat /\ NumberOf(v) < MaxPages
  BY <1>1, PageIdParts
<1> DEFINE n == IF NumberOf(v) < disk_pages[TableOf(v)]
                THEN disk_pages[TableOf(v)] ELSE NumberOf(v) + 1
<1>4. /\ disk' = [disk EXCEPT ![v] = page_pool[v].data]
      /\ disk_pages' = [disk_pages EXCEPT ![TableOf(v)] = n]
  BY <1>2, <1>3 DEF WritePage
<1>5. page_pool[v].data \in Data
  BY DEF CoreInv, PoolTypeOK, Page
<1>6. /\ n \in 0 .. MaxPages
      /\ disk_pages[TableOf(v)] <= n
      /\ n <= file_length[TableOf(v)]
      /\ NumberOf(v) < n
  BY <1>1, <1>2, <1>3
<1> HIDE DEF n
<1>7. /\ disk' \in [PageId -> Data]
      /\ disk_pages' \in [Table -> 0 .. MaxPages]
  BY <1>1, <1>4, <1>5, <1>6
<1>8. \A t \in Table : disk_pages[t] <= disk_pages'[t] /\ disk_pages'[t] <= file_length[t]
  BY <1>1, <1>2, <1>4, <1>6
<1>9. /\ disk'[v] = page_pool[v].data
      /\ \A p \in PageId : p # v => disk'[p] = disk[p]
      /\ NumberOf(v) < disk_pages'[TableOf(v)]
  BY <1>1, <1>3, <1>4, <1>6
<1>10. ASSUME NEW p \in PageId, disk_pages'[TableOf(p)] <= NumberOf(p)
       PROVE  disk'[p] = Blank
  <2>1. disk_pages[TableOf(p)] <= NumberOf(p)
    BY <1>1, <1>7, <1>8, <1>10, PageIdParts
  <2>2. p # v
    BY <1>1, <1>3, <1>7, <1>9, <1>10
  <2>3. QED
    BY <1>2, <1>9, <2>1, <2>2
<1>11. QED
  BY <1>7, <1>8, <1>9, <1>10

\* The same of the victim, if any: the pages kept and those never cached stay
\* as they were, the page dropped is on file.
LEMMA VictimWritten ==
  ASSUME CoreInv, WriteVictim
  PROVE  /\ disk' \in [PageId -> Data]
         /\ disk_pages' \in [Table -> 0 .. MaxPages]
         /\ \A t \in Table : disk_pages[t] <= disk_pages'[t] /\ disk_pages'[t] <= file_length[t]
         /\ \A p \in PageId : disk'[p] = disk[p] \/ (p \in Cached /\ disk'[p] = page_pool[p].data)
         /\ \A p \in PageId : p \in KeptPages \/ p \notin Cached => disk'[p] = disk[p]
         /\ \A p \in Cached \ KeptPages :
              disk'[p] = page_pool[p].data /\ NumberOf(p) < disk_pages'[TableOf(p)]
         /\ \A p \in PageId : disk_pages'[TableOf(p)] <= NumberOf(p) => disk'[p] = Blank
<1>1. CASE Evicting /\ page_pool[Victim].dirty
  <2>1. Victim \in Cached /\ WritePage(Victim, page_pool[Victim])
    BY <1>1, RoomMade DEF WriteVictim
  <2>2. KeptPages = Cached \ {Victim}
    BY <1>1 DEF KeptPages
  <2>3. QED
    BY <2>1, <2>2, PageWritten
<1>2. CASE ~(Evicting /\ page_pool[Victim].dirty)
  <2>1. disk' = disk /\ disk_pages' = disk_pages
    BY <1>2 DEF WriteVictim
  <2>2. /\ disk \in [PageId -> Data] /\ disk_pages \in [Table -> 0 .. MaxPages]
        /\ \A t \in Table : disk_pages[t] <= disk_pages[t] /\ disk_pages[t] <= file_length[t]
        /\ \A p \in PageId : disk_pages[TableOf(p)] <= NumberOf(p) => disk[p] = Blank
    BY FileAssumption DEF CoreInv, PoolTypeOK, FileTypeOK, PoolInv, LengthsAgree
  <2>3. \A p \in Cached \ KeptPages :
          disk[p] = page_pool[p].data /\ NumberOf(p) < disk_pages[TableOf(p)]
    BY <1>2 DEF KeptPages, CoreInv, PoolInv, CleanPagesOnFile
  <2>4. QED
    BY <2>1, <2>2, <2>3
<1>3. QED
  BY <1>1, <1>2

\* A page enters the pool: one read from its file, or one just created.
LEMMA InstallStep ==
  ASSUME CoreInv, NEW pid \in PageId, pid \notin Cached,
         NEW new \in Page, FreeExact(new),
         ~new.dirty => new.data = disk[pid] /\ NumberOf(pid) < disk_pages[TableOf(pid)],
         WriteVictim, Keep(pid, new), lru' = Cons(pid, KeptLru), UNCHANGED good,
         file_length' \in [Table -> 0 .. MaxPages],
         \A t \in Table : file_length[t] <= file_length'[t],
         NumberOf(pid) < file_length'[TableOf(pid)],
         \A p \in PageId : p # pid /\ NumberOf(p) < file_length'[TableOf(p)] => InRange(p)
  PROVE  /\ CoreInv'
         /\ Contents' = [Contents EXCEPT ![pid] = new.data]
         /\ WroteBack
         /\ Cached' = KeptPages \cup {pid}
<1>1. /\ KeptPages \subseteq Cached /\ Cached \subseteq PageId
      /\ KeptLru \in Seq(PageId) /\ Names(KeptLru, KeptPages)
      /\ IsFiniteSet(KeptPages) /\ Cardinality(KeptPages) \in Nat
      /\ Cardinality(KeptPages) < PagesCnt
      /\ page_pool \in [Cached -> Page]
      /\ PagesCnt \in Nat
  BY RoomMade, PoolAssumption DEF CoreInv, PoolTypeOK
<1>2. /\ Cached' = KeptPages \cup {pid}
      /\ page_pool' \in [Cached' -> Page]
      /\ page_pool'[pid] = new
      /\ \A p \in KeptPages : p # pid /\ page_pool'[p] = page_pool[p]
  BY <1>1 DEF Keep, Cached
<1>3. lru' \in Seq(PageId) /\ Names(lru', Cached')
  <2>1. KeptPages \subseteq PageId /\ pid \notin KeptPages
    BY <1>1
  <2>2. QED
    BY <1>1, <1>2, <2>1, ConsNames
<1>4. FileTypeOK'
  <2>1. good' \in [Table -> BOOLEAN]
    BY DEF CoreInv, PoolTypeOK, FileTypeOK
  <2>2. QED
    BY <2>1, VictimWritten DEF FileTypeOK
<1>5. PoolTypeOK'
  BY <1>1, <1>2, <1>3, <1>4 DEF PoolTypeOK
<1>6. LruSound' /\ PoolExact'
  <2>1. LruSound' /\ \A p \in Cached' : OnLru(p)'
    BY <1>3 DEF Names, LruSound, LruDistinct, OnLru
  <2>2. pid \notin KeptPages
    BY <1>1
  <2>3. Cardinality(KeptPages \cup {pid}) = Cardinality(KeptPages) + 1
    BY <1>1, <2>2, FS_AddElement
  <2>4. Cardinality(Cached') <= PagesCnt
    BY <1>1, <1>2, <2>3
  <2>5. QED
    BY <2>1, <2>4 DEF PoolExact
<1>7. FreeSpaceExact'
  BY <1>1, <1>2 DEF FreeSpaceExact, FreeExact, CoreInv, PoolInv
<1>8. CleanPagesOnFile'
  <2> SUFFICES ASSUME NEW p \in Cached', ~page_pool'[p].dirty
               PROVE  page_pool'[p].data = disk'[p] /\ NumberOf(p) < disk_pages'[TableOf(p)]
    BY DEF CleanPagesOnFile
  <2>1. p \in PageId /\ TableOf(p) \in Table /\ NumberOf(p) \in Nat
    BY <1>1, <1>2, PageIdParts
  <2>2. disk_pages[TableOf(p)] \in Nat /\ disk_pages'[TableOf(p)] \in Nat
        /\ disk_pages[TableOf(p)] <= disk_pages'[TableOf(p)]
    BY <2>1, <1>4, FileAssumption, VictimWritten DEF CoreInv, PoolTypeOK, FileTypeOK
  <2>3. disk'[p] = disk[p]
    BY <1>2, <2>1, VictimWritten
  <2>4. CASE p = pid
    BY <1>2, <2>1, <2>2, <2>3, <2>4
  <2>5. CASE p \in KeptPages
    BY <1>1, <1>2, <2>1, <2>2, <2>3, <2>5 DEF CoreInv, PoolInv, CleanPagesOnFile
  <2>6. QED
    BY <1>2, <2>4, <2>5
<1>9. LengthsAgree'
  <2>1. \A t \in Table : disk_pages'[t] <= file_length'[t]
    BY <1>4, FileAssumption, VictimWritten DEF FileTypeOK, CoreInv, PoolTypeOK
  <2>2. ASSUME NEW p \in Cached' PROVE NumberOf(p) < file_length'[TableOf(p)]
    <3>1. CASE p = pid
      BY <3>1
    <3>2. CASE p \in KeptPages
      <4>1. /\ p \in Cached /\ p \in PageId
            /\ TableOf(p) \in Table /\ NumberOf(p) \in Nat
        BY <1>1, <3>2, PageIdParts
      <4>2. NumberOf(p) < file_length[TableOf(p)]
        BY <4>1 DEF CoreInv, PoolInv, LengthsAgree, InRange
      <4>3. file_length[TableOf(p)] \in Nat /\ file_length'[TableOf(p)] \in Nat
        BY <4>1, FileAssumption DEF CoreInv, PoolTypeOK, FileTypeOK
      <4>4. QED
        BY <4>1, <4>2, <4>3
    <3>3. QED
      BY <1>2, <3>1, <3>2
  <2>3. QED
    BY <2>1, <2>2, VictimWritten DEF LengthsAgree, InRange
<1>10. \A t \in Table : good'[t]
  BY DEF CoreInv, PoolInv
<1>11. ASSUME NEW p \in PageId, InRange(p)'
       PROVE  p \in Cached' \/ NumberOf(p) < disk_pages'[TableOf(p)]
  <2>1. CASE p = pid
    BY <1>2, <2>1
  <2>2. CASE p # pid
    <3>1. InRange(p)
      BY <1>11, <2>2 DEF InRange
    <3>2. p \in Cached \/ NumberOf(p) < disk_pages[TableOf(p)]
      BY <3>1 DEF CoreInv, PoolInv
    <3>3. p \in Cached \ KeptPages => NumberOf(p) < disk_pages'[TableOf(p)]
      BY VictimWritten
    <3>4. /\ NumberOf(p) \in Nat /\ TableOf(p) \in Table
          /\ disk_pages[TableOf(p)] \in Nat /\ disk_pages'[TableOf(p)] \in Nat
          /\ disk_pages[TableOf(p)] <= disk_pages'[TableOf(p)]
      BY <1>4, FileAssumption, PageIdParts, VictimWritten DEF CoreInv, PoolTypeOK, FileTypeOK
    <3>5. QED
      BY <1>2, <3>2, <3>3, <3>4
  <2>3. QED
    BY <2>1, <2>2
<1>12. CoreInv'
  BY <1>5, <1>6, <1>7, <1>8, <1>9, <1>10, <1>11 DEF CoreInv, PoolInv
<1>13. WroteBack
  BY Visible, VictimWritten DEF WroteBack, SeenInPoolOrFile
<1>14. Contents' = [Contents EXCEPT ![pid] = new.data]
  <2>1. ASSUME NEW p \in PageId
        PROVE  Contents'[p] = IF p = pid THEN new.data ELSE Contents[p]
    <3>1. Contents'[p] = IF p \in Cached' THEN page_pool'[p].data ELSE disk'[p]
      BY <1>12, VisibleNext DEF SeenInPoolOrFile
    <3>2. Contents[p] = IF p \in Cached THEN page_pool[p].data ELSE disk[p]
      BY Visible DEF SeenInPoolOrFile
    <3>3. CASE p = pid
      BY <1>2, <3>1, <3>3
    <3>4. CASE p # pid /\ p \in KeptPages
      BY <1>1, <1>2, <3>1, <3>2, <3>4
    <3>5. CASE p # pid /\ p \in Cached \ KeptPages
      BY <1>2, <3>1, <3>2, <3>5, VictimWritten
    <3>6. CASE p # pid /\ p \notin Cached
      BY <1>1, <1>2, <3>1, <3>2, <3>6, VictimWritten
    <3>7. QED
      BY <3>3, <3>4, <3>5, <3>6
  <2>2. Contents' = [p \in PageId |-> Contents'[p]]
    BY DEF Contents
  <2>3. Contents = [p \in PageId |-> Contents[p]]
    BY DEF Contents
  <2>4. QED
    BY <2>1, <2>2, <2>3
<1>15. QED
  BY <1>2, <1>12, <1>13, <1>14

\* A cached page is changed in place, wherever it goes on the list.
LEMMA UpdateStep ==
  ASSUME CoreInv, NEW pid \in PageId, pid \in Cached,
         NEW new \in Page, FreeExact(new), new.dirty \/ new = page_pool[pid],
         page_pool' = [page_pool EXCEPT ![pid] = new],
         lru' \in Seq(PageId), Names(lru', Cached), UNCHANGED fileVars
  PROVE  /\ CoreInv'
         /\ Contents' = [Contents EXCEPT ![pid] = new.data]
         /\ WroteBack
         /\ Cached' = Cached
<1>1. /\ Cached \subseteq PageId /\ page_pool \in [Cached -> Page]
      /\ disk' = disk /\ disk_pages' = disk_pages
      /\ file_length' = file_length /\ good' = good
  BY DEF CoreInv, PoolTypeOK, fileVars
<1>2. /\ Cached' = Cached
      /\ page_pool' \in [Cached' -> Page]
      /\ page_pool'[pid] = new
      /\ \A p \in Cached : p # pid => page_pool'[p] = page_pool[p]
  BY <1>1 DEF Cached
<1>3. PoolTypeOK'
  BY <1>1, <1>2 DEF CoreInv, PoolTypeOK, FileTypeOK
<1>4. LruSound' /\ PoolExact'
  BY <1>2 DEF CoreInv, PoolInv, Names, LruSound, LruDistinct, OnLru, PoolExact
<1>5. FreeSpaceExact'
  BY <1>2 DEF FreeSpaceExact, FreeExact, CoreInv, PoolInv
<1>6. CleanPagesOnFile'
  BY <1>1, <1>2 DEF CleanPagesOnFile, CoreInv, PoolInv
<1>7. LengthsAgree' /\ \A t \in Table : good'[t]
  BY <1>1, <1>2 DEF LengthsAgree, InRange, CoreInv, PoolInv
<1>8. \A p \in PageId : InRange(p)' => p \in Cached' \/ NumberOf(p) < disk_pages'[TableOf(p)]
  BY <1>1, <1>2 DEF CoreInv, PoolInv, InRange
<1>9. CoreInv'
  BY <1>3, <1>4, <1>5, <1>6, <1>7, <1>8 DEF CoreInv, PoolInv
<1>10. Contents' = [Contents EXCEPT ![pid] = new.data]
  <2>1. \A p \in PageId : Contents'[p] = IF p = pid THEN new.data ELSE Contents[p]
    BY <1>1, <1>2, <1>9, Visible, VisibleNext DEF SeenInPoolOrFile
  <2>2. /\ Contents' = [p \in PageId |-> Contents'[p]]
        /\ Contents = [p \in PageId |-> Contents[p]]
    BY DEF Contents
  <2>3. QED
    BY <2>1, <2>2
<1>11. QED
  BY <1>1, <1>2, <1>9, <1>10 DEF WroteBack

\* GetPage and what its caller makes of the page.
LEMMA GetPageStep ==
  ASSUME CoreInv, Malformed = {}, NEW pid \in PageId,
         NEW new \in Page, FreeExact(new), new.dirty \/ new = Fetched(pid),
         GetPage(pid, new)
  PROVE  /\ CoreInv'
         /\ Contents' = [Contents EXCEPT ![pid] = new.data]
         /\ WroteBack
         /\ pid \in Cached'
         /\ file_length' = file_length
         /\ InRange(pid)
<1>1. Names(lru, Cached) /\ lru \in Seq(PageId) /\ Cached \subseteq PageId
  BY LruNames DEF CoreInv, PoolTypeOK
<1>2. CASE Hit(pid, new)
  <2>1. pid \in Cached
    BY <1>2 DEF Hit
  <2>2. PICK i \in DOMAIN lru : lru[i] = pid /\ lru' = Cons(pid, RemoveAt(lru, i))
    BY <1>2 DEF Hit
  <2>3. /\ RemoveAt(lru, i) \in Seq(PageId)
        /\ Names(RemoveAt(lru, i), Cached \ {pid})
    BY <1>1, <2>2, RemoveAtNames
  <2>4. lru' \in Seq(PageId) /\ Names(lru', (Cached \ {pid}) \cup {pid})
    <3>1. Cached \ {pid} \subseteq PageId /\ pid \notin Cached \ {pid}
      BY <1>1
    <3>2. /\ Cons(pid, RemoveAt(lru, i)) \in Seq(PageId)
          /\ Names(Cons(pid, RemoveAt(lru, i)), (Cached \ {pid}) \cup {pid})
      BY <2>3, <3>1, ConsNames
    <3>3. QED
      BY <2>2, <3>2
  <2>5. (Cached \ {pid}) \cup {pid} = Cached
    BY <2>1
  <2>6. new.dirty \/ new = page_pool[pid]
    BY <2>1 DEF Fetched
  <2>7. page_pool' = [page_pool EXCEPT ![pid] = new] /\ UNCHANGED fileVars
    BY <1>2 DEF Hit
  <2>8. /\ CoreInv' /\ WroteBack /\ Cached' = Cached
        /\ Contents' = [Contents EXCEPT ![pid] = new.data]
    BY <2>1, <2>4, <2>5, <2>6, <2>7, UpdateStep
  <2>9. InRange(pid)
    BY <2>1 DEF CoreInv, PoolInv, LengthsAgree
  <2>10. QED
    BY <2>1, <2>7, <2>8, <2>9 DEF fileVars
<1>3. ~HitDangling(pid, new)
  BY DEF HitDangling, CoreInv, PoolInv, PoolExact
<1>4. CASE Miss(pid, new)
  <2>1. /\ pid \notin Cached /\ InRange(pid) /\ WriteVictim /\ ReadStream(pid)
        /\ Keep(pid, new) /\ lru' = Cons(pid, KeptLru) /\ file_length' = file_length
    BY <1>4 DEF Miss
  <2>2. NumberOf(pid) < disk_pages[TableOf(pid)]
    BY <2>1 DEF CoreInv, PoolInv
  <2>3. /\ TableOf(pid) \in Table /\ NumberOf(pid) \in Nat
        /\ file_length \in [Table -> 0 .. MaxPages]
        /\ disk_pages \in [Table -> 0 .. MaxPages]
        /\ good \in [Table -> BOOLEAN] /\ good[TableOf(pid)]
    BY PageIdParts DEF CoreInv, PoolTypeOK, FileTypeOK, PoolInv
  <2>4. NumberOf(pid) < disk_pages'[TableOf(pid)]
    BY <2>1, <2>2, <2>3, FileAssumption, VictimWritten
  <2>5. UNCHANGED good
    BY <2>1, <2>3, <2>4 DEF ReadStream
  <2>6. ~new.dirty => new.data = disk[pid]
    BY <2>1, FetchedExact, Visible DEF SeenInPoolOrFile
  <2>7. \A t \in Table : file_length[t] <= file_length'[t]
    BY <2>1, <2>3, FileAssumption
  <2>8. /\ NumberOf(pid) < file_length'[TableOf(pid)]
        /\ file_length' \in [Table -> 0 .. MaxPages]
        /\ \A p \in PageId : p # pid /\ NumberOf(p) < file_length'[TableOf(p)] => InRange(p)
    BY <2>1, <2>3 DEF InRange
  <2>9. /\ CoreInv' /\ WroteBack /\ Cached' = KeptPages \cup {pid}
        /\ Contents' = [Contents EXCEPT ![pid] = new.data]
    BY <2>1, <2>2, <2>5, <2>6, <2>7, <2>8, InstallStep
  <2>10. QED
    BY <2>1, <2>9
<1>5. QED
  BY <1>2, <1>3, <1>4 DEF GetPage

\* The page asked for does not exist: a page may have been evicted for it.
LEMMA RangeErrorStep ==
  ASSUME CoreInv, NEW pid, RangeError(pid)
  PROVE  /\ CoreInv'
         /\ Contents' = Contents
         /\ WroteBack
         /\ file_length' = file_length
         /\ ~InRange(pid)
<1>1. /\ WriteVictim /\ lru' = KeptLru
      /\ page_pool' = [p \in KeptPages |-> page_pool[p]]
      /\ file_length' = file_length /\ good' = good /\ ~InRange(pid)
  BY DEF RangeError
<1>2. /\ KeptPages \subseteq Cached /\ Cached \subseteq PageId
      /\ KeptLru \in Seq(PageId) /\ Names(KeptLru, KeptPages)
      /\ Cardinality(KeptPages) \in Nat /\ Cardinality(KeptPages) < PagesCnt
      /\ page_pool \in [Cached -> Page] /\ PagesCnt \in Nat
      /\ disk_pages \in [Table -> 0 .. MaxPages] /\ MaxPages \in Nat
      /\ FileTypeOK
  BY RoomMade, PoolAssumption, FileAssumption DEF CoreInv, PoolTypeOK, FileTypeOK
<1>3. /\ Cached' = KeptPages
      /\ page_pool' \in [Cached' -> Page]
      /\ \A p \in KeptPages : page_pool'[p] = page_pool[p]
  BY <1>1, <1>2 DEF Cached
<1>4. PoolTypeOK'
  BY <1>1, <1>2, <1>3, VictimWritten DEF PoolTypeOK, FileTypeOK
<1>5. LruSound' /\ PoolExact'
  BY <1>1, <1>2, <1>3 DEF Names, LruSound, LruDistinct, OnLru, PoolExact
<1>6. FreeSpaceExact'
  BY <1>2, <1>3 DEF FreeSpaceExact, CoreInv, PoolInv
<1>7. \A p \in PageId : /\ TableOf(p) \in Table /\ NumberOf(p) \in Nat
                        /\ disk_pages[TableOf(p)] \in Nat /\ disk_pages'[TableOf(p)] \in Nat
                        /\ disk_pages[TableOf(p)] <= disk_pages'[TableOf(p)]
  BY <1>1, <1>2, PageIdParts, VictimWritten
<1>8. CleanPagesOnFile'
  <2> SUFFICES ASSUME NEW p \in KeptPages, ~page_pool[p].dirty
               PROVE  page_pool[p].data = disk'[p] /\ NumberOf(p) < disk_pages'[TableOf(p)]
    BY <1>3 DEF CleanPagesOnFile
  <2>1. p \in Cached /\ p \in PageId /\ disk'[p] = disk[p]
    BY <1>1, <1>2, VictimWritten
  <2>2. page_pool[p].data = disk[p] /\ NumberOf(p) < disk_pages[TableOf(p)]
    BY <2>1 DEF CoreInv, PoolInv, CleanPagesOnFile
  <2>3. QED
    BY <1>7, <2>1, <2>2
<1>9. LengthsAgree' /\ \A t \in Table : good'[t]
  BY <1>1, <1>2, <1>3, VictimWritten DEF LengthsAgree, InRange, CoreInv, PoolInv
<1>10. ASSUME NEW p \in PageId, InRange(p)'
       PROVE  p \in Cached' \/ NumberOf(p) < disk_pages'[TableOf(p)]
  <2>1. p \in Cached \/ NumberOf(p) < disk_pages[TableOf(p)]
    BY <1>1, <1>10 DEF InRange, CoreInv, PoolInv
  <2>2. p \in Cached \ KeptPages => NumberOf(p) < disk_pages'[TableOf(p)]
    BY <1>1, VictimWritten
  <2>3. QED
    BY <1>3, <1>7, <2>1, <2>2
<1>11. CoreInv'
  BY <1>4, <1>5, <1>6, <1>8, <1>9, <1>10 DEF CoreInv, PoolInv
<1>12. Contents' = Contents
  <2>1. \A p \in PageId : Contents'[p] = Contents[p]
    BY <1>1, <1>2, <1>3, <1>11, Visible, VisibleNext, VictimWritten DEF SeenInPoolOrFile
  <2>2. /\ Contents' = [p \in PageId |-> Contents'[p]]
        /\ Contents = [p \in PageId |-> Contents[p]]
    BY DEF Contents
  <2>3. QED
    BY <2>1, <2>2
<1>13. WroteBack
  BY <1>1, Visible, VictimWritten DEF WroteBack, SeenInPoolOrFile
<1>14. QED
  BY <1>1, <1>11, <1>12, <1>13

\* A page is created and given to the pool.
LEMMA NewPageStep ==
  ASSUME CoreInv, NEW t \in Table, NEW pid, pid = NewPageId(t),
         file_length[t] < MaxPages,
         NEW new \in Page, FreeExact(new), new.dirty,
         InsertPage(pid, new), CreatePage(t)
  PROVE  /\ pid \in PageId /\ TableOf(pid) = t
         /\ CoreInv'
         /\ Contents[pid] = Blank
         /\ Contents' = [Contents EXCEPT ![pid] = new.data]
         /\ WroteBack
         /\ \A u \in Table : file_length[u] <= file_length'[u]
<1>1. /\ file_length \in [Table -> 0 .. MaxPages] /\ MaxPages \in Nat
      /\ file_length' = [file_length EXCEPT ![t] = @ + 1]
  BY FileAssumption DEF CoreInv, PoolTypeOK, FileTypeOK, CreatePage
<1>2. pid \in PageId /\ TableOf(pid) = t /\ NumberOf(pid) = file_length[t]
  BY <1>1, MakePageId DEF NewPageId
<1>3. pid \notin Cached
  BY <1>1, <1>2 DEF CoreInv, PoolInv, LengthsAgree, InRange
<1>4. Contents[pid] = Blank
  <2>1. disk_pages[t] <= NumberOf(pid)
    BY <1>2 DEF CoreInv, PoolInv, LengthsAgree
  <2>2. disk[pid] = Blank
    BY <1>2, <2>1 DEF CoreInv, PoolInv, LengthsAgree
  <2>3. QED
    BY <1>2, <1>3, <2>2, Visible DEF SeenInPoolOrFile
<1>5. /\ file_length' \in [Table -> 0 .. MaxPages]
      /\ \A u \in Table : file_length[u] <= file_length'[u]
      /\ NumberOf(pid) < file_length'[TableOf(pid)]
  BY <1>1, <1>2
<1>6. ASSUME NEW p \in PageId, p # pid, NumberOf(p) < file_length'[TableOf(p)]
      PROVE  InRange(p)
  <2>1. /\ TableOf(p) \in Table /\ NumberOf(p) \in Nat
        /\ p = <<TableOf(p), NumberOf(p)>> /\ pid = <<TableOf(pid), NumberOf(pid)>>
    BY <1>2, PageIdParts
  <2>2. CASE TableOf(p) = t
    BY <1>1, <1>2, <1>6, <2>1, <2>2 DEF InRange
  <2>3. CASE TableOf(p) # t
    BY <1>1, <1>6, <2>1, <2>3 DEF InRange
  <2>4. QED
    BY <2>2, <2>3
<1>7. WriteVictim /\ Keep(pid, new) /\ lru' = Cons(pid, KeptLru) /\ UNCHANGED good
  BY DEF InsertPage
<1>8. /\ CoreInv' /\ WroteBack
      /\ Contents' = [Contents EXCEPT ![pid] = new.data]
  BY <1>2, <1>3, <1>5, <1>6, <1>7, InstallStep
<1>9. QED
  BY <1>2, <1>4, <1>5, <1>8

\* FlushPage of a cached page, which stays in the pool.
LEMMA FlushPageStep ==
  ASSUME CoreInv, NEW v \in Cached, WritePage(v, page_pool[v]),
         UNCHANGED <<file_length, good, page_pool, lru>>
  PROVE  /\ CoreInv'
         /\ Contents' = Contents
         /\ WroteBack
         /\ disk'[v] = page_pool[v].data
         /\ \A p \in PageId : p # v => disk'[p] = disk[p]
<1>1. /\ disk' \in [PageId -> Data]
      /\ disk_pages' \in [Table -> 0 .. MaxPages]
      /\ \A t \in Table : disk_pages[t] <= disk_pages'[t] /\ disk_pages'[t] <= file_length[t]
      /\ disk'[v] = page_pool[v].data
      /\ NumberOf(v) < disk_pages'[TableOf(v)]
      /\ \A p \in PageId : p # v => disk'[p] = disk[p]
      /\ \A p \in PageId : disk_pages'[TableOf(p)] <= NumberOf(p) => disk'[p] = Blank
  BY PageWritten
<1>2. \A p \in PageId : /\ TableOf(p) \in Table /\ NumberOf(p) \in Nat
                        /\ disk_pages[TableOf(p)] \in Nat /\ disk_pages'[TableOf(p)] \in Nat
                        /\ disk_pages[TableOf(p)] <= disk_pages'[TableOf(p)]
  BY <1>1, PageIdParts, FileAssumption DEF CoreInv, PoolTypeOK, FileTypeOK
<1>3. PoolTypeOK'
  BY <1>1 DEF CoreInv, PoolTypeOK, FileTypeOK, Cached
<1>4. FreeSpaceExact' /\ LruSound' /\ PoolExact'
  BY DEF CoreInv, PoolInv, FreeSpaceExact, LruSound, LruDistinct, OnLru, PoolExact, Cached
<1>5. CleanPagesOnFile'
  <2> SUFFICES ASSUME NEW p \in Cached, ~page_pool[p].dirty
               PROVE  page_pool[p].data = disk'[p] /\ NumberOf(p) < disk_pages'[TableOf(p)]
    BY DEF CleanPagesOnFile, Cached
  <2>1. p \in PageId
    BY DEF CoreInv, PoolTypeOK
  <2>2. page_pool[p].data = disk[p] /\ NumberOf(p) < disk_pages[TableOf(p)]
    BY DEF CoreInv, PoolInv, CleanPagesOnFile
  <2>3. QED
    BY <1>1, <1>2, <2>1, <2>2
<1>6. LengthsAgree' /\ \A t \in Table : good'[t]
  BY <1>1 DEF CoreInv, PoolInv, LengthsAgree, InRange, Cached
<1>7. ASSUME NEW p \in PageId, InRange(p)'
      PROVE  p \in Cached' \/ NumberOf(p) < disk_pages'[TableOf(p)]
  <2>1. p \in Cached \/ NumberOf(p) < disk_pages[TableOf(p)]
    BY <1>7 DEF InRange, CoreInv, PoolInv
  <2>2. QED
    BY <1>2, <2>1 DEF Cached
<1>8. CoreInv'
  BY <1>3, <1>4, <1>5, <1>6, <1>7 DEF CoreInv, PoolInv
<1>9. \A p \in PageId : Contents'[p] = Contents[p]
  <2>1. Cached' = Cached
    BY DEF Cached
  <2>2. QED
    BY <1>1, <1>8, <2>1, Visible, VisibleNext DEF SeenInPoolOrFile
<1>10. Contents' = Contents
  <2>1. /\ Contents' = [p \in PageId |-> Contents'[p]]
        /\ Contents = [p \in PageId |-> Contents[p]]
    BY DEF Contents
  <2>2. QED
    BY <1>9, <2>1
<1>11. WroteBack
  <2>1. Contents[v] = page_pool[v].data
    BY Visible DEF SeenInPoolOrFile, CoreInv, PoolTypeOK
  <2>2. QED
    BY <1>1, <2>1 DEF WroteBack
<1>12. QED
  BY <1>1, <1>8, <1>10, <1>11

\* The process is gone: what is left is what the files hold.
LEMMA StopStep ==
  ASSUME CoreInv, page_pool' = <<>>, lru' = <<>>, Reopen
  PROVE  /\ CoreInv'
         /\ Cached' = {}
         /\ disk' = disk
         /\ \A p \in PageId : Contents'[p] = disk[p]
<1>1. /\ file_length' = disk_pages /\ disk_pages' = disk_pages /\ disk' = disk
      /\ good' = [t \in Table |-> TRUE]
  BY DEF Reopen
<1>2. Cached' = {} /\ page_pool' \in [{} -> Page]
  BY DEF Cached
<1>3. lru' \in Seq(PageId) /\ DOMAIN lru' = {}
  BY EmptySeq
<1>4. PoolTypeOK'
  BY <1>1, <1>2, <1>3 DEF PoolTypeOK, FileTypeOK, CoreInv
<1>5. Cardinality(Cached') <= PagesCnt
  BY <1>2, FS_EmptySet, PoolAssumption
<1>6. FreeSpaceExact' /\ LruSound' /\ PoolExact' /\ CleanPagesOnFile'
  BY <1>2, <1>3, <1>5
  DEF FreeSpaceExact, LruSound, LruDistinct, OnLru, PoolExact, CleanPagesOnFile
<1>7. LengthsAgree' /\ \A t \in Table : good'[t]
  BY <1>1, <1>2, FileAssumption
  DEF LengthsAgree, InRange, CoreInv, PoolInv, PoolTypeOK, FileTypeOK
<1>8. \A p \in PageId : InRange(p)' => NumberOf(p) < disk_pages'[TableOf(p)]
  BY <1>1 DEF InRange
<1>9. CoreInv'
  BY <1>4, <1>6, <1>7, <1>8 DEF CoreInv, PoolInv
<1>10. QED
  BY <1>1, <1>2, <1>9, VisibleNext DEF SeenInPoolOrFile

LEMMA UnchangedStep ==
  ASSUME CoreInv, UNCHANGED <<fileVars, poolVars>>
  PROVE  /\ CoreInv'
         /\ Contents' = Contents
         /\ WroteBack
         /\ Cached' = Cached
<1>1. /\ disk' = disk /\ disk_pages' = disk_pages /\ file_length' = file_length
      /\ good' = good /\ page_pool' = page_pool /\ lru' = lru
  BY DEF fileVars, poolVars
<1>2. PoolTypeOK'
  BY <1>1 DEF CoreInv, PoolTypeOK, FileTypeOK, Cached
<1>3. PoolInv'
  BY <1>1 DEF CoreInv, PoolInv, FreeSpaceExact, LruSound, LruDistinct, OnLru, PoolExact,
              CleanPagesOnFile, LengthsAgree, InRange, Cached
<1>4. Contents' = Contents
  BY <1>1 DEF Contents, Fetched, ReadData, Cached
<1>5. QED
  BY <1>1, <1>2, <1>3, <1>4 DEF CoreInv, WroteBack, Cached

-----------------------------------------------------------------------------
(* From pages to rows *)

LEMMA RecordIdParts ==
  ASSUME NEW rid \in RecordId
  PROVE  PageOf(rid) \in PageId /\ SlotOf(rid) \in Slot /\ rid = <<PageOf(rid), SlotOf(rid)>>
  BY DEF RecordId, PageOf, SlotOf

LEMMA WroteBackRows ==
  ASSUME WroteBack
  PROVE  Store!WriteBack
<1>1. DOMAIN StableRows' = RecordId
  BY DEF StableRows
<1>2. ASSUME NEW rid \in RecordId
      PROVE  StableRows'[rid] = StableRows[rid] \/ StableRows'[rid] = Rows[rid]
  BY RecordIdParts DEF StableRows, Rows, WroteBack
<1>3. QED
  BY <1>1, <1>2 DEF Store!WriteBack

LEMMA SameRows ==
  ASSUME Contents' = Contents
  PROVE  Rows' = Rows
  BY DEF Rows

\* The first n of a list of tuples are in distinct slots that were free.
Takes(old, n, ts, new) ==
  \E q \in [1 .. n -> FreeSlots(old)] :
    /\ \A i, j \in 1 .. n : q[i] = q[j] => i = j
    /\ \A i \in 1 .. n : new[q[i]] = ts[i]
    /\ \A s \in Slot : (\A i \in 1 .. n : q[i] # s) => new[s] = old[s]

\* The tuples taken by one page of the statement's table.
LEMMA AddRows ==
  ASSUME CoreInv, WroteBack, NEW pid \in PageId, TableOf(pid) = table_id, pc = "insert",
         NEW n \in 0 .. Len(tuples), NEW data,
         Takes(Contents[pid], n, tuples, data),
         Contents' = [Contents EXCEPT ![pid] = data],
         tuples' = SubSeq(tuples, n + 1, Len(tuples)),
         UNCHANGED <<pc, result, table_id, ids>>
  PROVE  Store!Add
<1>0. PICK q \in [1 .. n -> FreeSlots(Contents[pid])] :
         /\ \A i, j \in 1 .. n : q[i] = q[j] => i = j
         /\ \A i \in 1 .. n : data[q[i]] = tuples[i]
         /\ \A s \in Slot : (\A i \in 1 .. n : q[i] # s) => data[s] = Contents[pid][s]
  BY DEF Takes
<1> DEFINE at == [i \in 1 .. n |-> <<pid, q[i]>>]
<1>1. \A i \in 1 .. n : q[i] \in Slot /\ Contents[pid][q[i]] = Empty
  BY DEF FreeSlots
<1>2. \A i \in 1 .. n : /\ at[i] \in RecordId
                        /\ PageOf(at[i]) = pid /\ SlotOf(at[i]) = q[i]
  BY <1>1 DEF RecordId, PageOf, SlotOf
<1>3. at \in [1 .. n -> {r \in RecordId : HomeOf[r] = table_id /\ Rows[r] = Empty}]
  BY <1>1, <1>2 DEF HomeOf, Rows
<1>4. \A i, j \in 1 .. n : at[i] = at[j] => i = j
  BY <1>0, <1>2
<1>5. /\ Contents'[pid] = data
      /\ \A p \in PageId : p # pid => Contents'[p] = Contents[p]
  BY DEF Contents
<1>6. \A i \in 1 .. n : Rows'[at[i]] = tuples[i]
  BY <1>0, <1>2, <1>5 DEF Rows
<1>7. ASSUME NEW r \in RecordId, \A i \in 1 .. n : at[i] # r
      PROVE  Rows'[r] = Rows[r]
  <2>1. /\ PageOf(r) \in PageId /\ SlotOf(r) \in Slot /\ r = <<PageOf(r), SlotOf(r)>>
        /\ Rows'[r] = Contents'[PageOf(r)][SlotOf(r)]
        /\ Rows[r] = Contents[PageOf(r)][SlotOf(r)]
    BY RecordIdParts DEF Rows
  <2>2. CASE PageOf(r) = pid
    <3>1. \A i \in 1 .. n : q[i] # SlotOf(r)
      BY <1>7, <2>1, <2>2
    <3>2. QED
      BY <1>0, <1>5, <2>1, <2>2, <3>1
  <2>3. CASE PageOf(r) # pid
    BY <1>5, <2>1, <2>3
  <2>4. QED
    BY <2>2, <2>3
<1>8. DOMAIN Rows' = RecordId
  BY DEF Rows
<1>9. Store!WriteBack
  BY WroteBackRows
<1> HIDE DEF at
<1>10. QED
  BY <1>3, <1>4, <1>6, <1>7, <1>8, <1>9 DEF Store!Add

\* The row of one record id is gone.
LEMMA RemoveRows ==
  ASSUME CoreInv, WroteBack, NEW pid \in PageId, NEW slot \in Slot, pc = "remove",
         ids # <<>>, Head(ids) = <<pid, slot>>,
         Contents[pid][slot] # Empty,
         Contents' = [Contents EXCEPT ![pid] = [Contents[pid] EXCEPT ![slot] = Empty]],
         ids' = Tail(ids),
         UNCHANGED <<pc, result, table_id, tuples>>
  PROVE  Store!Remove
<1>1. /\ <<pid, slot>> \in RecordId
      /\ PageOf(<<pid, slot>>) = pid /\ SlotOf(<<pid, slot>>) = slot
  BY DEF RecordId, PageOf, SlotOf
<1>2. Rows[<<pid, slot>>] # Empty
  BY <1>1 DEF Rows
<1>3. \A p \in PageId : Contents[p] \in Data
  BY Visible DEF SeenInPoolOrFile
<1>4. ASSUME NEW r \in RecordId
      PROVE  Rows'[r] = IF r = <<pid, slot>> THEN Empty ELSE Rows[r]
  <2>1. /\ PageOf(r) \in PageId /\ SlotOf(r) \in Slot /\ r = <<PageOf(r), SlotOf(r)>>
        /\ Rows'[r] = Contents'[PageOf(r)][SlotOf(r)]
        /\ Rows[r] = Contents[PageOf(r)][SlotOf(r)]
    BY RecordIdParts DEF Rows
  <2>2. /\ Contents'[pid] = [Contents[pid] EXCEPT ![slot] = Empty]
        /\ \A p \in PageId : p # pid => Contents'[p] = Contents[p]
    BY DEF Contents
  <2>3. \A s \in Slot : Contents'[pid][s] = IF s = slot THEN Empty ELSE Contents[pid][s]
    BY <1>3, <2>2 DEF Data
  <2>4. QED
    BY <2>1, <2>2, <2>3
<1>5. Rows' = [Rows EXCEPT ![<<pid, slot>>] = Empty]
  <2>1. Rows' = [r \in RecordId |-> Rows'[r]] /\ Rows = [r \in RecordId |-> Rows[r]]
    BY DEF Rows
  <2>2. QED
    BY <1>4, <2>1
<1>6. Store!WriteBack
  BY WroteBackRows
<1>7. QED
  BY <1>2, <1>5, <1>6 DEF Store!Remove

-----------------------------------------------------------------------------
(* The statements *)

\* The part of the type invariant about statements.
StmtTypeOK ==
  /\ pc \in {"idle", "insert", "remove", "scan", "flush", "down"}
  /\ result \in {"none", "ok", "error"}
  /\ table_id \in Table
  /\ page_no \in 0 .. MaxPages
  /\ page_count \in 0 .. MaxPages
  /\ tuples \in Seq(Tuple)
  /\ ids \in Seq(RecordId)
  /\ held \subseteq PageId
  /\ output \in [RecordId -> Nat]
  /\ left \subseteq PageId

StmtInv == StmtTypeOK /\ StatementSound /\ ScanSound /\ HeldPagesCached

LEMMA InvParts == IInv <=> CoreInv /\ StmtInv
  BY DEF IInv, TypeOK, CoreInv, PoolTypeOK, StmtInv, StmtTypeOK

LEMMA InvPartsNext == CoreInv' /\ StmtInv' => IInv'
  BY InvParts, PTL

\* What the theorem says of one step.
Simulates == IInv' /\ Store!Next

LEMMA BatchType ==
  ASSUME NEW S, NEW s \in Batch(S)
  PROVE  s \in Seq(S)
<1>1. PICK n \in 0 .. MaxBatch : s \in [1 .. n -> S]
  BY DEF Batch
<1>2. n \in Nat
  BY PoolAssumption
<1>3. QED
  BY <1>1, <1>2, SeqDef

LEMMA SubSeqFacts ==
  ASSUME NEW S, NEW s \in Seq(S), NEW n \in 0 .. Len(s)
  PROVE  /\ SubSeq(s, 1, n) \in Seq(S) /\ Len(SubSeq(s, 1, n)) = n
         /\ \A i \in 1 .. n : SubSeq(s, 1, n)[i] = s[i]
         /\ SubSeq(s, n + 1, Len(s)) \in Seq(S)
<1>1. Len(s) \in Nat /\ n \in Int /\ n + 1 \in Int /\ \A i \in 1 .. Len(s) : s[i] \in S
  BY LenProperties, ElementOfSeq
<1>2. (\A i \in 1 .. n : s[i] \in S) /\ (\A i \in n + 1 .. Len(s) : s[i] \in S)
  BY <1>1
<1>3. /\ SubSeq(s, 1, n) \in Seq(S)
      /\ Len(SubSeq(s, 1, n)) = IF 1 <= n THEN n - 1 + 1 ELSE 0
      /\ \A i \in 1 .. n - 1 + 1 : SubSeq(s, 1, n)[i] = s[1 + i - 1]
  BY <1>1, <1>2, SubSeqProperties
<1>4. SubSeq(s, n + 1, Len(s)) \in Seq(S)
  BY <1>1, <1>2, SubSeqProperties
<1>5. QED
  BY <1>1, <1>3, <1>4

\* The first n of a list of tuples go to distinct free slots of the page.
LEMMA FirstAdded ==
  ASSUME NEW page \in Page, FreeExact(page), NEW s \in Seq(Tuple),
         NEW n \in 0 .. Len(s), n <= page.free,
         NEW new \in AddTuples(page, SubSeq(s, 1, n))
  PROVE  /\ SetDirty(new) \in Page /\ FreeExact(SetDirty(new))
         /\ SetDirty(new).data = new.data /\ SetDirty(new).dirty
         /\ Takes(page.data, n, s, new.data)
<1> DEFINE ts == SubSeq(s, 1, n)
<1>1. ts \in Seq(Tuple) /\ Len(ts) = n /\ \A i \in 1 .. n : ts[i] = s[i]
  BY SubSeqFacts
<1>2. new \in AddTuples(page, ts)
  OBVIOUS
<1> HIDE DEF ts
<1>3. Len(ts) <= page.free
  BY <1>1
<1>4. /\ new \in Page /\ FreeExact(new)
      /\ \E q \in [1 .. Len(ts) -> FreeSlots(page.data)] :
           /\ \A i, j \in 1 .. Len(ts) : q[i] = q[j] => i = j
           /\ \A i \in 1 .. Len(ts) : new.data[q[i]] = ts[i]
           /\ \A x \in Slot : (\A i \in 1 .. Len(ts) : q[i] # x) => new.data[x] = page.data[x]
  BY <1>1, <1>2, <1>3, AddTuplesExact
<1>5. /\ SetDirty(new) \in Page /\ FreeExact(SetDirty(new))
      /\ SetDirty(new).data = new.data /\ SetDirty(new).dirty
  BY <1>4, SetDirtyExact DEF FreeExact
<1>6. QED
  BY <1>1, <1>4, <1>5 DEF Takes

LEMMA ForgetSound ==
  ASSUME IInv, CoreInv', Forget, pc' \in {"idle", "down"}, pc' = "down" => Cached' = {},
         result' \in {"none", "ok", "error"}
  PROVE  StmtInv'
<1>1. StmtTypeOK'
  BY EmptySeq, FileAssumption DEF Forget, StmtTypeOK, IInv, TypeOK, Nothing
<1>2. StatementSound' /\ ScanSound' /\ HeldPagesCached'
  BY DEF Forget, StatementSound, ScanSound, HeldPagesCached, Nothing
<1>3. QED
  BY <1>1, <1>2 DEF StmtInv

LEMMA BeginInsertStep ==
  ASSUME IInv, NEW t \in Table, NEW ts \in Batch(Tuple), BeginInsert(t, ts)
  PROVE  Simulates
<1>1. CoreInv /\ StmtInv
  BY InvParts
<1>2. /\ pc = "idle" /\ pc' = "insert" /\ result' = "none" /\ table_id' = t /\ page_no' = 0
      /\ tuples' = ts /\ page_count' = file_length[t]
      /\ ids' = ids /\ held' = held /\ output' = output /\ left' = left
      /\ UNCHANGED <<fileVars, poolVars>>
  BY DEF BeginInsert, Begin
<1>3. /\ CoreInv' /\ Contents' = Contents /\ disk' = disk
      /\ file_length' = file_length /\ Cached' = Cached
  BY <1>1, <1>2, UnchangedStep DEF fileVars
<1>4. StmtTypeOK'
  BY <1>1, <1>2, BatchType, FileAssumption
  DEF StmtInv, StmtTypeOK, CoreInv, PoolTypeOK, FileTypeOK
<1>5. file_length[t] \in Nat /\ held = {} /\ left = {} /\ ids = <<>>
  BY <1>1, <1>2, FileAssumption DEF StmtInv, StatementSound, CoreInv, PoolTypeOK, FileTypeOK
<1>6. StatementSound' /\ ScanSound' /\ HeldPagesCached'
  BY <1>1, <1>2, <1>3, <1>5 DEF StmtInv, StatementSound, ScanSound, HeldPagesCached
<1>7. Store!Begin
  BY <1>2, <1>3, <1>5, SameRows DEF Store!Begin, StableRows
<1>8. QED
  BY <1>3, <1>4, <1>6, <1>7, InvPartsNext DEF Simulates, StmtInv, Store!Next

LEMMA BeginRemoveStep ==
  ASSUME IInv, NEW t \in Table, NEW rids \in Batch(RecordId), BeginRemove(t, rids)
  PROVE  Simulates
<1>1. CoreInv /\ StmtInv
  BY InvParts
<1>2. /\ pc = "idle" /\ pc' = "remove" /\ result' = "none" /\ table_id' = t /\ page_no' = 0
      /\ ids' = rids /\ page_count' = file_length[t]
      /\ tuples' = tuples /\ held' = held /\ output' = output /\ left' = left
      /\ UNCHANGED <<fileVars, poolVars>>
  BY DEF BeginRemove, Begin
<1>3. /\ CoreInv' /\ Contents' = Contents /\ disk' = disk
      /\ file_length' = file_length /\ Cached' = Cached
  BY <1>1, <1>2, UnchangedStep DEF fileVars
<1>4. StmtTypeOK'
  BY <1>1, <1>2, BatchType, FileAssumption
  DEF StmtInv, StmtTypeOK, CoreInv, PoolTypeOK, FileTypeOK
<1>5. held = {} /\ left = {} /\ tuples = <<>>
  BY <1>1, <1>2 DEF StmtInv, StatementSound
<1>6. StatementSound' /\ ScanSound' /\ HeldPagesCached'
  BY <1>1, <1>2, <1>3, <1>5 DEF StmtInv, StatementSound, ScanSound, HeldPagesCached
<1>7. Store!Begin
  BY <1>2, <1>3, <1>5, SameRows DEF Store!Begin, StableRows
<1>8. QED
  BY <1>3, <1>4, <1>6, <1>7, InvPartsNext DEF Simulates, StmtInv, Store!Next

LEMMA BeginScanStep ==
  ASSUME IInv, NEW t \in Table, BeginScan(t)
  PROVE  Simulates
<1>1. CoreInv /\ StmtInv
  BY InvParts
<1>2. /\ pc = "idle" /\ pc' = "scan" /\ result' = "none" /\ table_id' = t /\ page_no' = 0
      /\ page_count' = 0
      /\ ids' = ids /\ tuples' = tuples /\ held' = held /\ output' = output /\ left' = left
      /\ UNCHANGED <<fileVars, poolVars>>
  BY DEF BeginScan, Begin
<1>3. /\ CoreInv' /\ Contents' = Contents /\ disk' = disk
      /\ file_length' = file_length /\ Cached' = Cached
  BY <1>1, <1>2, UnchangedStep DEF fileVars
<1>4. StmtTypeOK'
  BY <1>1, <1>2, FileAssumption DEF StmtInv, StmtTypeOK
<1>5. held = {} /\ left = {} /\ tuples = <<>> /\ ids = <<>> /\ output = Nothing
  BY <1>1, <1>2 DEF StmtInv, StatementSound
<1>6. StatementSound' /\ HeldPagesCached'
  BY <1>2, <1>3, <1>5 DEF StatementSound, HeldPagesCached
<1>7. ScanSound'
  <2>1. \A rid \in RecordId : ~(NumberOf(PageOf(rid)) < 0)
    BY RecordIdParts, PageIdParts
  <2>2. QED
    BY <1>2, <1>5, <2>1 DEF ScanSound, Nothing
<1>8. Store!Begin
  BY <1>2, <1>3, <1>5, SameRows DEF Store!Begin, StableRows
<1>9. QED
  BY <1>3, <1>4, <1>6, <1>7, <1>8, InvPartsNext DEF Simulates, StmtInv, Store!Next

\* First loop of InsertTuples.
LEMMA InsertExistingStep ==
  ASSUME IInv, Malformed = {}, InsertExisting
  PROVE  Simulates
<1>1. CoreInv /\ StmtInv
  BY InvParts
<1>2. /\ pc = "insert" /\ page_no < page_count /\ tuples # <<>>
      /\ page_no \in Nat /\ page_count \in 0 .. MaxPages /\ MaxPages \in Nat
      /\ tuples \in Seq(Tuple) /\ table_id \in Table
      /\ page_count <= file_length[table_id]
      /\ file_length[table_id] \in Nat
      /\ left = {} /\ held = {}
  BY <1>1, FileAssumption DEF InsertExisting, StmtInv, StmtTypeOK, StatementSound,
                              CoreInv, PoolTypeOK, FileTypeOK
<1>3. PICK pid \in PageId : pid = <<table_id, page_no>>
  <2>1. page_no < MaxPages
    BY <1>2
  <2>2. QED
    BY <1>2, <2>1, MakePageId
<1>4. TableOf(pid) = table_id /\ NumberOf(pid) = page_no /\ InRange(pid)
  BY <1>2, <1>3, MakePageId DEF InRange
<1>5. ~GetPageFails(pid)
  BY <1>1, <1>4, NeverFails DEF GetPageFails, EvictError, RangeError
<1>6. PICK n : n = ToAdd(Fetched(pid))
  OBVIOUS
<1>7. /\ \E new \in AddTuples(Fetched(pid), SubSeq(tuples, 1, n)) : GetPage(pid, SetDirty(new))
      /\ TuplesAdded(n)
      /\ page_no' = page_no + 1
      /\ UNCHANGED <<pc, result, table_id, page_count, ids, held, output, left>>
  BY <1>3, <1>5, <1>6 DEF InsertExisting
<1>8. PICK new \in AddTuples(Fetched(pid), SubSeq(tuples, 1, n)) : GetPage(pid, SetDirty(new))
  BY <1>7
<1>9. /\ Fetched(pid) \in Page /\ FreeExact(Fetched(pid))
      /\ Fetched(pid).data = Contents[pid] /\ Contents[pid] \in Data
  BY <1>1, FetchedExact, Visible DEF SeenInPoolOrFile
<1>10. Fetched(pid).free \in Nat
  BY <1>9, FreeSlotsFinite DEF FreeExact
<1>11. n \in 0 .. Len(tuples) /\ n <= Fetched(pid).free
  BY <1>2, <1>6, <1>10, LenProperties DEF ToAdd
<1>12. SubSeq(tuples, n + 1, Len(tuples)) \in Seq(Tuple)
  BY <1>2, <1>11, SubSeqFacts
<1>13. /\ SetDirty(new) \in Page /\ FreeExact(SetDirty(new))
       /\ SetDirty(new).data = new.data /\ SetDirty(new).dirty
       /\ Takes(Fetched(pid).data, n, tuples, new.data)
  BY <1>2, <1>8, <1>9, <1>11, FirstAdded
<1>14. Takes(Contents[pid], n, tuples, new.data)
  BY <1>9, <1>13
<1>15. /\ CoreInv' /\ Contents' = [Contents EXCEPT ![pid] = new.data] /\ WroteBack
       /\ file_length' = file_length
  BY <1>1, <1>8, <1>13, GetPageStep
<1>16. tuples' = SubSeq(tuples, n + 1, Len(tuples))
  BY <1>7 DEF TuplesAdded
<1>17. StmtInv'
  <2>1. StmtTypeOK'
    BY <1>1, <1>2, <1>7, <1>12, <1>16 DEF StmtInv, StmtTypeOK
  <2>2. StatementSound' /\ ScanSound' /\ HeldPagesCached'
    BY <1>1, <1>2, <1>7, <1>15 DEF StmtInv, StatementSound, ScanSound, HeldPagesCached
  <2>3. QED
    BY <2>1, <2>2 DEF StmtInv
<1>18. Store!Add
  <2>1. /\ WroteBack /\ TableOf(pid) = table_id /\ pc = "insert"
        /\ Contents' = [Contents EXCEPT ![pid] = new.data]
        /\ UNCHANGED <<pc, result, table_id, ids>>
    BY <1>2, <1>4, <1>7, <1>15
  <2>2. QED
    BY <1>1, <1>11, <1>14, <1>16, <2>1, AddRows
<1>19. QED
  BY <1>15, <1>17, <1>18, InvPartsNext DEF Simulates, Store!Next

\* Second loop of InsertTuples.
LEMMA InsertNewStep ==
  ASSUME IInv, Malformed = {}, InsertNew
  PROVE  Simulates
<1>1. CoreInv /\ StmtInv
  BY InvParts
<1>2. /\ pc = "insert" /\ tuples # <<>> /\ file_length[table_id] < MaxPages
      /\ tuples \in Seq(Tuple) /\ table_id \in Table
      /\ page_count \in Nat
      /\ page_count <= file_length[table_id]
      /\ file_length \in [Table -> 0 .. MaxPages] /\ MaxPages \in Nat
      /\ left = {} /\ held = {}
  BY <1>1, FileAssumption DEF InsertNew, StmtInv, StmtTypeOK, StatementSound,
                              CoreInv, PoolTypeOK, FileTypeOK
<1>3. ~EvictFails
  BY <1>1, NeverFails
<1>4. PICK pid, n, t : /\ pid = NewPageId(table_id) /\ n = ToAdd(Create(Blank)) /\ t = table_id
  OBVIOUS
<1>5. /\ \E new \in AddTuples(Create(Blank), SubSeq(tuples, 1, n)) :
            InsertPage(pid, SetDirty(new))
      /\ CreatePage(t)
      /\ TuplesAdded(n)
      /\ UNCHANGED <<pc, result, table_id, page_no, page_count, ids, held, output, left>>
  BY <1>3, <1>4 DEF InsertNew
<1>6. PICK new \in AddTuples(Create(Blank), SubSeq(tuples, 1, n)) : InsertPage(pid, SetDirty(new))
  BY <1>5
<1>7. /\ Create(Blank) \in Page /\ FreeExact(Create(Blank)) /\ Create(Blank).data = Blank
      /\ Create(Blank).free \in Nat
  BY BlankType, CreateExact, FreeSlotsFinite DEF FreeExact
<1>8. n \in 0 .. Len(tuples) /\ n <= Create(Blank).free
  BY <1>2, <1>4, <1>7, LenProperties DEF ToAdd
<1>9. SubSeq(tuples, n + 1, Len(tuples)) \in Seq(Tuple)
  BY <1>2, <1>8, SubSeqFacts
<1>10. /\ SetDirty(new) \in Page /\ FreeExact(SetDirty(new))
       /\ SetDirty(new).data = new.data /\ SetDirty(new).dirty
       /\ Takes(Create(Blank).data, n, tuples, new.data)
  BY <1>2, <1>6, <1>7, <1>8, FirstAdded
<1>12. /\ pid \in PageId /\ TableOf(pid) = table_id
       /\ CoreInv' /\ Contents[pid] = Blank
       /\ Contents' = [Contents EXCEPT ![pid] = new.data] /\ WroteBack
       /\ \A u \in Table : file_length[u] <= file_length'[u]
  BY <1>1, <1>2, <1>4, <1>5, <1>6, <1>10, NewPageStep
<1>11. Takes(Contents[pid], n, tuples, new.data)
  BY <1>7, <1>10, <1>12
<1>13. tuples' = SubSeq(tuples, n + 1, Len(tuples))
  BY <1>5 DEF TuplesAdded
<1>14. StmtInv'
  <2>1. StmtTypeOK'
    BY <1>1, <1>5, <1>9, <1>13 DEF StmtInv, StmtTypeOK
  <2>2. file_length'[table_id] \in Nat
    BY <1>2, <1>12, FileAssumption DEF CoreInv, PoolTypeOK, FileTypeOK
  <2>3. page_count' <= file_length'[table_id']
    BY <1>2, <1>5, <1>12, <2>2
  <2>4. StatementSound' /\ ScanSound' /\ HeldPagesCached'
    BY <1>1, <1>2, <1>5, <2>3 DEF StmtInv, StatementSound, ScanSound, HeldPagesCached
  <2>5. QED
    BY <2>1, <2>4 DEF StmtInv
<1>15. Store!Add
  <2>1. /\ WroteBack /\ TableOf(pid) = table_id /\ pc = "insert" /\ pid \in PageId
        /\ Contents' = [Contents EXCEPT ![pid] = new.data]
        /\ UNCHANGED <<pc, result, table_id, ids>>
    BY <1>2, <1>5, <1>12
  <2>2. QED
    BY <1>1, <1>8, <1>11, <1>13, <2>1, AddRows
<1>16. QED
  BY <1>12, <1>14, <1>15, InvPartsNext DEF Simulates, Store!Next

LEMMA InsertDoneStep ==
  ASSUME IInv, InsertDone
  PROVE  Simulates
<1>1. CoreInv /\ StmtInv
  BY InvParts
<1>2. /\ pc = "insert" /\ tuples = <<>> /\ pc' = "idle" /\ result' = "ok" /\ Forget
      /\ UNCHANGED <<fileVars, poolVars>>
  BY DEF InsertDone, Return
<1>3. CoreInv' /\ Contents' = Contents /\ WroteBack
  BY <1>1, <1>2, UnchangedStep
<1>4. StmtInv'
  BY <1>2, <1>3, ForgetSound
<1>5. Rows' = Rows /\ Store!WriteBack
  BY <1>3, SameRows, WroteBackRows
<1>6. Store!Finish
  BY <1>2, <1>5 DEF Store!Finish, Store!Return, Forget
<1>7. QED
  BY <1>3, <1>4, <1>6, InvPartsNext DEF Simulates, Store!Next

LEMMA RemoveDoneStep ==
  ASSUME IInv, RemoveDone
  PROVE  Simulates
<1>1. CoreInv /\ StmtInv
  BY InvParts
<1>2. /\ pc = "remove" /\ ids = <<>> /\ pc' = "idle" /\ result' = "ok" /\ Forget
      /\ UNCHANGED <<fileVars, poolVars>>
  BY DEF RemoveDone, Return
<1>3. CoreInv' /\ Contents' = Contents /\ WroteBack
  BY <1>1, <1>2, UnchangedStep
<1>4. StmtInv'
  BY <1>2, <1>3, ForgetSound
<1>5. Rows' = Rows /\ Store!WriteBack
  BY <1>3, SameRows, WroteBackRows
<1>6. Store!Finish
  BY <1>2, <1>5 DEF Store!Finish, Store!Return, Forget
<1>7. QED
  BY <1>3, <1>4, <1>6, InvPartsNext DEF Simulates, Store!Next

LEMMA BeginFlushStep ==
  ASSUME IInv, BeginFlush
  PROVE  Simulates
<1>1. CoreInv /\ StmtInv
  BY InvParts
<1>2. /\ pc = "idle" /\ pc' = "flush" /\ result' = "none" /\ left' = Cached
      /\ table_id' = table_id /\ page_no' = page_no /\ page_count' = page_count
      /\ ids' = ids /\ tuples' = tuples /\ held' = held /\ output' = output
      /\ UNCHANGED <<fileVars, poolVars>>
  BY DEF BeginFlush
<1>3. /\ CoreInv' /\ Contents' = Contents /\ disk' = disk
      /\ Cached' = Cached /\ Cached \subseteq PageId
  BY <1>1, <1>2, UnchangedStep DEF fileVars, CoreInv, PoolTypeOK
<1>4. StmtTypeOK'
  BY <1>1, <1>2, <1>3 DEF StmtInv, StmtTypeOK
<1>5. StatementSound' /\ ScanSound' /\ HeldPagesCached'
  BY <1>1, <1>2, <1>3 DEF StmtInv, StatementSound, ScanSound, HeldPagesCached
<1>6. Store!Close
  BY <1>2, <1>3, SameRows DEF Store!Close, StableRows
<1>7. QED
  BY <1>3, <1>4, <1>5, <1>6, InvPartsNext DEF Simulates, StmtInv, Store!Next

\* FlushPages may take any page it has not come to.
LEMMA FlushNextStep ==
  ASSUME IInv, Malformed = {}, FlushNext
  PROVE  Simulates
<1>1. CoreInv /\ StmtInv
  BY InvParts
<1>2. /\ pc = "flush" /\ tuples = <<>> /\ ids = <<>> /\ held = {} /\ output = Nothing
      /\ left \subseteq Cached /\ Cached \subseteq PageId
      /\ \A p \in Cached \ left : page_pool[p].data = disk[p]
      /\ UNCHANGED <<file_length, good, page_pool, lru>>
      /\ UNCHANGED <<pc, result, table_id, page_no, page_count, tuples, ids, held, output>>
  BY <1>1 DEF FlushNext, poolVars, StmtInv, StatementSound, CoreInv, PoolTypeOK
<1>3. PICK v \in left :
        \/ /\ ~page_pool[v].dirty
           /\ left' = left \ {v}
           /\ UNCHANGED <<disk, disk_pages>>
        \/ /\ page_pool[v].dirty /\ ~WriteFails(v, page_pool[v])
           /\ WritePage(v, page_pool[v])
           /\ left' = left \ {v}
        \/ /\ page_pool[v].dirty /\ WriteFails(v, page_pool[v])
           /\ left' = {}
           /\ UNCHANGED <<disk, disk_pages>>
  BY DEF FlushNext, GiveUp
<1>4. v \in Cached
  BY <1>2
<1>5. ~WriteFails(v, page_pool[v])
  BY <1>1, <1>4 DEF WriteFails, Serialisable, CoreInv, PoolInv, LengthsAgree
<1>6. /\ CoreInv' /\ Contents' = Contents /\ WroteBack
      /\ left' = left \ {v}
      /\ disk'[v] = page_pool[v].data
      /\ \A p \in PageId : p # v => disk'[p] = disk[p]
  <2>1. CASE ~page_pool[v].dirty /\ left' = left \ {v} /\ UNCHANGED <<disk, disk_pages>>
    <3>1. UNCHANGED <<fileVars, poolVars>>
      BY <1>2, <2>1 DEF fileVars, poolVars
    <3>2. page_pool[v].data = disk[v]
      BY <1>1, <1>4, <2>1 DEF CoreInv, PoolInv, CleanPagesOnFile
    <3>3. QED
      BY <1>1, <2>1, <3>1, <3>2, UnchangedStep
  <2>2. CASE WritePage(v, page_pool[v]) /\ left' = left \ {v}
    BY <1>1, <1>2, <1>4, <2>2, FlushPageStep
  <2>3. QED
    BY <1>3, <1>5, <2>1, <2>2
<1>7. Cached' = Cached
  BY <1>2 DEF Cached
<1>8. StmtTypeOK'
  BY <1>1, <1>2, <1>6 DEF StmtInv, StmtTypeOK
<1>9. \A p \in Cached \ left' : page_pool[p].data = disk'[p]
  BY <1>2, <1>6
<1>10. StatementSound' /\ ScanSound' /\ HeldPagesCached'
  BY <1>2, <1>6, <1>7, <1>9 DEF StatementSound, ScanSound, HeldPagesCached, Nothing
<1>11. Rows' = Rows /\ Store!WriteBack
  BY <1>6, SameRows, WroteBackRows
<1>12. Store!Copy
  BY <1>2, <1>11 DEF Store!Copy
<1>13. QED
  BY <1>6, <1>8, <1>10, <1>12, InvPartsNext DEF Simulates, StmtInv, Store!Next

\* When FlushPages is through, the files have what queries saw.
LEMMA FlushDoneStep ==
  ASSUME IInv, FlushDone
  PROVE  Simulates
<1>1. CoreInv /\ StmtInv
  BY InvParts
<1>2. /\ pc = "flush" /\ left = {} /\ pc' = "down" /\ result' = "ok"
      /\ page_pool' = <<>> /\ lru' = <<>> /\ Reopen /\ Forget
      /\ \A p \in Cached \ left : page_pool[p].data = disk[p]
      /\ tuples = <<>> /\ ids = <<>>
  BY <1>1 DEF FlushDone, Stop, StmtInv, StatementSound
<1>3. CoreInv' /\ Cached' = {} /\ disk' = disk /\ \A p \in PageId : Contents'[p] = disk[p]
  BY <1>1, <1>2, StopStep
<1>4. StmtInv'
  BY <1>2, <1>3, ForgetSound
<1>5. \A p \in PageId : Contents[p] = disk[p]
  BY <1>1, <1>2, Visible DEF SeenInPoolOrFile
<1>6. StableRows = Rows /\ Rows' = Rows /\ StableRows' = StableRows
  <2>1. \A r \in RecordId : /\ Rows[r] = StableRows[r]
                             /\ Rows'[r] = StableRows[r]
                             /\ StableRows'[r] = StableRows[r]
    BY <1>3, <1>5, RecordIdParts DEF Rows, StableRows
  <2>2. QED
    BY <2>1 DEF Rows, StableRows
<1>7. Store!Closed
  BY <1>2, <1>6 DEF Store!Closed, Store!Stop, Forget
<1>8. QED
  BY <1>3, <1>4, <1>7, InvPartsNext DEF Simulates, Store!Next

LEMMA KillStep ==
  ASSUME IInv, Kill
  PROVE  Simulates
<1>1. CoreInv /\ StmtInv
  BY InvParts
<1>2. /\ pc # "down" /\ pc' = "down" /\ result' = "error"
      /\ page_pool' = <<>> /\ lru' = <<>> /\ Reopen /\ Forget
  BY DEF Kill, Stop
<1>3. CoreInv' /\ Cached' = {} /\ disk' = disk /\ \A p \in PageId : Contents'[p] = disk[p]
  BY <1>1, <1>2, StopStep
<1>4. StmtInv'
  BY <1>2, <1>3, ForgetSound
<1>5. Rows' = StableRows /\ StableRows' = StableRows
  <2>1. \A r \in RecordId : Rows'[r] = StableRows[r] /\ StableRows'[r] = StableRows[r]
    BY <1>3, RecordIdParts DEF Rows, StableRows
  <2>2. QED
    BY <2>1 DEF Rows, StableRows
<1>6. Store!Die
  BY <1>2, <1>5 DEF Store!Die, Store!Stop, Forget
<1>7. QED
  BY <1>3, <1>4, <1>6, InvPartsNext DEF Simulates, Store!Next

LEMMA StartStep ==
  ASSUME IInv, Start
  PROVE  Simulates
<1>1. CoreInv /\ StmtInv
  BY InvParts
<1>2. /\ pc = "down" /\ pc' = "idle" /\ result' = "none"
      /\ UNCHANGED <<fileVars, poolVars, stmtVars>>
  BY DEF Start
<1>3. CoreInv' /\ Contents' = Contents /\ disk' = disk /\ Cached' = Cached
  BY <1>1, <1>2, UnchangedStep DEF fileVars
<1>4. StmtTypeOK'
  BY <1>1, <1>2 DEF StmtInv, StmtTypeOK, stmtVars
<1>5. StatementSound' /\ ScanSound' /\ HeldPagesCached'
  BY <1>1, <1>2, <1>3 DEF StmtInv, StatementSound, ScanSound, HeldPagesCached, stmtVars
<1>6. Store!Start
  BY <1>2, <1>3, SameRows DEF Store!Start, StableRows, stmtVars
<1>7. QED
  BY <1>3, <1>4, <1>5, <1>6, InvPartsNext DEF Simulates, StmtInv, Store!Next

\* RemoveTuples uses the page it holds, or asks the pool for it.
LEMMA UsePageStep ==
  ASSUME CoreInv, Malformed = {}, held \subseteq Cached, NEW pid \in PageId,
         NEW new \in Page, FreeExact(new), new.dirty \/ new = Fetched(pid),
         IF pid \in held
         THEN page_pool' = [page_pool EXCEPT ![pid] = new] /\ UNCHANGED <<fileVars, lru>>
         ELSE GetPage(pid, new)
  PROVE  /\ CoreInv'
         /\ Contents' = [Contents EXCEPT ![pid] = new.data]
         /\ WroteBack
         /\ pid \in Cached'
<1>1. CASE pid \in held
  <2>1. pid \in Cached /\ lru \in Seq(PageId) /\ Names(lru, Cached)
    BY <1>1, LruNames DEF CoreInv, PoolTypeOK
  <2>2. Fetched(pid) = page_pool[pid]
    BY <2>1 DEF Fetched
  <2>3. lru' \in Seq(PageId) /\ Names(lru', Cached)
    BY <1>1, <2>1
  <2>4. QED
    BY <1>1, <2>1, <2>2, <2>3, UpdateStep
<1>2. CASE pid \notin held
  BY <1>2, GetPageStep
<1>3. QED
  BY <1>1, <1>2

\* A page that does not exist has no rows.
LEMMA NothingPastEnd ==
  ASSUME CoreInv, NEW p \in PageId, ~InRange(p)
  PROVE  Contents[p] = Blank
<1>1. p \notin Cached
  BY DEF CoreInv, PoolInv, LengthsAgree
<1>2. /\ TableOf(p) \in Table /\ NumberOf(p) \in Nat /\ MaxPages \in Nat
      /\ file_length[TableOf(p)] \in 0 .. MaxPages /\ disk_pages[TableOf(p)] \in 0 .. MaxPages
  BY PageIdParts, FileAssumption DEF CoreInv, PoolTypeOK, FileTypeOK
<1>3. disk_pages[TableOf(p)] <= file_length[TableOf(p)]
  BY <1>2 DEF CoreInv, PoolInv, LengthsAgree
<1>4. disk_pages[TableOf(p)] <= NumberOf(p)
  BY <1>2, <1>3 DEF InRange
<1>5. disk[p] = Blank
  BY <1>4 DEF CoreInv, PoolInv, LengthsAgree
<1>6. QED
  BY <1>1, <1>5, Visible DEF SeenInPoolOrFile

\* Writing back what was there changes nothing that can be seen.
LEMMA SamePage ==
  ASSUME NEW pid \in PageId, Contents' = [Contents EXCEPT ![pid] = Contents[pid]]
  PROVE  Contents' = Contents
  BY DEF Contents

LEMMA RemoveNextStep ==
  ASSUME IInv, Malformed = {}, RemoveNext
  PROVE  Simulates
<1>1. CoreInv /\ StmtInv
  BY InvParts
<1>2. /\ pc = "remove" /\ ids # <<>> /\ ids \in Seq(RecordId)
      /\ held \subseteq Cached /\ left = {} /\ tuples = <<>> /\ output = Nothing
  BY <1>1 DEF RemoveNext, StmtInv, StmtTypeOK, StatementSound, HeldPagesCached
<1>3. Head(ids) \in RecordId /\ Tail(ids) \in Seq(RecordId)
  BY <1>2, HeadTailProperties
<1>4. PICK pid \in PageId, slot \in Slot :
        pid = PageOf(Head(ids)) /\ slot = SlotOf(Head(ids)) /\ Head(ids) = <<pid, slot>>
  BY <1>3, RecordIdParts
<1>5. PICK old, gone : old = Fetched(pid) /\ gone = SetDirty(RemoveRecord(old, slot))
  OBVIOUS
<1>6. /\ old \in Page /\ FreeExact(old) /\ old.data = Contents[pid] /\ Contents[pid] \in Data
  BY <1>1, <1>5, FetchedExact, Visible DEF SeenInPoolOrFile
<1>7. CASE /\ HasRecord(old, slot)
           /\ IF pid \in held
              THEN page_pool' = [page_pool EXCEPT ![pid] = gone] /\ UNCHANGED <<fileVars, lru>>
              ELSE GetPage(pid, gone)
           /\ ids' = Tail(ids) /\ held' = {pid}
           /\ UNCHANGED <<pc, result, table_id, page_no, page_count, tuples, output, left>>
  <2>1. /\ RemoveRecord(old, slot) \in Page /\ FreeExact(RemoveRecord(old, slot))
        /\ RemoveRecord(old, slot).data = [Contents[pid] EXCEPT ![slot] = Empty]
    BY <1>6, <1>7, RemoveRecordExact
  <2>2. /\ gone \in Page /\ FreeExact(gone) /\ gone.dirty
        /\ gone.data = [Contents[pid] EXCEPT ![slot] = Empty]
    BY <1>5, <2>1, SetDirtyExact DEF FreeExact
  <2>3. /\ CoreInv' /\ WroteBack /\ pid \in Cached'
        /\ Contents' = [Contents EXCEPT ![pid] = gone.data]
    BY <1>1, <1>2, <1>7, <2>2, UsePageStep
  <2>4. Contents[pid][slot] # Empty
    BY <1>6, <1>7 DEF HasRecord
  <2>5. Store!Remove
    BY <1>1, <1>2, <1>4, <1>7, <2>2, <2>3, <2>4, RemoveRows
  <2>6. StmtTypeOK'
    BY <1>1, <1>3, <1>7 DEF StmtInv, StmtTypeOK
  <2>7. StatementSound' /\ ScanSound' /\ HeldPagesCached'
    BY <1>2, <1>7, <2>3 DEF StatementSound, ScanSound, HeldPagesCached
  <2>8. QED
    BY <2>3, <2>5, <2>6, <2>7, InvPartsNext DEF Simulates, StmtInv, Store!Next
<1>8. CASE /\ Return("error") /\ Contents[pid][slot] = Empty
           /\ CoreInv' /\ Contents' = Contents /\ WroteBack
  <2>1. pc' = "idle" /\ result' = "error" /\ Forget
    BY <1>8 DEF Return
  <2>2. StmtInv'
    BY <1>8, <2>1, ForgetSound
  <2>3. Rows' = Rows /\ Store!WriteBack
    BY <1>8, SameRows, WroteBackRows
  <2>4. Rows[Head(ids)] = Empty
    BY <1>3, <1>4, <1>8 DEF Rows
  <2>5. Store!Finish
    BY <1>2, <2>1, <2>3, <2>4 DEF Store!Finish, Store!Return, Forget
  <2>6. QED
    BY <1>8, <2>2, <2>5, InvPartsNext DEF Simulates, Store!Next
<1>9. CASE /\ ~HasRecord(old, slot)
           /\ IF pid \in held
              THEN page_pool' = [page_pool EXCEPT ![pid] = old] /\ UNCHANGED <<fileVars, lru>>
              ELSE GetPage(pid, old)
           /\ Return("error")
  <2>1. Contents[pid][slot] = Empty
    BY <1>6, <1>9 DEF HasRecord
  <2>2. /\ CoreInv' /\ WroteBack
        /\ Contents' = [Contents EXCEPT ![pid] = old.data]
    BY <1>1, <1>2, <1>5, <1>6, <1>9, UsePageStep
  <2>3. Contents' = Contents
    BY <1>6, <2>2, SamePage
  <2>4. QED
    BY <1>8, <1>9, <2>1, <2>2, <2>3
<1>10. CASE pid \notin held /\ GetPageFails(pid) /\ Return("error")
  <2>1. RangeError(pid)
    BY <1>1, <1>10, NeverFails DEF GetPageFails, EvictError
  <2>2. CoreInv' /\ Contents' = Contents /\ WroteBack /\ ~InRange(pid)
    BY <1>1, <2>1, RangeErrorStep
  <2>3. Contents[pid][slot] = Empty
    BY <1>1, <2>2, NothingPastEnd DEF Blank
  <2>4. QED
    BY <1>8, <1>10, <2>2, <2>3
<1>11. QED
  BY <1>4, <1>5, <1>7, <1>9, <1>10 DEF RemoveNext, Hold

\* A scan that asks for a page past the end has passed every page with a row.
LEMMA ScanComplete ==
  ASSUME IInv, pc = "scan", ~InRange(<<table_id, page_no>>)
  PROVE  output = [rid \in RecordId |->
                     IF HomeOf[rid] = table_id /\ Rows[rid] # Empty THEN 1 ELSE 0]
<1>1. CoreInv /\ StmtInv
  BY InvParts
<1>2. /\ page_no \in Nat /\ table_id \in Table
      /\ file_length[table_id] \in Nat
      /\ file_length[table_id] <= page_no
  BY <1>1, FileAssumption
  DEF StmtInv, StmtTypeOK, CoreInv, PoolTypeOK, FileTypeOK, InRange, TableOf, NumberOf
<1>3. ASSUME NEW rid \in RecordId, TableOf(PageOf(rid)) = table_id,
             Contents[PageOf(rid)][SlotOf(rid)] # Empty
      PROVE  NumberOf(PageOf(rid)) < page_no
  <2>1. PageOf(rid) \in PageId /\ SlotOf(rid) \in Slot
    BY RecordIdParts
  <2>2. Contents[PageOf(rid)] # Blank
    BY <1>3, <2>1 DEF Blank
  <2>3. InRange(PageOf(rid))
    BY <1>1, <2>1, <2>2, NothingPastEnd
  <2>4. QED
    BY <1>2, <1>3, <2>1, <2>3, PageIdParts DEF InRange
<1>4. output = [rid \in RecordId |->
                  IF /\ TableOf(PageOf(rid)) = table_id
                     /\ NumberOf(PageOf(rid)) < page_no
                     /\ Contents[PageOf(rid)][SlotOf(rid)] # Empty
                  THEN 1 ELSE 0]
  BY <1>1 DEF StmtInv, ScanSound
<1>5. \A rid \in RecordId : /\ HomeOf[rid] = TableOf(PageOf(rid))
                            /\ Rows[rid] = Contents[PageOf(rid)][SlotOf(rid)]
  BY DEF HomeOf, Rows
<1>6. QED
  BY <1>3, <1>4, <1>5

\* Passing a page adds its rows to the output.
LEMMA ScanAdvance ==
  ASSUME IInv, pc = "scan", pc' = "scan", NEW pid \in PageId, pid = <<table_id, page_no>>,
         Contents' = Contents,
         output' = [rid \in RecordId |->
                      IF PageOf(rid) = pid /\ HasRecord(Fetched(pid), SlotOf(rid))
                      THEN output[rid] + 1 ELSE output[rid]],
         page_no' = page_no + 1, table_id' = table_id
  PROVE  ScanSound' /\ output' \in [RecordId -> Nat]
<1>1. CoreInv /\ StmtInv
  BY InvParts
<1>2. /\ page_no \in Nat /\ output \in [RecordId -> Nat]
      /\ Fetched(pid).data = Contents[pid]
  BY <1>1, FetchedExact, FileAssumption DEF StmtInv, StmtTypeOK
<1>3. /\ TableOf(pid) = table_id /\ NumberOf(pid) = page_no
      /\ output = [rid \in RecordId |->
                     IF /\ TableOf(PageOf(rid)) = table_id
                        /\ NumberOf(PageOf(rid)) < page_no
                        /\ Contents[PageOf(rid)][SlotOf(rid)] # Empty
                     THEN 1 ELSE 0]
  BY <1>1 DEF StmtInv, ScanSound, TableOf, NumberOf
<1>4. ASSUME NEW rid \in RecordId
      PROVE  output'[rid] = IF /\ TableOf(PageOf(rid)) = table_id
                               /\ NumberOf(PageOf(rid)) < page_no + 1
                               /\ Contents[PageOf(rid)][SlotOf(rid)] # Empty
                            THEN 1 ELSE 0
  <2>1. /\ PageOf(rid) \in PageId /\ SlotOf(rid) \in Slot
        /\ NumberOf(PageOf(rid)) \in Nat
        /\ PageOf(rid) = <<TableOf(PageOf(rid)), NumberOf(PageOf(rid))>>
    BY RecordIdParts, PageIdParts
  <2>2. output'[rid] = IF PageOf(rid) = pid /\ HasRecord(Fetched(pid), SlotOf(rid))
                       THEN output[rid] + 1 ELSE output[rid]
    OBVIOUS
  <2>3. CASE PageOf(rid) = pid
    <3>1. HasRecord(Fetched(pid), SlotOf(rid)) <=> Contents[pid][SlotOf(rid)] # Empty
      BY <1>2, <2>1 DEF HasRecord
    <3>2. output[rid] = 0
      BY <1>2, <1>3, <2>3
    <3>3. QED
      BY <1>2, <1>3, <2>2, <2>3, <3>1, <3>2
  <2>4. CASE PageOf(rid) # pid
    <3>1. TableOf(PageOf(rid)) = table_id => NumberOf(PageOf(rid)) # page_no
      BY <2>1, <2>4
    <3>2. TableOf(PageOf(rid)) = table_id =>
            (NumberOf(PageOf(rid)) < page_no + 1 <=> NumberOf(PageOf(rid)) < page_no)
      BY <1>2, <2>1, <3>1
    <3>3. QED
      BY <1>3, <2>2, <2>4, <3>2
  <2>5. QED
    BY <2>3, <2>4
<1>5. ScanSound'
  BY <1>4 DEF ScanSound
<1>6. output' \in [RecordId -> Nat]
  BY <1>4
<1>7. QED
  BY <1>5, <1>6

LEMMA ScanPageStep ==
  ASSUME IInv, Malformed = {}, ScanPage
  PROVE  Simulates /\ (pc' = "idle" => ~InRange(<<table_id, page_no>>))
<1>1. CoreInv /\ StmtInv
  BY InvParts
<1>2. /\ pc = "scan" /\ page_no \in Nat /\ page_no <= MaxPages /\ MaxPages \in Nat
      /\ table_id \in Table /\ file_length[table_id] \in 0 .. MaxPages
      /\ held = {} /\ left = {} /\ tuples = <<>> /\ ids = <<>>
  BY <1>1, FileAssumption DEF ScanPage, StmtInv, StmtTypeOK, StatementSound,
                              CoreInv, PoolTypeOK, FileTypeOK
<1>3. PICK pid : pid = <<table_id, page_no>>
  OBVIOUS
<1>4. CASE /\ GetPage(pid, Fetched(pid))
           /\ output' = [rid \in RecordId |->
                           IF PageOf(rid) = pid /\ HasRecord(Fetched(pid), SlotOf(rid))
                           THEN output[rid] + 1 ELSE output[rid]]
           /\ page_no' = page_no + 1
           /\ UNCHANGED <<pc, result, table_id, page_count, tuples, ids, held, left>>
  <2>1. pid \in PageId /\ page_no < MaxPages
    <3>1. CASE pid \in Cached
      <4>1. pid \in PageId
        BY <1>1, <3>1 DEF CoreInv, PoolTypeOK
      <4>2. NumberOf(pid) = page_no
        BY <1>3 DEF NumberOf
      <4>3. QED
        BY <4>1, <4>2, PageIdParts
    <3>2. CASE pid \notin Cached
      <4>1. InRange(pid)
        BY <1>4, <3>2 DEF GetPage, Hit, HitDangling, Miss
      <4>2. page_no < MaxPages
        BY <1>2, <1>3, <4>1 DEF InRange, TableOf, NumberOf
      <4>3. QED
        BY <1>2, <1>3, <4>2, MakePageId
    <3>3. QED
      BY <3>1, <3>2
  <2>2. PICK old : old = Fetched(pid)
    OBVIOUS
  <2>3. old \in Page /\ FreeExact(old) /\ old.data = Contents[pid]
    BY <1>1, <2>1, <2>2, FetchedExact
  <2>4. /\ CoreInv' /\ WroteBack
        /\ Contents' = [Contents EXCEPT ![pid] = old.data]
    BY <1>1, <1>4, <2>1, <2>2, <2>3, GetPageStep
  <2>5. Contents' = Contents
    BY <2>1, <2>3, <2>4, SamePage
  <2>6. ScanSound' /\ output' \in [RecordId -> Nat]
    BY <1>2, <1>3, <1>4, <2>1, <2>5, ScanAdvance
  <2>7. page_no' \in 0 .. MaxPages
    BY <1>2, <1>4, <2>1
  <2>8. StmtTypeOK'
    BY <1>1, <1>4, <2>6, <2>7 DEF StmtInv, StmtTypeOK
  <2>9. StatementSound' /\ HeldPagesCached'
    BY <1>2, <1>4 DEF StatementSound, HeldPagesCached
  <2>10. Rows' = Rows /\ Store!WriteBack
    BY <2>4, <2>5, SameRows, WroteBackRows
  <2>11. Store!Copy
    BY <1>2, <1>4, <2>10 DEF Store!Copy
  <2>12. QED
    BY <1>2, <1>4, <2>4, <2>6, <2>8, <2>9, <2>11, InvPartsNext
    DEF Simulates, StmtInv, Store!Next
<1>5. CASE RangeError(pid) /\ Return(IF page_no = 0 THEN "error" ELSE "ok")
  <2>1. CoreInv' /\ Contents' = Contents /\ WroteBack /\ ~InRange(pid)
    BY <1>1, <1>5, RangeErrorStep
  <2>2. pc' = "idle" /\ result' \in {"error", "ok"} /\ Forget
    BY <1>5 DEF Return
  <2>3. StmtInv'
    BY <2>1, <2>2, ForgetSound
  <2>4. Rows' = Rows /\ Store!WriteBack
    BY <2>1, SameRows, WroteBackRows
  <2>5. Store!Finish
    BY <1>2, <2>2, <2>4 DEF Store!Finish, Store!Return, Forget
  <2>6. QED
    BY <1>3, <2>1, <2>3, <2>5, InvPartsNext DEF Simulates, Store!Next
<1>6. ~(pid \notin Cached /\ EvictError)
  BY <1>1, NeverFails DEF EvictError
<1>7. QED
  BY <1>3, <1>4, <1>5, <1>6 DEF ScanPage

-----------------------------------------------------------------------------
(* The theorems *)

LEMMA InitStep ==
  ASSUME Init
  PROVE  IInv /\ Store!Init
<1>1. /\ disk = [pid \in PageId |-> Blank]
      /\ disk_pages = [t \in Table |-> 0] /\ file_length = [t \in Table |-> 0]
      /\ good = [t \in Table |-> TRUE]
      /\ page_pool = <<>> /\ lru = <<>> /\ pc = "idle" /\ result = "none"
      /\ table_id \in Table /\ page_no = 0 /\ page_count = 0
      /\ tuples = <<>> /\ ids = <<>> /\ held = {} /\ output = Nothing /\ left = {}
  BY DEF Init, FileInit
<1>2. Cached = {}
  BY <1>1 DEF Cached
<1>3. PoolTypeOK
  <2>1. FileTypeOK
    BY <1>1, BlankType, FileAssumption DEF FileTypeOK
  <2>2. page_pool \in [Cached -> Page]
    BY <1>1, <1>2
  <2>3. QED
    BY <1>1, <1>2, <2>1, <2>2, EmptySeq DEF PoolTypeOK
<1>4. PoolInv
  <2>1. FreeSpaceExact /\ CleanPagesOnFile
    BY <1>2 DEF FreeSpaceExact, CleanPagesOnFile
  <2>2. LruSound
    BY <1>1 DEF LruSound, LruDistinct, OnLru
  <2>3. PoolExact
    BY <1>2, FS_EmptySet, PoolAssumption DEF PoolExact
  <2>4. \A pid \in PageId : ~InRange(pid)
    BY <1>1, PageIdParts DEF InRange
  <2>5. LengthsAgree
    BY <1>1, <1>2 DEF LengthsAgree
  <2>6. QED
    BY <1>1, <2>1, <2>2, <2>3, <2>4, <2>5 DEF PoolInv
<1>5. StmtTypeOK
  BY <1>1, FileAssumption, EmptySeq DEF StmtTypeOK, Nothing
<1>6. StatementSound /\ ScanSound /\ HeldPagesCached
  BY <1>1 DEF StatementSound, ScanSound, HeldPagesCached
<1>7. IInv
  BY <1>3, <1>4, <1>5, <1>6, InvParts DEF CoreInv, StmtInv
<1>8. Store!Init
  <2>1. \A pid \in PageId : Contents[pid] = Blank
    BY <1>1, <1>2, <1>3, <1>4, Visible DEF CoreInv, SeenInPoolOrFile
  <2>2. Rows = [r \in RecordId |-> Empty] /\ StableRows = Rows
    <3>1. \A r \in RecordId : Rows[r] = Empty /\ StableRows[r] = Empty
      BY <1>1, <2>1, RecordIdParts DEF Rows, StableRows, Blank
    <3>2. QED
      BY <3>1 DEF Rows, StableRows
  <2>3. QED
    BY <1>1, <2>2 DEF Store!Init
<1>9. QED
  BY <1>7, <1>8

\* A step that changes nothing here changes nothing there.
LEMMA StutterStep ==
  ASSUME IInv, UNCHANGED vars
  PROVE  IInv' /\ UNCHANGED Store!vars
<1>1. CoreInv /\ StmtInv
  BY InvParts
<1>2. /\ UNCHANGED <<fileVars, poolVars, stmtVars, pc, result>>
      /\ page_pool' = page_pool /\ file_length' = file_length
      /\ table_id' = table_id /\ page_no' = page_no /\ page_count' = page_count
      /\ tuples' = tuples /\ ids' = ids /\ held' = held /\ output' = output /\ left' = left
  BY DEF vars, stmtVars, poolVars, fileVars
<1>3. CoreInv' /\ Contents' = Contents /\ Cached' = Cached /\ disk' = disk
  BY <1>1, <1>2, UnchangedStep DEF fileVars
<1>4. StmtTypeOK'
  BY <1>1, <1>2 DEF StmtInv, StmtTypeOK, stmtVars
<1>5. StatementSound' /\ ScanSound' /\ HeldPagesCached'
  <2>1. StatementSound'
    BY <1>1, <1>2, <1>3 DEF StmtInv, StatementSound
  <2>2. ScanSound'
    BY <1>1, <1>2, <1>3 DEF StmtInv, ScanSound
  <2>3. HeldPagesCached'
    BY <1>1, <1>2, <1>3 DEF StmtInv, HeldPagesCached
  <2>4. QED
    BY <2>1, <2>2, <2>3
<1>6. Rows' = Rows /\ StableRows' = StableRows
  BY <1>3 DEF Rows, StableRows
<1>7. QED
  BY <1>2, <1>3, <1>4, <1>5, <1>6, InvPartsNext DEF StmtInv, Store!vars, stmtVars

\* Every step keeps the invariant and is a step of the store, and a scan that
\* ends without error has returned the table.
LEMMA NextStep ==
  ASSUME IInv, Malformed = {}, Next
  PROVE  Simulates /\ ScanReturned
<1>1. CASE \E t \in Table, ts \in Batch(Tuple) : BeginInsert(t, ts)
  BY <1>1, BeginInsertStep DEF BeginInsert, Begin, ScanReturned
<1>2. CASE \E t \in Table, rids \in Batch(RecordId) : BeginRemove(t, rids)
  BY <1>2, BeginRemoveStep DEF BeginRemove, Begin, ScanReturned
<1>3. CASE \E t \in Table : BeginScan(t)
  BY <1>3, BeginScanStep DEF BeginScan, Begin, ScanReturned
<1>4. CASE InsertExisting
  BY <1>4, InsertExistingStep DEF InsertExisting, ScanReturned
<1>5. CASE InsertNew
  BY <1>5, InsertNewStep DEF InsertNew, ScanReturned
<1>6. CASE InsertDone
  BY <1>6, InsertDoneStep DEF InsertDone, ScanReturned
<1>7. CASE RemoveNext
  BY <1>7, RemoveNextStep DEF RemoveNext, ScanReturned
<1>8. CASE RemoveDone
  BY <1>8, RemoveDoneStep DEF RemoveDone, ScanReturned
<1>9. CASE ScanPage
  BY <1>9, ScanPageStep, ScanComplete DEF ScanReturned
<1>10. CASE BeginFlush
  BY <1>10, BeginFlushStep DEF BeginFlush, ScanReturned
<1>11. CASE FlushNext
  BY <1>11, FlushNextStep DEF FlushNext, ScanReturned
<1>12. CASE FlushDone
  BY <1>12, FlushDoneStep DEF FlushDone, ScanReturned
<1>13. CASE Kill
  BY <1>13, KillStep DEF Kill, Stop, ScanReturned
<1>14. CASE Start
  BY <1>14, StartStep DEF Start, ScanReturned
<1>15. QED
  BY <1>1, <1>2, <1>3, <1>4, <1>5, <1>6, <1>7, <1>8, <1>9, <1>10, <1>11, <1>12, <1>13, <1>14
  DEF Next, Statement, Shutdown

\* The inductive invariant, for a process whose tuples are all well formed.
THEOREM Invariance ==
  ASSUME Malformed = {}
  PROVE  Spec => []IInv
<1>1. Init => IInv
  BY InitStep
<1>2. IInv /\ [Next]_vars => IInv'
  BY NextStep, StutterStep DEF Simulates
<1>3. QED
  BY <1>1, <1>2, PTL DEF Spec

\* GetPage finds the list node it erases without a test, and the pool holds no
\* more than pages_cnt pages.
THEOREM PoolBounded ==
  ASSUME Malformed = {}
  PROVE  Spec => []PoolExact
<1>1. IInv => PoolExact
  BY DEF IInv, PoolInv
<1>2. QED
  BY <1>1, Invariance, PTL

\* A page dropped unwritten by EvictPage is on file as it was.
THEOREM CleanPagesKept ==
  ASSUME Malformed = {}
  PROVE  Spec => []CleanPagesOnFile
<1>1. IInv => CleanPagesOnFile
  BY DEF IInv, PoolInv
<1>2. QED
  BY <1>1, Invariance, PTL

\* A page that CreatePage has counted is in the pool or on file: no read runs
\* past the end of a file.
THEOREM NothingLost ==
  ASSUME Malformed = {}
  PROVE  Spec => []NoPageLost
<1>1. IInv => NoPageLost
  BY DEF IInv, PoolInv, NoPageLost
<1>2. QED
  BY <1>1, Invariance, PTL

\* A scan that ends without error has returned every row of its table once.
THEOREM ScanCorrect ==
  ASSUME Malformed = {}
  PROVE  Spec => ScanReturnsTable
<1>1. IInv /\ [Next]_vars => [ScanReturned]_vars
  BY NextStep
<1>2. QED
  BY <1>1, Invariance, PTL DEF Spec, ScanReturnsTable

\* The pool, its replacement policy and the files implement the store of rows.
THEOREM Refinement ==
  ASSUME Malformed = {}
  PROVE  Spec => ImplementsStore
<1>1. Init => Store!Init
  BY InitStep
<1>2. IInv /\ [Next]_vars => [Store!Next]_Store!vars
  BY NextStep, StutterStep DEF Simulates
<1>3. QED
  BY <1>1, <1>2, Invariance, PTL DEF Spec, ImplementsStore, Store!Spec

-----------------------------------------------------------------------------
(* Whatever rows are stored                                                *)

\* The part of the invariant about the pool and the files.
PoolSound ==
  /\ PoolTypeOK /\ FreeSpaceExact /\ LruSound /\ FileWellFormed
  /\ \A pid \in Cached : InRange(pid)

\* The part about the running statement.
StmtSound ==
  /\ StmtTypeOK
  /\ HeldPagesCached /\ left \subseteq Cached
  /\ pc # "remove" => held = {}
  /\ pc # "flush" => left = {}

LEMMA FaultParts == FaultInv <=> PoolSound /\ StmtSound
  BY DEF FaultInv, TypeOK, PoolSound, PoolTypeOK, StmtSound, StmtTypeOK

LEMMA FaultPartsNext == PoolSound' /\ StmtSound' => FaultInv'
  BY FaultParts, PTL

-----------------------------------------------------------------------------
(* The pool and the files *)

\* The pages on the list: after a failed eviction, not all of those cached.
Listed == {pid \in PageId : OnLru(pid)}

LEMMA ListedNames ==
  ASSUME PoolSound
  PROVE  lru \in Seq(PageId) /\ Names(lru, Listed) /\ Listed \subseteq Cached
<1>1. lru \in Seq(PageId) /\ \A i \in DOMAIN lru : lru[i] \in PageId
  BY LenProperties, ElementOfSeq DEF PoolSound, PoolTypeOK
<1>2. \A i \in DOMAIN lru : lru[i] \in Listed
  BY <1>1 DEF Listed, OnLru
<1>3. QED
  BY <1>1, <1>2 DEF PoolSound, LruSound, LruDistinct, Names, Listed, OnLru

\* The list is sound as soon as it names some of the cached pages.
LEMMA NamesSound ==
  ASSUME NEW T, T \subseteq Cached', Names(lru', T)
  PROVE  LruSound'
  BY DEF Names, LruSound, LruDistinct, OnLru

\* After making room the list names some of the pages kept.
LEMMA RoomSound ==
  ASSUME PoolSound
  PROVE  /\ Evicting => Victim \in Cached
         /\ KeptPages \subseteq Cached
         /\ KeptLru \in Seq(PageId)
         /\ \E T \in SUBSET KeptPages : Names(KeptLru, T)
<1>1. lru \in Seq(PageId) /\ Names(lru, Listed) /\ Listed \subseteq Cached
  BY ListedNames
<1>2. CASE Evicting
  <2>1. /\ Victim \in Listed /\ Front(lru) \in Seq(PageId)
        /\ Names(Front(lru), Listed \ {Victim})
    BY <1>1, <1>2, FrontNames DEF Evicting, Victim
  <2>2. KeptPages = Cached \ {Victim} /\ KeptLru = Front(lru)
    BY <1>2 DEF KeptPages, KeptLru
  <2>3. Listed \ {Victim} \in SUBSET KeptPages
    BY <1>1, <2>2
  <2>4. QED
    BY <1>1, <2>1, <2>2, <2>3
<1>3. CASE ~Evicting
  <2>1. KeptPages = Cached /\ KeptLru = lru
    BY <1>3 DEF KeptPages, KeptLru
  <2>2. QED
    BY <1>1, <1>3, <2>1
<1>4. QED
  BY <1>2, <1>3

\* A page that can be written puts no row on file that cannot be read.
LEMMA PageWrittenSound ==
  ASSUME PoolSound, NEW v \in Cached, ~WriteFails(v, page_pool[v]),
         WritePage(v, page_pool[v])
  PROVE  /\ disk' \in [PageId -> Data]
         /\ disk_pages' \in [Table -> 0 .. MaxPages]
         /\ FileWellFormed'
<1>1. /\ disk \in [PageId -> Data]
      /\ disk_pages \in [Table -> 0 .. MaxPages]
      /\ v \in PageId /\ page_pool[v] \in Page
      /\ MaxPages \in Nat
  BY FileAssumption DEF PoolSound, PoolTypeOK, FileTypeOK
<1>2. TableOf(v) \in Table /\ NumberOf(v) \in Nat /\ NumberOf(v) < MaxPages
  BY <1>1, PageIdParts
<1>3. page_pool[v].data \in Data /\ \A s \in Slot : page_pool[v].data[s] \notin Malformed
  BY <1>1 DEF Page, WriteFails, Serialisable
<1>4. FileWellFormed
  BY DEF PoolSound
<1>5. CASE good[TableOf(v)]
  <2> DEFINE n == IF NumberOf(v) < disk_pages[TableOf(v)]
                  THEN disk_pages[TableOf(v)] ELSE NumberOf(v) + 1
  <2>1. /\ disk' = [disk EXCEPT ![v] = page_pool[v].data]
        /\ disk_pages' = [disk_pages EXCEPT ![TableOf(v)] = n]
    BY <1>1, <1>2, <1>5 DEF WritePage
  <2>2. n \in 0 .. MaxPages
    BY <1>1, <1>2
  <2> HIDE DEF n
  <2>3. QED
    BY <1>1, <1>3, <1>4, <2>1, <2>2 DEF FileWellFormed
<1>6. CASE ~good[TableOf(v)]
  BY <1>1, <1>4, <1>6 DEF WritePage, FileWellFormed
<1>7. QED
  BY <1>5, <1>6

LEMMA VictimWrittenSound ==
  ASSUME PoolSound, ~EvictFails, WriteVictim
  PROVE  /\ disk' \in [PageId -> Data]
         /\ disk_pages' \in [Table -> 0 .. MaxPages]
         /\ FileWellFormed'
<1>1. CASE Evicting /\ page_pool[Victim].dirty
  <2>1. /\ Victim \in Cached /\ WritePage(Victim, page_pool[Victim])
        /\ ~WriteFails(Victim, page_pool[Victim])
    BY <1>1, RoomSound DEF WriteVictim, EvictFails
  <2>2. QED
    BY <2>1, PageWrittenSound
<1>2. CASE ~(Evicting /\ page_pool[Victim].dirty)
  BY <1>2 DEF WriteVictim, PoolSound, PoolTypeOK, FileTypeOK, FileWellFormed
<1>3. QED
  BY <1>1, <1>2

\* The page GetPage hands out is a page with an exact free_space, also when it
\* is parsed from a stream that has failed.
LEMMA FetchedSound ==
  ASSUME PoolSound, NEW pid \in PageId
  PROVE  Fetched(pid) \in Page /\ FreeExact(Fetched(pid)) /\ Fetched(pid).free \in Nat
<1>1. Fetched(pid) \in Page /\ FreeExact(Fetched(pid))
  <2>1. CASE pid \in Cached
    BY <2>1 DEF PoolSound, PoolTypeOK, FreeSpaceExact, FreeExact, Fetched
  <2>2. CASE pid \notin Cached
    <3>1. ReadData(pid) \in Data
      BY BlankType DEF PoolSound, PoolTypeOK, FileTypeOK, ReadData
    <3>2. QED
      BY <2>2, <3>1, CreateExact DEF Fetched
  <2>3. QED
    BY <2>1, <2>2
<1>2. Fetched(pid).data \in Data
  BY <1>1 DEF Page
<1>3. QED
  BY <1>1, <1>2, FreeSlotsFinite DEF FreeExact

\* The pool after a page of it has been replaced or added, others kept.
LEMMA PoolWith ==
  ASSUME PoolSound, NEW K, K \subseteq Cached, NEW pid \in PageId,
         NEW new \in Page, FreeExact(new),
         page_pool' = [p \in K \cup {pid} |-> IF p = pid THEN new ELSE page_pool[p]]
  PROVE  /\ Cached' = K \cup {pid} /\ Cached' \subseteq PageId
         /\ page_pool' \in [Cached' -> Page]
         /\ FreeSpaceExact'
<1>1. /\ Cached \subseteq PageId /\ \A p \in Cached : page_pool[p] \in Page
      /\ \A p \in Cached : FreeExact(page_pool[p])
  BY DEF PoolSound, PoolTypeOK, FreeSpaceExact, FreeExact
<1>2. Cached' = K \cup {pid}
  BY DEF Cached
<1>3. \A p \in K \cup {pid} : page_pool'[p] \in Page /\ FreeExact(page_pool'[p])
  BY <1>1
<1>4. page_pool' = [p \in Cached' |-> page_pool'[p]]
  BY <1>2
<1>5. QED
  BY <1>1, <1>2, <1>3, <1>4 DEF FreeSpaceExact, FreeExact

\* The pool after pages have left it.
LEMMA PoolWithout ==
  ASSUME PoolSound, NEW K, K \subseteq Cached, page_pool' = [p \in K |-> page_pool[p]]
  PROVE  /\ Cached' = K /\ Cached' \subseteq PageId
         /\ page_pool' \in [Cached' -> Page]
         /\ FreeSpaceExact'
<1>1. Cached' = K /\ Cached \subseteq PageId /\ \A p \in Cached : page_pool[p] \in Page
  BY DEF Cached, PoolSound, PoolTypeOK
<1>2. QED
  BY <1>1 DEF PoolSound, FreeSpaceExact

\* A page comes to the front of a list that names others.
LEMMA ListWith ==
  ASSUME NEW s \in Seq(PageId), NEW T, T \subseteq PageId, Names(s, T),
         NEW pid \in PageId, pid \notin T, lru' = Cons(pid, s),
         T \cup {pid} \subseteq Cached'
  PROVE  lru' \in Seq(PageId) /\ LruSound'
<1>1. lru' \in Seq(PageId) /\ Names(lru', T \cup {pid})
  BY ConsNames
<1>2. QED
  BY <1>1, NamesSound

-----------------------------------------------------------------------------
(* GetPage and InsertPage, and their errors *)

LEMMA GetPageSound ==
  ASSUME PoolSound, NEW pid \in PageId, NEW new \in Page, FreeExact(new),
         GetPage(pid, new)
  PROVE  PoolSound' /\ pid \in Cached'
<1>1. /\ lru \in Seq(PageId) /\ Names(lru, Listed) /\ Listed \subseteq Cached
      /\ Cached \subseteq PageId /\ FileTypeOK /\ FileWellFormed
  BY ListedNames DEF PoolSound, PoolTypeOK
<1>2. CASE Hit(pid, new) \/ HitDangling(pid, new)
  <2>1. /\ pid \in Cached /\ page_pool' = [page_pool EXCEPT ![pid] = new]
        /\ UNCHANGED fileVars
    BY <1>2 DEF Hit, HitDangling
  <2>2. page_pool' = [p \in Cached \cup {pid} |-> IF p = pid THEN new ELSE page_pool[p]]
    BY <2>1 DEF PoolSound, PoolTypeOK
  <2>3. /\ Cached' = Cached \cup {pid} /\ Cached' \subseteq PageId
        /\ page_pool' \in [Cached' -> Page] /\ FreeSpaceExact'
    BY <2>2, PoolWith
  <2>4. FileTypeOK' /\ FileWellFormed'
    BY <1>1, <2>1 DEF fileVars, FileTypeOK, FileWellFormed
  <2>5. lru' \in Seq(PageId) /\ LruSound'
    <3>1. CASE \E i \in DOMAIN lru :
                 (lru[i] = pid \/ ~OnLru(pid)) /\ lru' = Cons(pid, RemoveAt(lru, i))
      <4>1. PICK i \in DOMAIN lru :
              (lru[i] = pid \/ ~OnLru(pid)) /\ lru' = Cons(pid, RemoveAt(lru, i))
        BY <3>1
      <4>2. /\ RemoveAt(lru, i) \in Seq(PageId)
            /\ Names(RemoveAt(lru, i), Listed \ {lru[i]})
        BY <1>1, RemoveAtNames
      <4>3. pid \notin Listed \ {lru[i]}
        BY <4>1 DEF Listed
      <4>4. /\ Listed \ {lru[i]} \subseteq PageId
            /\ (Listed \ {lru[i]}) \cup {pid} \subseteq Cached'
        BY <1>1, <2>3
      <4>5. QED
        BY <4>1, <4>2, <4>3, <4>4, ListWith
    <3>2. CASE ~OnLru(pid) /\ lru' = Cons(pid, lru)
      <4>1. pid \notin Listed /\ Listed \subseteq PageId /\ Listed \cup {pid} \subseteq Cached'
        BY <1>1, <2>3, <3>2 DEF Listed
      <4>2. QED
        BY <1>1, <3>2, <4>1, ListWith
    <3>3. QED
      BY <1>2, <3>1, <3>2 DEF Hit, HitDangling
  <2>6. \A p \in Cached' : InRange(p)'
    BY <2>1, <2>3 DEF fileVars, PoolSound, InRange
  <2>7. QED
    BY <2>3, <2>4, <2>5, <2>6 DEF PoolSound, PoolTypeOK
<1>3. CASE Miss(pid, new)
  <2>1. /\ pid \notin Cached /\ ~EvictFails /\ WriteVictim /\ ReadStream(pid)
        /\ Keep(pid, new) /\ lru' = Cons(pid, KeptLru) /\ file_length' = file_length
    BY <1>3 DEF Miss
  <2>2. /\ KeptPages \subseteq Cached /\ KeptLru \in Seq(PageId)
        /\ \E T \in SUBSET KeptPages : Names(KeptLru, T)
    BY RoomSound
  <2>3. PICK T \in SUBSET KeptPages : Names(KeptLru, T)
    BY <2>2
  <2>4. /\ Cached' = KeptPages \cup {pid} /\ Cached' \subseteq PageId
        /\ page_pool' \in [Cached' -> Page] /\ FreeSpaceExact'
    BY <2>1, <2>2, PoolWith DEF Keep
  <2>5. lru' \in Seq(PageId) /\ LruSound'
    <3>1. T \subseteq PageId /\ pid \notin T /\ T \cup {pid} \subseteq Cached'
      BY <1>1, <2>1, <2>2, <2>3, <2>4
    <3>2. QED
      BY <2>1, <2>2, <2>3, <3>1, ListWith
  <2>6. FileTypeOK' /\ FileWellFormed'
    <3>1. /\ disk' \in [PageId -> Data] /\ disk_pages' \in [Table -> 0 .. MaxPages]
          /\ FileWellFormed'
      BY <2>1, VictimWrittenSound
    <3>2. good' \in [Table -> BOOLEAN]
      BY <1>1, <2>1 DEF ReadStream, FileTypeOK
    <3>3. QED
      BY <1>1, <2>1, <3>1, <3>2 DEF FileTypeOK
  <2>7. \A p \in Cached' : InRange(p)'
    BY <1>3, <2>1, <2>2, <2>4 DEF Miss, PoolSound, InRange
  <2>8. QED
    BY <2>4, <2>5, <2>6, <2>7 DEF PoolSound, PoolTypeOK
<1>4. QED
  BY <1>2, <1>3 DEF GetPage

\* The victim of a failed eviction is off the list and still in the pool.
LEMMA EvictErrorSound ==
  ASSUME PoolSound, EvictFails, lru' = Front(lru), page_pool' = page_pool
  PROVE  lru' \in Seq(PageId) /\ LruSound' /\ Cached' = Cached /\ FreeSpaceExact'
<1>1. lru \in Seq(PageId) /\ Names(lru, Listed) /\ Listed \subseteq Cached /\ lru # <<>>
  BY ListedNames DEF EvictFails, Evicting
<1>2. lru' \in Seq(PageId) /\ Names(lru', Listed \ {Last(lru)})
  BY <1>1, FrontNames
<1>3. Cached' = Cached
  BY DEF Cached
<1>4. QED
  BY <1>1, <1>2, <1>3, NamesSound DEF PoolSound, FreeSpaceExact

LEMMA GetPageFailsSound ==
  ASSUME PoolSound, NEW pid, GetPageFails(pid)
  PROVE  PoolSound'
<1>1. CASE EvictError
  <2>1. lru' \in Seq(PageId) /\ LruSound' /\ Cached' = Cached /\ FreeSpaceExact'
    BY <1>1, EvictErrorSound DEF EvictError
  <2>2. QED
    BY <1>1, <2>1
    DEF EvictError, fileVars, PoolSound, PoolTypeOK, FileTypeOK, FileWellFormed, InRange
<1>2. CASE RangeError(pid)
  <2>1. /\ ~EvictFails /\ WriteVictim
        /\ page_pool' = [p \in KeptPages |-> page_pool[p]] /\ lru' = KeptLru
        /\ file_length' = file_length /\ good' = good
    BY <1>2 DEF RangeError
  <2>2. /\ KeptPages \subseteq Cached /\ KeptLru \in Seq(PageId)
        /\ \E T \in SUBSET KeptPages : Names(KeptLru, T)
    BY RoomSound
  <2>3. /\ Cached' = KeptPages /\ Cached' \subseteq PageId
        /\ page_pool' \in [Cached' -> Page] /\ FreeSpaceExact'
    BY <2>1, <2>2, PoolWithout
  <2>4. lru' \in Seq(PageId) /\ LruSound'
    BY <2>1, <2>2, <2>3, NamesSound
  <2>5. /\ disk' \in [PageId -> Data] /\ disk_pages' \in [Table -> 0 .. MaxPages]
        /\ FileWellFormed'
    BY <2>1, VictimWrittenSound
  <2>6. QED
    BY <2>1, <2>2, <2>3, <2>4, <2>5 DEF PoolSound, PoolTypeOK, FileTypeOK, InRange
<1>3. QED
  BY <1>1, <1>2 DEF GetPageFails

\* A page CreatePage made enters the pool: it cannot have been there.
LEMMA InsertPageSound ==
  ASSUME PoolSound, NEW t \in Table, file_length[t] < MaxPages,
         NEW new \in Page, FreeExact(new),
         InsertPage(NewPageId(t), new), CreatePage(t)
  PROVE  PoolSound'
<1>0. file_length[t] \in Nat
  BY FileAssumption DEF PoolSound, PoolTypeOK, FileTypeOK
<1> PICK pid \in PageId : pid = NewPageId(t)
  BY <1>0, MakePageId DEF NewPageId
<1>1. /\ ~EvictFails /\ WriteVictim /\ Keep(pid, new)
      /\ lru' = Cons(pid, KeptLru) /\ good' = good
  BY DEF InsertPage
<1>2. /\ file_length \in [Table -> 0 .. MaxPages] /\ MaxPages \in Nat
      /\ file_length' = [file_length EXCEPT ![t] = @ + 1]
      /\ Cached \subseteq PageId
  BY FileAssumption DEF PoolSound, PoolTypeOK, FileTypeOK, CreatePage
<1>3. /\ file_length' \in [Table -> 0 .. MaxPages]
      /\ \A p \in PageId : InRange(p) => InRange(p)'
  BY <1>2, PageIdParts DEF InRange
<1>4. pid \in PageId /\ ~InRange(pid) /\ InRange(pid)'
  <2>1. TableOf(pid) = t /\ NumberOf(pid) = file_length[t]
    BY <1>0, MakePageId DEF NewPageId
  <2>2. QED
    BY <1>0, <1>2, <2>1 DEF InRange
<1>5. pid \notin Cached
  BY <1>4 DEF PoolSound
<1>6. /\ KeptPages \subseteq Cached /\ KeptLru \in Seq(PageId)
      /\ \E T \in SUBSET KeptPages : Names(KeptLru, T)
  BY RoomSound
<1>7. PICK T \in SUBSET KeptPages : Names(KeptLru, T)
  BY <1>6
<1>8. /\ Cached' = KeptPages \cup {pid} /\ Cached' \subseteq PageId
      /\ page_pool' \in [Cached' -> Page] /\ FreeSpaceExact'
  BY <1>1, <1>4, <1>6, PoolWith DEF Keep
<1>9. lru' \in Seq(PageId) /\ LruSound'
  <2>1. T \subseteq PageId /\ pid \notin T /\ T \cup {pid} \subseteq Cached'
    BY <1>2, <1>5, <1>6, <1>7, <1>8
  <2>2. QED
    BY <1>1, <1>4, <1>6, <1>7, <2>1, ListWith
<1>10. /\ disk' \in [PageId -> Data] /\ disk_pages' \in [Table -> 0 .. MaxPages]
       /\ FileWellFormed'
  BY <1>1, VictimWrittenSound
<1>11. \A p \in Cached' : InRange(p)'
  <2>1. \A p \in KeptPages : p \in PageId /\ InRange(p)
    BY <1>2, <1>6 DEF PoolSound
  <2>2. QED
    BY <1>3, <1>4, <1>8, <2>1
<1>12. QED
  BY <1>1, <1>3, <1>8, <1>9, <1>10, <1>11 DEF PoolSound, PoolTypeOK, FileTypeOK

LEMMA UnchangedSound ==
  ASSUME PoolSound, UNCHANGED <<fileVars, poolVars>>
  PROVE  PoolSound' /\ Cached' = Cached
  BY DEF PoolSound, PoolTypeOK, FileTypeOK, FreeSpaceExact, LruSound, LruDistinct, OnLru,
         FileWellFormed, InRange, Cached, fileVars, poolVars

LEMMA StopSound ==
  ASSUME PoolSound, page_pool' = <<>>, lru' = <<>>, Reopen
  PROVE  PoolSound' /\ Cached' = {}
<1>1. /\ file_length' = disk_pages /\ disk_pages' = disk_pages /\ disk' = disk
      /\ good' = [t \in Table |-> TRUE]
  BY DEF Reopen
<1>2. Cached' = {} /\ page_pool' \in [{} -> Page]
  BY DEF Cached
<1>3. lru' \in Seq(PageId) /\ DOMAIN lru' = {}
  BY EmptySeq
<1>4. FileTypeOK' /\ FileWellFormed'
  BY <1>1 DEF PoolSound, PoolTypeOK, FileTypeOK, FileWellFormed
<1>5. FreeSpaceExact' /\ LruSound'
  BY <1>2, <1>3 DEF FreeSpaceExact, LruSound, LruDistinct, OnLru
<1>6. QED
  BY <1>2, <1>3, <1>4, <1>5 DEF PoolSound, PoolTypeOK

-----------------------------------------------------------------------------
(* The actions *)

\* A statement that returns carries nothing on.
LEMMA ReturnSound ==
  ASSUME FaultInv, PoolSound', NEW status \in {"none", "ok", "error"}, Return(status)
  PROVE  FaultInv'
<1>1. StmtTypeOK
  BY FaultParts DEF StmtSound
<1>2. StmtSound'
  BY <1>1, EmptySeq, FileAssumption
  DEF Return, Forget, StmtSound, StmtTypeOK, HeldPagesCached, Nothing
<1>3. QED
  BY <1>2, FaultPartsNext

LEMMA BeginSound ==
  ASSUME FaultInv, NEW t \in Table,
         \/ \E ts \in Batch(Tuple) : BeginInsert(t, ts)
         \/ \E rids \in Batch(RecordId) : BeginRemove(t, rids)
         \/ BeginScan(t)
  PROVE  FaultInv'
<1>1. PoolSound /\ StmtSound
  BY FaultParts
<1>2. /\ pc = "idle" /\ pc' \in {"insert", "remove", "scan"}
      /\ UNCHANGED <<fileVars, poolVars>>
      /\ held' = held /\ left' = left
  BY DEF BeginInsert, BeginRemove, BeginScan, Begin
<1>3. PoolSound' /\ Cached' = Cached
  BY <1>1, <1>2, UnchangedSound
<1>4. file_length[t] \in 0 .. MaxPages /\ 0 \in 0 .. MaxPages
  BY <1>1, FileAssumption DEF PoolSound, PoolTypeOK, FileTypeOK
<1>5. tuples' \in Seq(Tuple) /\ ids' \in Seq(RecordId)
  BY <1>1, BatchType DEF BeginInsert, BeginRemove, BeginScan, StmtSound, StmtTypeOK
<1>6. StmtTypeOK'
  BY <1>1, <1>2, <1>4, <1>5
  DEF BeginInsert, BeginRemove, BeginScan, Begin, StmtSound, StmtTypeOK
<1>7. StmtSound'
  BY <1>1, <1>2, <1>3, <1>6 DEF StmtSound, HeldPagesCached
<1>8. QED
  BY <1>3, <1>7, FaultPartsNext

\* First loop of InsertTuples.
LEMMA InsertExistingSound ==
  ASSUME FaultInv, InsertExisting
  PROVE  FaultInv'
<1>1. PoolSound /\ StmtSound
  BY FaultParts
<1>2. /\ pc = "insert" /\ page_no < page_count /\ table_id \in Table
      /\ page_no \in Nat /\ page_count \in 0 .. MaxPages /\ MaxPages \in Nat
      /\ tuples \in Seq(Tuple)
      /\ left = {} /\ held = {}
  BY <1>1, FileAssumption DEF InsertExisting, StmtSound, StmtTypeOK
<1>3. PICK pid \in PageId : pid = <<table_id, page_no>>
  <2>1. page_no < MaxPages
    BY <1>2
  <2>2. QED
    BY <1>2, <2>1, MakePageId
<1>4. CASE GetPageFails(pid) /\ Return("error")
  BY <1>1, <1>4, GetPageFailsSound, ReturnSound
<1>5. CASE ~(GetPageFails(pid) /\ Return("error"))
  <2>1. PICK n : n = ToAdd(Fetched(pid))
    OBVIOUS
  <2>2. /\ \E new \in AddTuples(Fetched(pid), SubSeq(tuples, 1, n)) :
             GetPage(pid, SetDirty(new))
        /\ TuplesAdded(n)
        /\ page_no' = page_no + 1
        /\ UNCHANGED <<pc, result, table_id, page_count, ids, held, output, left>>
    BY <1>3, <1>5, <2>1 DEF InsertExisting
  <2>3. PICK new \in AddTuples(Fetched(pid), SubSeq(tuples, 1, n)) :
          GetPage(pid, SetDirty(new))
    BY <2>2
  <2>4. Fetched(pid) \in Page /\ FreeExact(Fetched(pid)) /\ Fetched(pid).free \in Nat
    BY <1>1, FetchedSound
  <2>5. n \in 0 .. Len(tuples) /\ n <= Fetched(pid).free
    BY <1>2, <2>1, <2>4, LenProperties DEF ToAdd
  <2>6. SetDirty(new) \in Page /\ FreeExact(SetDirty(new))
    BY <1>2, <2>3, <2>4, <2>5, FirstAdded
  <2>7. PoolSound'
    BY <1>1, <2>3, <2>6, GetPageSound
  <2>8. tuples' \in Seq(Tuple)
    BY <1>2, <2>2, <2>5, SubSeqFacts DEF TuplesAdded
  <2>9. StmtSound'
    BY <1>1, <1>2, <2>2, <2>8 DEF StmtSound, StmtTypeOK, HeldPagesCached
  <2>10. QED
    BY <2>7, <2>9, FaultPartsNext
<1>6. QED
  BY <1>4, <1>5

\* Second loop of InsertTuples.
LEMMA InsertNewSound ==
  ASSUME FaultInv, InsertNew
  PROVE  FaultInv'
<1>1. PoolSound /\ StmtSound
  BY FaultParts
<1>2. /\ pc = "insert" /\ table_id \in Table /\ file_length[table_id] < MaxPages
      /\ tuples \in Seq(Tuple) /\ left = {} /\ held = {}
  BY <1>1 DEF InsertNew, StmtSound, StmtTypeOK
<1>3. CASE /\ EvictFails /\ lru' = Front(lru) /\ CreatePage(table_id)
           /\ UNCHANGED <<disk, disk_pages, good, page_pool>>
           /\ Return("error")
  <2>1. /\ lru' \in Seq(PageId) /\ LruSound' /\ Cached' = Cached /\ FreeSpaceExact'
    BY <1>1, <1>3, EvictErrorSound
  <2>2. /\ file_length \in [Table -> 0 .. MaxPages] /\ MaxPages \in Nat
        /\ file_length' = [file_length EXCEPT ![table_id] = @ + 1]
    BY <1>1, <1>3, FileAssumption DEF PoolSound, PoolTypeOK, FileTypeOK, CreatePage
  <2>3. /\ file_length' \in [Table -> 0 .. MaxPages]
        /\ \A p \in PageId : InRange(p) => InRange(p)'
    BY <1>2, <2>2, PageIdParts DEF InRange
  <2>4. \A p \in Cached' : InRange(p)'
    BY <1>1, <2>1, <2>3 DEF PoolSound, PoolTypeOK
  <2>5. PoolSound'
    BY <1>1, <1>3, <2>1, <2>3, <2>4 DEF PoolSound, PoolTypeOK, FileTypeOK, FileWellFormed
  <2>6. QED
    BY <1>3, <2>5, ReturnSound
<1>4. CASE ~(/\ EvictFails /\ lru' = Front(lru) /\ CreatePage(table_id)
             /\ UNCHANGED <<disk, disk_pages, good, page_pool>>
             /\ Return("error"))
  <2>1. PICK n : n = ToAdd(Create(Blank))
    OBVIOUS
  <2>2. /\ \E new \in AddTuples(Create(Blank), SubSeq(tuples, 1, n)) :
             InsertPage(NewPageId(table_id), SetDirty(new))
        /\ CreatePage(table_id)
        /\ TuplesAdded(n)
        /\ UNCHANGED <<pc, result, table_id, page_no, page_count, ids, held, output, left>>
    BY <1>4, <2>1 DEF InsertNew
  <2>3. PICK new \in AddTuples(Create(Blank), SubSeq(tuples, 1, n)) :
          InsertPage(NewPageId(table_id), SetDirty(new))
    BY <2>2
  <2>4. Create(Blank) \in Page /\ FreeExact(Create(Blank)) /\ Create(Blank).free \in Nat
    BY BlankType, CreateExact, FreeSlotsFinite DEF FreeExact
  <2>5. n \in 0 .. Len(tuples) /\ n <= Create(Blank).free
    BY <1>2, <2>1, <2>4, LenProperties DEF ToAdd
  <2>6. SetDirty(new) \in Page /\ FreeExact(SetDirty(new))
    BY <1>2, <2>3, <2>4, <2>5, FirstAdded
  <2>7. PoolSound'
    BY <1>1, <1>2, <2>2, <2>3, <2>6, InsertPageSound
  <2>8. tuples' \in Seq(Tuple)
    BY <1>2, <2>2, <2>5, SubSeqFacts DEF TuplesAdded
  <2>9. StmtSound'
    BY <1>1, <1>2, <2>2, <2>8 DEF StmtSound, StmtTypeOK, HeldPagesCached
  <2>10. QED
    BY <2>7, <2>9, FaultPartsNext
<1>5. QED
  BY <1>3, <1>4

\* A step that leaves pool and files alone and returns.
LEMMA DoneSound ==
  ASSUME FaultInv, InsertDone \/ RemoveDone
  PROVE  FaultInv'
<1>1. PoolSound'
  BY FaultParts, UnchangedSound DEF InsertDone, RemoveDone
<1>2. QED
  BY <1>1, ReturnSound DEF InsertDone, RemoveDone

\* The page of the previous iteration is used without asking the pool for it.
InPlace(pid, new) ==
  page_pool' = [page_pool EXCEPT ![pid] = new] /\ UNCHANGED <<fileVars, lru>>

LEMMA UseHeldSound ==
  ASSUME PoolSound, NEW pid \in PageId, pid \in Cached, NEW new \in Page, FreeExact(new),
         InPlace(pid, new)
  PROVE  PoolSound' /\ pid \in Cached'
<1>1. page_pool \in [Cached -> Page]
  BY DEF PoolSound, PoolTypeOK
<1>2. PICK K : K = Cached
  OBVIOUS
<1>3. page_pool' = [p \in K \cup {pid} |-> IF p = pid THEN new ELSE page_pool[p]]
  BY <1>1, <1>2 DEF InPlace
<1>4. /\ Cached' = K \cup {pid} /\ Cached' \subseteq PageId
      /\ page_pool' \in [Cached' -> Page] /\ FreeSpaceExact'
  BY <1>1, <1>2, <1>3, PoolWith
<1>5. QED
  BY <1>2, <1>4
  DEF InPlace, fileVars, PoolSound, PoolTypeOK, FileTypeOK, LruSound, LruDistinct, OnLru,
      FileWellFormed, InRange

LEMMA RemoveNextSound ==
  ASSUME FaultInv, RemoveNext
  PROVE  FaultInv'
<1>1. PoolSound /\ StmtSound
  BY FaultParts
<1>2. /\ pc = "remove" /\ ids # <<>> /\ ids \in Seq(RecordId) /\ left = {}
      /\ held \subseteq Cached
  BY <1>1 DEF RemoveNext, StmtSound, StmtTypeOK, HeldPagesCached
<1>3. Head(ids) \in RecordId /\ Tail(ids) \in Seq(RecordId)
  BY <1>2, HeadTailProperties
<1>4. PICK pid \in PageId, slot \in Slot : pid = PageOf(Head(ids)) /\ slot = SlotOf(Head(ids))
  BY <1>3, RecordIdParts
<1>5. Fetched(pid) \in Page /\ FreeExact(Fetched(pid))
  BY <1>1, FetchedSound
<1>6. ASSUME NEW new \in Page, FreeExact(new),
             IF pid \in held THEN InPlace(pid, new) ELSE GetPage(pid, new)
      PROVE  PoolSound' /\ pid \in Cached'
  BY <1>1, <1>2, <1>6, UseHeldSound, GetPageSound
<1>7. CASE /\ HasRecord(Fetched(pid), slot)
           /\ IF pid \in held
              THEN InPlace(pid, SetDirty(RemoveRecord(Fetched(pid), slot)))
              ELSE GetPage(pid, SetDirty(RemoveRecord(Fetched(pid), slot)))
           /\ ids' = Tail(ids) /\ Hold(pid)
           /\ UNCHANGED <<pc, result, table_id, page_no, page_count, tuples, output, left>>
  <2>1. /\ SetDirty(RemoveRecord(Fetched(pid), slot)) \in Page
        /\ FreeExact(SetDirty(RemoveRecord(Fetched(pid), slot)))
    <3>1. PICK new : new = RemoveRecord(Fetched(pid), slot)
      OBVIOUS
    <3>2. new \in Page /\ FreeExact(new)
      BY <1>5, <1>7, <3>1, RemoveRecordExact
    <3>3. QED
      BY <3>1, <3>2, SetDirtyExact DEF FreeExact
  <2>2. PoolSound' /\ pid \in Cached'
    BY <1>6, <1>7, <2>1
  <2>3. StmtSound'
    BY <1>1, <1>2, <1>3, <1>7, <2>2 DEF Hold, StmtSound, StmtTypeOK, HeldPagesCached
  <2>4. QED
    BY <2>2, <2>3, FaultPartsNext
<1>8. CASE /\ IF pid \in held
              THEN InPlace(pid, Fetched(pid)) ELSE GetPage(pid, Fetched(pid))
           /\ Return("error")
  BY <1>5, <1>6, <1>8, ReturnSound
<1>9. CASE GetPageFails(pid) /\ Return("error")
  BY <1>1, <1>9, GetPageFailsSound, ReturnSound
<1>10. QED
  BY <1>4, <1>7, <1>8, <1>9 DEF RemoveNext, InPlace

LEMMA ScanPageSound ==
  ASSUME FaultInv, ScanPage
  PROVE  FaultInv'
<1>1. PoolSound /\ StmtSound
  BY FaultParts
<1>2. /\ pc = "scan" /\ page_no \in Nat /\ page_no <= MaxPages /\ MaxPages \in Nat
      /\ table_id \in Table /\ file_length[table_id] \in 0 .. MaxPages
      /\ held = {} /\ left = {}
  BY <1>1, FileAssumption DEF ScanPage, StmtSound, StmtTypeOK, PoolSound, PoolTypeOK, FileTypeOK
<1>3. PICK pid : pid = <<table_id, page_no>>
  OBVIOUS
<1>4. CASE /\ GetPage(pid, Fetched(pid))
           /\ output' = [rid \in RecordId |->
                           IF PageOf(rid) = pid /\ HasRecord(Fetched(pid), SlotOf(rid))
                           THEN output[rid] + 1 ELSE output[rid]]
           /\ page_no' = page_no + 1
           /\ UNCHANGED <<pc, result, table_id, page_count, tuples, ids, held, left>>
  <2>1. pid \in PageId /\ page_no < MaxPages
    <3>1. InRange(pid)
      BY <1>1, <1>4 DEF GetPage, Hit, HitDangling, Miss, PoolSound
    <3>2. page_no < MaxPages
      BY <1>2, <1>3, <3>1 DEF InRange, TableOf, NumberOf
    <3>3. QED
      BY <1>2, <1>3, <3>2, MakePageId
  <2>2. Fetched(pid) \in Page /\ FreeExact(Fetched(pid))
    BY <1>1, <2>1, FetchedSound
  <2>3. PoolSound'
    BY <1>1, <1>4, <2>1, <2>2, GetPageSound
  <2>4. output' \in [RecordId -> Nat]
    BY <1>1, <1>4 DEF StmtSound, StmtTypeOK
  <2>5. page_no' \in 0 .. MaxPages
    BY <1>2, <1>4, <2>1
  <2>6. StmtSound'
    BY <1>1, <1>2, <1>4, <2>4, <2>5 DEF StmtSound, StmtTypeOK, HeldPagesCached
  <2>7. QED
    BY <2>3, <2>6, FaultPartsNext
<1>5. CASE RangeError(pid) /\ Return(IF page_no = 0 THEN "error" ELSE "ok")
  <2>1. PoolSound'
    BY <1>1, <1>5, GetPageFailsSound DEF GetPageFails
  <2>2. QED
    BY <1>5, <2>1, ReturnSound
<1>6. CASE pid \notin Cached /\ EvictError /\ Return("error")
  <2>1. PoolSound'
    BY <1>1, <1>6, GetPageFailsSound DEF GetPageFails
  <2>2. QED
    BY <1>6, <2>1, ReturnSound
<1>7. QED
  BY <1>3, <1>4, <1>5, <1>6 DEF ScanPage

LEMMA FlushNextSound ==
  ASSUME FaultInv, FlushNext
  PROVE  FaultInv'
<1>1. PoolSound /\ StmtSound /\ left \subseteq Cached
  BY FaultParts DEF StmtSound
<1>2. PICK pid \in left :
        \/ /\ ~page_pool[pid].dirty /\ left' = left \ {pid}
           /\ UNCHANGED <<disk, disk_pages>>
        \/ /\ page_pool[pid].dirty /\ ~WriteFails(pid, page_pool[pid])
           /\ WritePage(pid, page_pool[pid]) /\ left' = left \ {pid}
        \/ /\ page_pool[pid].dirty /\ WriteFails(pid, page_pool[pid])
           /\ left' = {} /\ UNCHANGED <<disk, disk_pages>>
  BY DEF FlushNext, GiveUp
<1>3. /\ pc = "flush" /\ left' \subseteq left
      /\ UNCHANGED <<file_length, good, poolVars, pc, result, table_id, page_no,
                     page_count, tuples, ids, held, output>>
  BY <1>2 DEF FlushNext
<1>4. /\ disk' \in [PageId -> Data] /\ disk_pages' \in [Table -> 0 .. MaxPages]
      /\ FileWellFormed'
  <2>1. CASE UNCHANGED <<disk, disk_pages>>
    BY <1>1, <2>1 DEF PoolSound, PoolTypeOK, FileTypeOK, FileWellFormed
  <2>2. CASE ~WriteFails(pid, page_pool[pid]) /\ WritePage(pid, page_pool[pid])
    BY <1>1, <2>2, PageWrittenSound
  <2>3. QED
    BY <1>2, <2>1, <2>2
<1>5. PoolSound'
  BY <1>1, <1>3, <1>4
  DEF PoolSound, PoolTypeOK, FileTypeOK, FreeSpaceExact, LruSound, LruDistinct, OnLru,
      InRange, Cached, poolVars
<1>6. StmtSound'
  BY <1>1, <1>3 DEF StmtSound, StmtTypeOK, HeldPagesCached, Cached, poolVars
<1>7. QED
  BY <1>5, <1>6, FaultPartsNext

LEMMA BeginFlushSound ==
  ASSUME FaultInv, BeginFlush
  PROVE  FaultInv'
<1>1. PoolSound /\ StmtSound /\ Cached \subseteq PageId
  BY FaultParts DEF PoolSound, PoolTypeOK
<1>2. PoolSound' /\ Cached' = Cached
  BY <1>1, UnchangedSound DEF BeginFlush
<1>3. StmtSound'
  BY <1>1, <1>2 DEF BeginFlush, StmtSound, StmtTypeOK, HeldPagesCached
<1>4. QED
  BY <1>2, <1>3, FaultPartsNext

LEMMA StopFaultSound ==
  ASSUME FaultInv, FlushDone \/ Kill
  PROVE  FaultInv'
<1>1. PoolSound /\ StmtSound
  BY FaultParts
<1>2. /\ pc' = "down" /\ result' \in {"ok", "error"} /\ Forget
      /\ page_pool' = <<>> /\ lru' = <<>> /\ Reopen
  BY DEF FlushDone, Kill, Stop
<1>3. PoolSound'
  BY <1>1, <1>2, StopSound
<1>4. StmtSound'
  BY <1>1, <1>2, EmptySeq, FileAssumption
  DEF Forget, StmtSound, StmtTypeOK, HeldPagesCached, Nothing
<1>5. QED
  BY <1>3, <1>4, FaultPartsNext

LEMMA StartSound ==
  ASSUME FaultInv, Start
  PROVE  FaultInv'
<1>1. PoolSound /\ StmtSound
  BY FaultParts
<1>2. PoolSound' /\ Cached' = Cached
  BY <1>1, UnchangedSound DEF Start
<1>3. StmtSound'
  BY <1>1, <1>2 DEF Start, StmtSound, StmtTypeOK, HeldPagesCached, stmtVars
<1>4. QED
  BY <1>2, <1>3, FaultPartsNext

-----------------------------------------------------------------------------
(* The theorems *)

LEMMA InitSound ==
  ASSUME Init
  PROVE  FaultInv
<1>1. IInv
  BY InitStep
<1>2. FileWellFormed
  BY TupleAssumption, PageIdParts DEF Init, FileInit, FileWellFormed, Blank
<1>3. QED
  BY <1>1, <1>2 DEF Init, IInv, PoolInv, LengthsAgree, FaultInv

LEMMA NextSound ==
  ASSUME FaultInv, [Next]_vars
  PROVE  FaultInv'
<1>1. CASE \/ \E t \in Table, ts \in Batch(Tuple) : BeginInsert(t, ts)
           \/ \E t \in Table, rids \in Batch(RecordId) : BeginRemove(t, rids)
           \/ \E t \in Table : BeginScan(t)
  BY <1>1, BeginSound
<1>2. CASE Statement
  BY <1>2, InsertExistingSound, InsertNewSound, DoneSound, RemoveNextSound, ScanPageSound
  DEF Statement
<1>3. CASE BeginFlush \/ Shutdown \/ Kill \/ Start
  BY <1>3, BeginFlushSound, FlushNextSound, StopFaultSound, StartSound DEF Shutdown
<1>4. CASE UNCHANGED vars
  <2>1. PoolSound /\ StmtSound
    BY FaultParts
  <2>2. /\ UNCHANGED <<fileVars, poolVars, pc, result>>
        /\ table_id' = table_id /\ page_no' = page_no /\ page_count' = page_count
        /\ tuples' = tuples /\ ids' = ids /\ held' = held /\ output' = output /\ left' = left
    BY <1>4 DEF vars, stmtVars
  <2>3. PoolSound' /\ Cached' = Cached
    BY <2>1, <2>2, UnchangedSound
  <2>4. StmtSound'
    BY <2>1, <2>2, <2>3 DEF StmtSound, StmtTypeOK, HeldPagesCached
  <2>5. QED
    BY <2>3, <2>4, FaultPartsNext
<1>5. QED
  BY <1>1, <1>2, <1>3, <1>4 DEF Next

\* The inductive invariant of a pool whose evictions may fail.
THEOREM FaultInvariance == Spec => []FaultInv
<1>1. Init => FaultInv
  BY InitSound
<1>2. FaultInv /\ [Next]_vars => FaultInv'
  BY NextSound
<1>3. QED
  BY <1>1, <1>2, PTL DEF Spec

\* Every variable keeps its type, and every page number its bound.
THEOREM TypeCorrect == Spec => []TypeOK
<1>1. FaultInv => TypeOK
  BY DEF FaultInv
<1>2. QED
  BY <1>1, FaultInvariance, PTL

\* free_space is the number of zero header bits of every cached page, so that
\* AddTuples places every tuple it takes off the list.
THEOREM FreeSpaceKept == Spec => []FreeSpaceExact
<1>1. FaultInv => FreeSpaceExact
  BY DEF FaultInv
<1>2. QED
  BY <1>1, FaultInvariance, PTL

\* EvictPage and FlushPage find the victim they look up without a test, also
\* after GetPage has erased the node of another page by a dangling iterator.
THEOREM LruKept == Spec => []LruSound
<1>1. FaultInv => LruSound
  BY DEF FaultInv
<1>2. QED
  BY <1>1, FaultInvariance, PTL

\* The page pointer RemoveTuples carries over an iteration points at a page
\* still in the pool.
THEOREM HeldKept == Spec => []HeldPagesCached
<1>1. FaultInv => HeldPagesCached
  BY DEF FaultInv
<1>2. QED
  BY <1>1, FaultInvariance, PTL

\* No row GetPageData refuses is ever on file, although the pool holds it.
THEOREM FilesKept == Spec => []FileWellFormed
<1>1. FaultInv => FileWellFormed
  BY DEF FaultInv
<1>2. QED
  BY <1>1, FaultInvariance, PTL

=============================================================================
