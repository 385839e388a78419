------------------------------ MODULE HeapPage ------------------------------
(***************************************************************************)
(* A heap page of komfydb (src/komfydb/storage/heap_page.cc): a fixed      *)
(* number of slots, a header bit per slot, a cached count of the zero bits *)
(* and a dirty flag.                                                       *)
(*                                                                         *)
(* A slot whose header bit is clear holds Empty: the code keeps the stale  *)
(* Record there, but neither GetRecords nor GetPageData looks at it.  A    *)
(* tuple is opaque, except that GetPageData fails on some of them (a tuple *)
(* with fewer fields than the table, or with a null field): those are the  *)
(* members of Malformed.                                                   *)
(***************************************************************************)
EXTENDS Integers, Sequences, FiniteSets

CONSTANTS
  NumSlots,    \* slots of a page, a function of the width of the tuples
  Tuple,       \* the tuples a statement can insert
  Malformed,   \* those that cannot be written to a page image
  Empty        \* what a slot with a clear header bit holds

ASSUME SlotsAssumption == NumSlots \in Nat
ASSUME TupleAssumption == Malformed \subseteq Tuple /\ Empty \notin Tuple

Slot == 0 .. (NumSlots - 1)

\* What a page holds: also the 4096 bytes of it on file.
Data == [Slot -> Tuple \cup {Empty}]

\* 4096 zero bytes: every header bit is clear.
Blank == [s \in Slot |-> Empty]

Page == [data : Data, free : Int, dirty : BOOLEAN]

FreeSlots(data) == {s \in Slot : data[s] = Empty}

-----------------------------------------------------------------------------
\* Parsing a page image counts the zero bits of its header.
Create(data) ==
  [data |-> data, free |-> Cardinality(FreeSlots(data)), dirty |-> FALSE]

\* The one way to give tuples 1..n the first n free slots, in slot order.
Placements(data, n) ==
  {p \in [1 .. n -> FreeSlots(data)] :
     /\ \A i, j \in 1 .. n : i < j => p[i] < p[j]
     /\ \A s \in FreeSlots(data) :
          (\E i \in 1 .. n : p[i] = s) \/ (\A i \in 1 .. n : p[i] < s)}

Filled(data, p, ts) ==
  [s \in Slot |-> IF \E i \in DOMAIN p : p[i] = s
                  THEN ts[CHOOSE i \in DOMAIN p : p[i] = s]
                  ELSE data[s]]

\* The (one) page that AddTuples leaves.  The loop ends at the last slot or
\* the last tuple, whichever comes first; free_space drops by the number asked
\* for.  The caller never asks for more than free_space.
AddTuples(page, ts) ==
  LET n == IF Len(ts) <= Cardinality(FreeSlots(page.data))
           THEN Len(ts) ELSE Cardinality(FreeSlots(page.data))
  IN  {[data |-> Filled(page.data, p, ts), free |-> page.free - Len(ts), dirty |-> page.dirty] :
         p \in Placements(page.data, n)}

HasRecord(page, slot) == slot \in Slot /\ page.data[slot] # Empty

\* Mutant: free_space is not counted up again.
RemoveRecord_Uncounted(page, slot) ==
  [data |-> [page.data EXCEPT ![slot] = Empty], free |-> page.free, dirty |-> page.dirty]

\* The page RemoveRecord leaves where HasRecord: the header bit is cleared.
RemoveRecord(page, slot) ==
  [data |-> [page.data EXCEPT ![slot] = Empty], free |-> page.free + 1, dirty |-> page.dirty]

\* Mutant: the flag is not set.
SetDirty_Forgotten(page) == page

\* SetDirty ignores its argument: once dirty, a page in memory stays dirty.
SetDirty(page) == [page EXCEPT !.dirty = TRUE]

\* GetPageData succeeds: every field of every present record can be dumped.
Serialisable(page) == \A s \in Slot : page.data[s] \notin Malformed

=============================================================================
