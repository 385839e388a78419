----------------------------- MODULE PageOnFile -----------------------------
(***************************************************************************)
(* A page as the buffer pool sees it: what its slots hold in memory, and   *)
(* what they will when it is read from the file again (HeapPage's Create   *)
(* of the image last written).  PageLayout implements it with bytes.       *)
(***************************************************************************)
EXTENDS HeapPage

VARIABLES data, free, disk

Memory == [data |-> data, free |-> free, dirty |-> FALSE]
Becomes(page) == data' = page.data /\ free' = page.free

Init == disk = Blank /\ data = Blank /\ free = NumSlots

Add ==
  \E ts \in {<<t>> : t \in Tuple} \cup {<<t1, t2>> : t1, t2 \in Tuple} :
    /\ Len(ts) <= free
    /\ \E page \in AddTuples(Memory, ts) : Becomes(page)
    /\ UNCHANGED disk

Remove ==
  \E s \in Slot :
    /\ HasRecord(Memory, s)
    /\ Becomes(RemoveRecord(Memory, s))
    /\ UNCHANGED disk

Write == disk' = data /\ UNCHANGED <<data, free>>

Read == Becomes(Create(disk)) /\ UNCHANGED disk

Spec == Init /\ [][Add \/ Remove \/ Write \/ Read]_<<data, free, disk>>

=============================================================================
