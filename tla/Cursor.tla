------------------------------- MODULE Cursor -------------------------------
(***************************************************************************)
(* What an operator of a query promises to its caller (OpIterator): its    *)
(* records one by one, in order, each once, then OutOfRange, and the same  *)
(* again after a Rewind.  A call is made and later answered, so that what  *)
(* the operator does in between may be steps of its own.                   *)
(***************************************************************************)
EXTENDS CursorState

VARIABLE c   \* the operator

Init == c.rows \in Seq(Row) /\ c = Closed(c.rows)

-----------------------------------------------------------------------------
(* The caller's steps.                                                     *)

Open == c.call = "none" /\ c' = Opening(c)

Rewind == Usable(c) /\ c' = Rewinding(c)

\* HasNext with no record held, or Next with none; after OutOfRange nobody
\* asks before a Rewind.
HasNext == Askable(c) /\ c' = Asked(c)

\* Next, when a record is held.
Take == c.next # Null /\ c' = Taken(c)

-----------------------------------------------------------------------------
(* The operator's step.                                                    *)

Answer == c.status = "busy" /\ c' \in Answers(c)

Next == Open \/ Rewind \/ HasNext \/ Take \/ Answer

Spec == Init /\ [][Next]_c

=============================================================================
