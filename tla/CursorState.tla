---------------------------- MODULE CursorState ----------------------------
(***************************************************************************)
(* An operator of a query as its caller knows it (OpIterator): the records *)
(* it stands for, how many of them it has fetched, the one held for Next   *)
(* ("next_record"), the last call made of it and its answer: "busy" before *)
(* there is one, "oor" for OutOfRange.                                     *)
(***************************************************************************)
EXTENDS Integers, Sequences

CONSTANTS Row,   \* the records
          Null   \* no record: a null pointer, or one moved from

Calls == {"none", "open", "fetch", "rewind"}
Statuses == {"busy", "ok", "oor", "error"}

Cursors == [rows : Seq(Row), pos : Nat, next : Row \cup {Null},
            call : Calls, status : Statuses]

Closed(rows) ==
  [rows |-> rows, pos |-> 0, next |-> Null, call |-> "none", status |-> "ok"]

\* Nothing is held for the caller, and no failure is behind it.
Usable(x) ==
  /\ x.call # "none" /\ x.next = Null
  /\ \/ x.status = "ok"
     \/ x.status = "oor" /\ x.call = "fetch"

\* After OutOfRange nobody asks again before a Rewind.
Askable(x) == Usable(x) /\ x.status = "ok"

\* What the caller's calls make of it; Taken is the move of Next.
Opening(x) == [x EXCEPT !.call = "open", !.status = "busy", !.pos = 0]
Rewinding(x) == [x EXCEPT !.call = "rewind", !.status = "busy", !.pos = 0]
Asked(x) == [x EXCEPT !.call = "fetch", !.status = "busy"]
Taken(x) == [x EXCEPT !.next = Null]

\* What it may have become when it answers.
Answered(x) ==
  IF x.call # "fetch" THEN [x EXCEPT !.status = "ok"]
  ELSE IF x.pos < Len(x.rows)
  THEN [x EXCEPT !.pos = @ + 1, !.next = x.rows[x.pos + 1], !.status = "ok"]
  ELSE [x EXCEPT !.status = "oor"]

\* Open may answer OutOfRange (a table without pages); a Rewind, of an
\* operator that was opened, never does.
Failed(x) ==
  {[x EXCEPT !.status = st] :
     st \in IF x.call = "open" THEN {"oor", "error"} ELSE {"error"}}

Answers(x) == {Answered(x)} \cup Failed(x)

\* What such calls and answers leave.
Standing(x) ==
  /\ x.pos <= Len(x.rows)
  /\ x.call # "fetch" => x.pos = 0 /\ x.next = Null
  /\ x.call = "none" => x.status = "ok"
  /\ x.call = "rewind" => x.status # "oor"
  /\ x.call = "fetch" /\ x.status = "oor" => x.pos = Len(x.rows)
  /\ x.next # Null => x.status = "ok" /\ x.pos > 0 /\ x.next = x.rows[x.pos]

=============================================================================
