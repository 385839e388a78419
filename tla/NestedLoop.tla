----------------------------- MODULE NestedLoop -----------------------------
(***************************************************************************)
(* Join, call by call: the steps of Open, Rewind and FetchNext (join.cc)   *)
(* between two calls of a child, over children of which only what Cursor   *)
(* promises is known.  The caller is any that Cursor allows.               *)
(***************************************************************************)
EXTENDS CursorState, Joining

CONSTANTS
  Inputs,         \* what a child may stand for, of the records Row
  Filter(_, _)    \* join_predicate.Filter of two records: "yes", "no", or
                  \* "crash" where the fields cannot be compared

ASSUME NullAssumption == Null \notin Row /\ Null \notin Row \X Row
ASSUME InputsAssumption == Inputs \subseteq Seq(Row)

VARIABLES
  left, right,    \* l_child and r_child, each a cursor
  l_child_next,   \* the left record being joined, or Null
  next_record,    \* the record held for Next
  call, status,   \* the caller's last call, and its answer
  pc              \* whose turn it is: of the "client", of a child ("left",
                  \* "right"; "again": the right one's Rewind in the loop), of
                  \* FetchNext at its "loop", or of nobody ("dead")

vars == <<left, right, l_child_next, next_record, call, status, pc>>

L == INSTANCE Cursor WITH c <- left
R == INSTANCE Cursor WITH c <- right

-----------------------------------------------------------------------------
(* The caller's steps.                                                     *)

Init ==
  /\ left \in {Closed(rows) : rows \in Inputs}
  /\ right \in {Closed(rows) : rows \in Inputs}
  /\ l_child_next = Null /\ next_record = Null
  /\ call = "none" /\ status = "ok" /\ pc = "client"

Open ==
  /\ call = "none"
  /\ call' = "open" /\ status' = "busy" /\ pc' = "left"
  /\ left' = Opening(left)
  /\ UNCHANGED <<right, l_child_next, next_record>>

\* Idle: the caller may go on.
Idle ==
  /\ call # "none" /\ next_record = Null
  /\ \/ status = "ok"
     \/ status = "oor" /\ call = "fetch"

Rewind ==
  /\ Idle
  /\ call' = "rewind" /\ status' = "busy" /\ pc' = "left"
  /\ left' = Rewinding(left)
  /\ UNCHANGED <<right, l_child_next, next_record>>

\* HasNext with no record held; with one it only answers.
FetchNext ==
  /\ Idle /\ status = "ok"
  /\ call' = "fetch" /\ status' = "busy" /\ pc' = "loop"
  /\ UNCHANGED <<left, right, l_child_next, next_record>>

\* Next, after HasNext: the record is moved out.
Take ==
  /\ next_record # Null
  /\ next_record' = Null
  /\ UNCHANGED <<left, right, l_child_next, call, status, pc>>

-----------------------------------------------------------------------------
(* Open and Rewind: the left child, then the right.                        *)

Return(st) == status' = st /\ pc' = "client" /\ UNCHANGED call

LeftReady ==
  /\ pc = "left" /\ call \in {"open", "rewind"} /\ left.status = "ok"
  /\ right' = IF call = "open" THEN Opening(right) ELSE Rewinding(right)
  /\ pc' = "right"
  /\ UNCHANGED <<left, l_child_next, next_record, call, status>>

\* Mutant: the left record is kept over a Rewind.
Forget_Kept == UNCHANGED <<l_child_next, next_record>>

\* The rest of Rewind; Open has nothing to forget.
Forget ==
  IF call = "rewind" THEN l_child_next' = Null /\ next_record' = Null
  ELSE UNCHANGED <<l_child_next, next_record>>

RightReady ==
  /\ pc = "right" /\ call \in {"open", "rewind"} /\ right.status = "ok"
  /\ Forget
  /\ Return("ok")
  /\ UNCHANGED <<left, right>>

-----------------------------------------------------------------------------
(* FetchNext: the right child's records for each of the left's.            *)

AskLeft ==
  /\ pc = "loop" /\ l_child_next = Null
  /\ left' = Asked(left) /\ pc' = "left"
  /\ UNCHANGED <<right, l_child_next, next_record, call, status>>

LeftRecord ==
  /\ pc = "left" /\ call = "fetch" /\ left.status = "ok"
  /\ l_child_next' = left.next /\ left' = Taken(left)
  /\ pc' = "loop"
  /\ UNCHANGED <<right, next_record, call, status>>

AskRight ==
  /\ pc = "loop" /\ l_child_next # Null
  /\ right' = Asked(right) /\ pc' = "right"
  /\ UNCHANGED <<left, l_child_next, next_record, call, status>>

\* Filter's value is taken without a look at its status.
RightRecord ==
  /\ pc = "right" /\ call = "fetch" /\ right.status = "ok"
  /\ right' = Taken(right)
  /\ CASE Filter(l_child_next, right.next) = "yes" ->
            next_record' = <<l_child_next, right.next>> /\ Return("ok")
       [] Filter(l_child_next, right.next) = "no" ->
            pc' = "loop" /\ UNCHANGED <<next_record, call, status>>
       [] OTHER -> pc' = "dead" /\ UNCHANGED <<next_record, call, status>>
  /\ UNCHANGED <<left, l_child_next>>

\* Mutant: the right child is not rewound for the next left record.
RightOver_NoRewind ==
  /\ pc = "right" /\ call = "fetch" /\ right.status = "oor"
  /\ l_child_next' = Null /\ pc' = "loop"
  /\ UNCHANGED <<left, right, next_record, call, status>>

\* Mutant: the left record is joined again and again.
RightOver_SameLeft ==
  /\ pc = "right" /\ call = "fetch" /\ right.status = "oor"
  /\ right' = Rewinding(right) /\ pc' = "again"
  /\ UNCHANGED <<left, l_child_next, next_record, call, status>>

\* The right child is rewound for the next left record.
RightOver ==
  /\ pc = "right" /\ call = "fetch" /\ right.status = "oor"
  /\ l_child_next' = Null
  /\ right' = Rewinding(right) /\ pc' = "again"
  /\ UNCHANGED <<left, next_record, call, status>>

RightAgain ==
  /\ pc = "again" /\ right.status = "ok"
  /\ pc' = "loop"
  /\ UNCHANGED <<left, right, l_child_next, next_record, call, status>>

\* RETURN_IF_ERROR, and the end of the left child.
LeftFails ==
  /\ pc = "left" /\ left.status \in {"oor", "error"}
  /\ Return(left.status)
  /\ UNCHANGED <<left, right, l_child_next, next_record>>

RightFails ==
  /\ \/ pc = "right" /\ right.status = "error"
     \/ pc = "right" /\ right.status = "oor" /\ call # "fetch"
     \/ pc = "again" /\ right.status \in {"oor", "error"}
  /\ Return(right.status)
  /\ UNCHANGED <<left, right, l_child_next, next_record>>

-----------------------------------------------------------------------------
OfLeft == L!Answer /\ UNCHANGED <<right, l_child_next, next_record, call, status, pc>>

OfRight == R!Answer /\ UNCHANGED <<left, l_child_next, next_record, call, status, pc>>

Caller == Open \/ Rewind \/ FetchNext \/ Take

Step == \/ LeftReady \/ RightReady
        \/ AskLeft \/ LeftRecord \/ AskRight \/ RightRecord
        \/ RightOver \/ RightAgain \/ LeftFails \/ RightFails
        \/ OfLeft \/ OfRight

Next == Caller \/ Step

\* A call runs to its answer; the caller need not make another.
Spec == Init /\ [][Next]_vars /\ WF_vars(Step)

-----------------------------------------------------------------------------
(* The records the join stands for.                                        *)

Pairs(l, r) == IF Filter(l, r) = "yes" THEN <<<<l, r>>>> ELSE <<>>

PairsOf(l, rs) == [j \in 1 .. Len(rs) |-> Pairs(l, rs[j])]

Matches(ls, rs) == [i \in 1 .. Len(ls) |-> Joined(PairsOf(ls[i], rs))]

\* The records of x that have been taken.
Done(x) == IF x.next = Null THEN x.pos ELSE x.pos - 1

Position ==
  LET pieces == Matches(left.rows, right.rows)
      i == Done(left)
  IN IF call # "fetch" THEN 0
     ELSE IF l_child_next = Null THEN JoinedLen(pieces, i)
     ELSE JoinedLen(pieces, i - 1)
          + JoinedLen(PairsOf(l_child_next, right.rows), Done(right))

\* The join as its caller knows it.
Self ==
  [rows |-> Joined(Matches(left.rows, right.rows)), pos |-> Position,
   next |-> next_record, call |-> call, status |-> status]

J == INSTANCE Cursor WITH Row <- Row \X Row, c <- Self

-----------------------------------------------------------------------------
TypeOK ==
  /\ left \in Cursors /\ right \in Cursors
  /\ l_child_next \in Row \cup {Null}
  /\ next_record \in Row \X Row \cup {Null}
  /\ call \in Calls /\ status \in Statuses
  /\ pc \in {"client", "left", "right", "again", "loop", "dead"}

\* What the join has of its own.
Turns ==
  /\ pc = "client" <=> status # "busy"
  /\ pc # "client" => call # "none" /\ next_record = Null
  /\ pc \in {"loop", "again", "dead"} => call = "fetch"
  /\ next_record # Null => call = "fetch" /\ status = "ok"
  /\ call = "none" => status = "ok"
  /\ call = "rewind" => status # "oor"
  /\ left.status = "busy" => pc = "left"
  /\ right.status = "busy" => pc \in {"right", "again"}

\* The left record being joined is the last one taken.
Recorded ==
  call = "fetch" /\ l_child_next # Null =>
    left.next = Null /\ left.pos > 0 /\ l_child_next = left.rows[left.pos]

\* Between two calls, and in the loop.
AtRest ==
  /\ call = "none" =>
       l_child_next = Null /\ left.call = "none" /\ right.call = "none"
  /\ pc = "loop" \/ (pc = "client" /\ call # "none" /\ status = "ok") =>
       /\ Askable(left) /\ Askable(right)
       /\ l_child_next = Null => right.pos = 0
  /\ pc = "client" /\ call \in {"open", "rewind"} /\ status = "ok" =>
       l_child_next = Null /\ left.pos = 0
  /\ call = "fetch" /\ status = "oor" =>
       /\ l_child_next = Null /\ right.pos = 0 /\ Askable(right)
       /\ left.call = "fetch" /\ left.status = "oor" /\ left.next = Null

\* While the left child is asked the right one stands at its first record.
AtLeft ==
  pc = "left" =>
    /\ left.call = call
    /\ call = "open" => l_child_next = Null /\ right.call = "none"
    /\ call = "rewind" => Usable(right)
    /\ call = "fetch" =>
         /\ l_child_next = Null /\ right.pos = 0 /\ Askable(right)
         /\ left.status = "ok" => left.next # Null

\* While the right child is asked the left one waits.
AtRight ==
  /\ pc \in {"right", "again"} => Askable(left)
  /\ pc = "right" =>
       /\ right.call = call
       /\ call = "open" => l_child_next = Null
       /\ call # "fetch" => left.call = call
       /\ call = "fetch" =>
            /\ l_child_next # Null
            /\ right.status = "ok" => right.next # Null
  /\ pc = "again" => right.call = "rewind" /\ l_child_next = Null

\* The join and its children are where they think each other: a left record
\* meets all the records of the right child and none of them twice.
InStep ==
  /\ Standing(left) /\ Standing(right)
  /\ Turns /\ Recorded /\ AtRest /\ AtLeft /\ AtRight

\* The inductive invariant.
IInv == TypeOK /\ InStep

\* FetchNext, Open and Rewind call the children as a cursor may be called.
ChildrenCalledRight == L!Spec /\ R!Spec

\* The join is a cursor over the matching pairs, left by left, of children
\* called as cursors: each pair once, again after a Rewind.
JoinIsCursor == J!Spec /\ ChildrenCalledRight

\* A call is answered, or the process dies in Filter.
CallsReturn == status = "busy" ~> status # "busy" \/ pc = "dead"

=============================================================================
