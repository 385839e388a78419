------------------------------ MODULE OneChild ------------------------------
(***************************************************************************)
(* Filter, Project and Limit, call by call: the steps of Open, Rewind and  *)
(* FetchNext (filter.cc, project.cc, limit.cc) between two calls of their  *)
(* child, of which only what Cursor promises is known.  The caller is any  *)
(* that Cursor allows.                                                     *)
(***************************************************************************)
EXTENDS CursorState, Joining

CONSTANTS
  ChildInputs,  \* what the child may stand for, of the records Row
  Evaluate(_),  \* Filter's predicate of a record: "yes", "no", or "crash"
                \* where a field cannot be compared
  Copies(_),    \* whether Project can copy a record's fields: "yes", "error"
                \* or "crash", where one is not of the type of its column
  Image(_),     \* the record of the copies
  Limits        \* the limits of a Limit

ASSUME OneChildAssumption ==
  /\ Null \notin Row /\ ChildInputs \subseteq Seq(Row) /\ Limits \subseteq Nat
  /\ \A r \in Row : Copies(r) = "yes" => Image(r) \in Row

VARIABLES
  kind,               \* which of the operators it is
  limit,              \* the limit of a Limit
  child,              \* the child, a cursor
  fetched,            \* the records a Limit has asked for
  op_next_record,     \* the record held for Next
  op_call, op_status, \* the caller's last call, and its answer
  op_pc               \* whose turn it is: of the "client", of the "child", of
                      \* FetchNext at its "loop", or of nobody ("dead")

op_vars ==
  <<kind, limit, child, fetched, op_next_record, op_call, op_status, op_pc>>

C == INSTANCE Cursor WITH c <- child

-----------------------------------------------------------------------------
(* The caller's steps.                                                     *)

\* fetched has no value before Open.
OpInit ==
  /\ kind \in {"filter", "project", "limit"} /\ limit \in Limits
  /\ child \in {Closed(rows) : rows \in ChildInputs}
  /\ fetched = 0 /\ op_next_record = Null
  /\ op_call = "none" /\ op_status = "ok" /\ op_pc = "client"

OpOpen ==
  /\ op_call = "none"
  /\ op_call' = "open" /\ op_status' = "busy" /\ op_pc' = "child"
  /\ child' = Opening(child)
  /\ UNCHANGED <<kind, limit, fetched, op_next_record>>

OpIdle ==
  /\ op_call # "none" /\ op_next_record = Null
  /\ \/ op_status = "ok"
     \/ op_status = "oor" /\ op_call = "fetch"

OpRewind ==
  /\ OpIdle
  /\ op_call' = "rewind" /\ op_status' = "busy" /\ op_pc' = "child"
  /\ child' = Rewinding(child)
  /\ UNCHANGED <<kind, limit, fetched, op_next_record>>

\* HasNext with no record held, or Next with none.
OpFetchNext ==
  /\ OpIdle /\ op_status = "ok"
  /\ op_call' = "fetch" /\ op_status' = "busy" /\ op_pc' = "loop"
  /\ UNCHANGED <<kind, limit, child, fetched, op_next_record>>

\* Next, when a record is held.
OpTake ==
  /\ op_next_record # Null
  /\ op_next_record' = Null
  /\ UNCHANGED <<kind, limit, child, fetched, op_call, op_status, op_pc>>

-----------------------------------------------------------------------------
(* What the operators have in common.                                      *)

OpReturn(st) ==
  op_status' = st /\ op_pc' = "client" /\ UNCHANGED <<kind, limit, op_call>>

Hold(r) == op_next_record' = r /\ OpReturn("ok")

Crash ==
  /\ op_pc' = "dead"
  /\ UNCHANGED <<kind, limit, op_next_record, op_call, op_status>>

\* Mutant: Rewind leaves the count of a Limit as it is.
Ready_Counted ==
  /\ op_pc = "child" /\ op_call \in {"open", "rewind"} /\ child.status = "ok"
  /\ fetched' = IF kind = "limit" /\ op_call = "open" THEN 0 ELSE fetched
  /\ OpReturn("ok")
  /\ UNCHANGED <<child, op_next_record>>

\* The child is opened or rewound; a Limit begins to count.
Ready ==
  /\ op_pc = "child" /\ op_call \in {"open", "rewind"} /\ child.status = "ok"
  /\ fetched' = IF kind = "limit" THEN 0 ELSE fetched
  /\ OpReturn("ok")
  /\ UNCHANGED <<child, op_next_record>>

\* Mutant: a Limit does not count.
AskChild_Uncounted ==
  /\ op_pc = "loop" /\ ~(kind = "limit" /\ fetched = limit)
  /\ child' = Asked(child) /\ op_pc' = "child"
  /\ UNCHANGED <<kind, limit, fetched, op_next_record, op_call, op_status>>

\* FetchNext asks the child; a Limit counts before it does.
AskChild ==
  /\ op_pc = "loop" /\ ~(kind = "limit" /\ fetched = limit)
  /\ fetched' = IF kind = "limit" THEN fetched + 1 ELSE fetched
  /\ child' = Asked(child) /\ op_pc' = "child"
  /\ UNCHANGED <<kind, limit, op_next_record, op_call, op_status>>

\* RETURN_IF_ERROR, and the end of the child.
ChildFails ==
  /\ op_pc = "child" /\ child.status \in {"oor", "error"}
  /\ OpReturn(child.status)
  /\ UNCHANGED <<child, fetched, op_next_record>>

\* The child's answer to FetchNext is moved out of it.
Given ==
  /\ op_pc = "child" /\ op_call = "fetch" /\ child.status = "ok"
  /\ child' = Taken(child)
  /\ UNCHANGED fetched

-----------------------------------------------------------------------------
(* What FetchNext of each makes of a record.                               *)

Skip ==
  /\ op_pc' = "loop"
  /\ UNCHANGED <<kind, limit, op_next_record, op_call, op_status>>

\* Evaluate's value is taken without a look at its status.
FilterRecord ==
  /\ kind = "filter" /\ Given
  /\ CASE Evaluate(child.next) = "yes" -> Hold(child.next)
       [] Evaluate(child.next) = "no" -> Skip
       [] OTHER -> Crash

ProjectRecord ==
  /\ kind = "project" /\ Given
  /\ CASE Copies(child.next) = "yes" -> Hold(Image(child.next))
       [] Copies(child.next) = "error" ->
            OpReturn("error") /\ UNCHANGED op_next_record
       [] OTHER -> Crash

LimitRecord == kind = "limit" /\ Given /\ Hold(child.next)

LimitReached ==
  /\ op_pc = "loop" /\ kind = "limit" /\ fetched = limit
  /\ OpReturn("oor")
  /\ UNCHANGED <<child, fetched, op_next_record>>

-----------------------------------------------------------------------------
OfChild ==
  /\ C!Answer
  /\ UNCHANGED <<kind, limit, fetched, op_next_record, op_call, op_status, op_pc>>

OpCaller == OpOpen \/ OpRewind \/ OpFetchNext \/ OpTake

OpStep == \/ Ready \/ AskChild \/ ChildFails \/ OfChild
        \/ FilterRecord \/ ProjectRecord \/ LimitRecord \/ LimitReached

OpNext == OpCaller \/ OpStep

\* A call runs to its answer; the caller need not make another.
OpSpec == OpInit /\ [][OpNext]_op_vars /\ WF_op_vars(OpStep)

-----------------------------------------------------------------------------
(* The records the operator stands for.                                    *)

\* What comes of a record of the child.
Made(r) ==
  CASE kind = "filter"  -> IF Evaluate(r) = "yes" THEN <<r>> ELSE <<>>
    [] kind = "project" -> IF Copies(r) = "yes" THEN <<Image(r)>> ELSE <<>>
    [] OTHER            -> <<r>>

\* How many of them may be fetched.
Wanted == IF kind = "limit" /\ limit < Len(child.rows) THEN limit
          ELSE Len(child.rows)

Pieces == [i \in 1 .. Wanted |-> Made(child.rows[i])]

\* The records of the child that have been taken.
OpDone == IF child.next = Null THEN child.pos ELSE child.pos - 1

OpSelf ==
  [rows |-> Joined(Pieces),
   pos |-> IF op_call = "fetch" THEN JoinedLen(Pieces, OpDone) ELSE 0,
   next |-> op_next_record, call |-> op_call, status |-> op_status]

O == INSTANCE Cursor WITH c <- OpSelf

-----------------------------------------------------------------------------
OpTypeOK ==
  /\ kind \in {"filter", "project", "limit"} /\ limit \in Limits
  /\ child \in Cursors /\ fetched \in Nat
  /\ op_next_record \in Row \cup {Null}
  /\ op_call \in Calls /\ op_status \in Statuses
  /\ op_pc \in {"client", "child", "loop", "dead"}

\* What the operator has of its own.
OpTurns ==
  /\ op_pc = "client" <=> op_status # "busy"
  /\ op_pc # "client" => op_call # "none" /\ op_next_record = Null
  /\ op_pc \in {"loop", "dead"} => op_call = "fetch"
  /\ op_next_record # Null => op_call = "fetch" /\ op_status = "ok"
  /\ op_call = "none" => op_status = "ok" /\ child.call = "none"
  /\ op_call = "rewind" => op_status # "oor"
  /\ child.status = "busy" => op_pc = "child"

\* Between two calls, and in the loop.
OpAtRest ==
  /\ op_pc = "loop"
       \/ (op_pc = "client" /\ op_call # "none" /\ op_status = "ok") =>
       /\ Askable(child)
       /\ kind = "limit" => fetched = child.pos
  /\ op_pc = "client" /\ op_call \in {"open", "rewind"} /\ op_status = "ok" =>
       child.pos = 0
  /\ op_call = "fetch" /\ op_status = "oor" => Usable(child)

\* While the child is asked; a Limit counts the record it asks for.
AtChild ==
  op_pc = "child" =>
    /\ child.call = op_call
    /\ op_call = "fetch" /\ child.status = "ok" => child.next # Null
    /\ op_call = "fetch" /\ kind = "limit" => fetched = OpDone + 1

\* The operator and its child are where they think each other, and a Limit
\* has counted all it took: no record is passed on twice, none is lost, and
\* no more than the limit.
OpInStep ==
  /\ Standing(child) /\ OpTurns /\ OpAtRest /\ AtChild
  /\ kind = "limit" => /\ fetched <= limit
                       /\ op_call = "fetch" => OpDone <= fetched

\* The inductive invariant.
OpIInv == OpTypeOK /\ OpInStep

\* FetchNext, Open and Rewind call the child as a cursor may be called.
ChildCalledRight == C!Spec

\* A filter is a cursor over the records its predicate holds of, a project
\* over the copies of its child's records, a limit over the first of them,
\* and each calls its child as one.
OneChildIsCursor == O!Spec /\ ChildCalledRight

\* A call is answered, or the process dies of a record.
OpCallsReturn == op_status = "busy" ~> op_status # "busy" \/ op_pc = "dead"

=============================================================================
