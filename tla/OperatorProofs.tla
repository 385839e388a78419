--------------------------- MODULE OperatorProofs ---------------------------
(***************************************************************************)
(* Filter, Project and Limit are cursors over what they make of the        *)
(* records of their child, for every child that is a cursor, every         *)
(* predicate, every limit and every caller; a scan is a cursor over the    *)
(* records of its table, whatever pages are empty and whatever page fails. *)
(***************************************************************************)
EXTENDS OneChild, TableScan, ListLemmas

-----------------------------------------------------------------------------
(* Cursors                                                                 *)

\* What the calls of a caller make of one.
LEMMA Called ==
  ASSUME NEW x \in Cursors
  PROVE  /\ Opening(x) \in Cursors /\ Opening(x).rows = x.rows
         /\ Opening(x).pos = 0 /\ Opening(x).next = x.next
         /\ Opening(x).call = "open" /\ Opening(x).status = "busy"
         /\ Rewinding(x) \in Cursors /\ Rewinding(x).rows = x.rows
         /\ Rewinding(x).pos = 0 /\ Rewinding(x).next = x.next
         /\ Rewinding(x).call = "rewind" /\ Rewinding(x).status = "busy"
         /\ Asked(x) \in Cursors /\ Asked(x).rows = x.rows
         /\ Asked(x).pos = x.pos /\ Asked(x).next = x.next
         /\ Asked(x).call = "fetch" /\ Asked(x).status = "busy"
         /\ Taken(x) \in Cursors /\ Taken(x).rows = x.rows
         /\ Taken(x).pos = x.pos /\ Taken(x).next = Null
         /\ Taken(x).call = x.call /\ Taken(x).status = x.status
  BY DEF Cursors, Calls, Statuses, Opening, Rewinding, Asked, Taken

LEMMA CalledStands ==
  ASSUME NEW x \in Cursors, Standing(x)
  PROVE  /\ x.call = "none" => Standing(Opening(x))
         /\ Usable(x) => Standing(Rewinding(x))
         /\ Askable(x) => Standing(Asked(x))
         /\ Standing(Taken(x))
<1>1. Len(x.rows) \in Nat
  BY LenProperties DEF Cursors
<1> QED BY <1>1, Called DEF Standing, Usable, Askable

\* All but the answer.
Same(x, y) ==
  y.rows = x.rows /\ y.call = x.call /\ y.pos = x.pos /\ y.next = x.next

LEMMA Stated ==
  ASSUME NEW x \in Cursors, NEW st \in Statuses
  PROVE  /\ [x EXCEPT !.status = st] \in Cursors
         /\ Same(x, [x EXCEPT !.status = st])
         /\ [x EXCEPT !.status = st].status = st
  BY DEF Cursors, Same

\* An answer: where a record is fetched it is the next one.
Followed(x, y) ==
  /\ y.rows = x.rows /\ y.call = x.call /\ y.status # "busy"
  /\ x.next = Null
  /\ y.next = Null => y.pos = x.pos
  /\ y.next # Null => y.pos = x.pos + 1
  /\ x.call = "fetch" /\ y.status = "ok" => y.next # Null

LEMMA AnswerStands ==
  ASSUME Null \notin Row,
         NEW x \in Cursors, Standing(x), x.status = "busy", NEW y \in Answers(x)
  PROVE  y \in Cursors /\ Standing(y) /\ Followed(x, y)
<1>1. /\ Len(x.rows) \in Nat /\ x.pos \in Nat /\ x.pos <= Len(x.rows)
      /\ x.next = Null /\ x.call \in Calls
  BY LenProperties DEF Cursors, Standing
<1>2. CASE y \in Failed(x)
  <2>1. \/ y = [x EXCEPT !.status = "error"]
        \/ x.call = "open" /\ y = [x EXCEPT !.status = "oor"]
    BY <1>2 DEF Failed
  <2>2. CASE y = [x EXCEPT !.status = "error"]
    <3>1. y \in Cursors /\ Same(x, y) /\ y.status = "error"
      BY <2>2, Stated DEF Statuses
    <3> QED BY <1>1, <3>1 DEF Standing, Followed, Same
  <2>3. CASE x.call = "open" /\ y = [x EXCEPT !.status = "oor"]
    <3>1. y \in Cursors /\ Same(x, y) /\ y.status = "oor"
      BY <2>3, Stated DEF Statuses
    <3> QED BY <1>1, <2>3, <3>1 DEF Standing, Followed, Same
  <2> QED BY <2>1, <2>2, <2>3
<1>3. CASE y = Answered(x) /\ x.call # "fetch"
  <2>1. y = [x EXCEPT !.status = "ok"]
    BY <1>3 DEF Answered
  <2>2. y \in Cursors /\ Same(x, y) /\ y.status = "ok"
    BY <2>1, Stated DEF Statuses
  <2> QED BY <1>1, <1>3, <2>2 DEF Standing, Followed, Same
<1>4. CASE y = Answered(x) /\ x.call = "fetch" /\ x.pos < Len(x.rows)
  <2> DEFINE r == x.rows[x.pos + 1]
  <2>1. r \in Row
    <3>1. x.rows \in Seq(Row) /\ x.pos + 1 \in 1 .. Len(x.rows)
      BY <1>1, <1>4 DEF Cursors
    <3> QED BY <3>1, ElementOfSeq
  <2>2. y = [x EXCEPT !.pos = @ + 1, !.next = r, !.status = "ok"]
    BY <1>4 DEF Answered
  <2> HIDE DEF r
  <2>3. /\ y \in Cursors /\ y.rows = x.rows /\ y.call = x.call
        /\ y.pos = x.pos + 1 /\ y.next = r /\ y.status = "ok"
    <3> DEFINE p == x.pos + 1
    <3>1. p \in Nat /\ y = [x EXCEPT !.pos = p, !.next = r, !.status = "ok"]
      BY <1>1, <2>2
    <3> HIDE DEF p
    <3>2. /\ y \in Cursors /\ y.rows = x.rows /\ y.call = x.call
          /\ y.pos = p /\ y.next = r /\ y.status = "ok"
      BY <2>1, <3>1 DEF Cursors, Statuses
    <3> QED BY <3>2 DEF p
  <2> QED BY <1>1, <1>4, <2>1, <2>3 DEF Standing, Followed, r
<1>5. CASE y = Answered(x) /\ x.call = "fetch" /\ ~(x.pos < Len(x.rows))
  <2>1. y = [x EXCEPT !.status = "oor"]
    BY <1>5 DEF Answered
  <2>2. y \in Cursors /\ Same(x, y) /\ y.status = "oor"
    BY <2>1, Stated DEF Statuses
  <2> QED BY <1>1, <1>5, <2>2 DEF Standing, Followed, Same
<1> QED BY <1>2, <1>3, <1>4, <1>5 DEF Answers

-----------------------------------------------------------------------------
(* The invariant of an operator with one child                             *)

LEMMA InitStands ==
  ASSUME OpInit
  PROVE  OpIInv
<1>1. PICK rows \in ChildInputs : child = Closed(rows)
  BY DEF OpInit
<1>2. rows \in Seq(Row) /\ Len(rows) \in Nat /\ limit \in Nat
  BY OneChildAssumption, LenProperties DEF OpInit
<1>3. /\ child \in Cursors /\ child.rows = rows /\ child.pos = 0 /\ child.next = Null
      /\ child.call = "none" /\ child.status = "ok"
  BY <1>1, <1>2 DEF Closed, Cursors, Calls, Statuses
<1>4. Standing(child)
  BY <1>2, <1>3 DEF Standing
<1> QED BY <1>2, <1>3, <1>4
        DEF OpIInv, OpTypeOK, OpInStep, OpTurns, OpAtRest, AtChild, OpInit, Calls, Statuses

\* Counts are numbers.
LEMMA Counts ==
  ASSUME OpIInv
  PROVE  /\ limit \in Nat /\ fetched \in Nat /\ child.pos \in Nat
         /\ child.rows \in Seq(Row) /\ Len(child.rows) \in Nat
         /\ child.pos <= Len(child.rows)
         /\ child.next # Null => child.pos > 0
         /\ OpDone = (IF child.next = Null THEN child.pos ELSE child.pos - 1)
  BY OneChildAssumption, LenProperties DEF OpIInv, OpTypeOK, OpInStep, Standing, Cursors, OpDone

LEMMA CallerKeeps ==
  ASSUME OpIInv, OpCaller
  PROVE  OpIInv'
<1> USE DEF OpIInv, OpTypeOK, OpInStep
<1>1. CASE OpOpen
  <2>1. Standing(child') /\ child' \in Cursors
    BY <1>1, Called, CalledStands DEF OpOpen, OpTurns
  <2> QED BY <1>1, <2>1, Called
          DEF OpOpen, OpTurns, OpAtRest, AtChild, Standing, Calls, Statuses
<1>2. CASE OpRewind
  <2>1. Usable(child)
    BY <1>2 DEF OpRewind, OpIdle, OpAtRest, OpTurns, Askable, Calls
  <2>2. Standing(child') /\ child' \in Cursors
    BY <1>2, <2>1, Called, CalledStands DEF OpRewind
  <2> QED BY <1>2, <2>1, <2>2, Called
          DEF OpRewind, OpIdle, OpTurns, OpAtRest, AtChild, Calls, Statuses
<1>3. CASE OpFetchNext
  <2>1. Askable(child) /\ (kind = "limit" => fetched = child.pos)
    BY <1>3 DEF OpFetchNext, OpIdle, OpAtRest, OpTurns
  <2>2. child.next = Null
    BY <2>1 DEF Askable, Usable
  <2>3. kind = "limit" => OpDone <= fetched
    BY <2>1, <2>2, Counts
  <2> QED BY <1>3, <2>1, <2>3
          DEF OpFetchNext, OpIdle, OpTurns, OpAtRest, AtChild, OpDone, Usable, Askable, Calls, Statuses
<1>4. CASE OpTake
  BY <1>4, OneChildAssumption DEF OpTake, OpTurns, OpAtRest, AtChild, OpDone, Usable, Askable
<1> QED BY <1>1, <1>2, <1>3, <1>4 DEF OpCaller

\* What the child answers.
LEMMA ChildAnswers ==
  ASSUME OpIInv, C!Answer
  PROVE  child' \in Cursors /\ Standing(child') /\ Followed(child, child')
<1>1. C!Answers(child) = Answers(child)
  BY DEF C!Answers, C!Answered, C!Failed, Answers, Answered, Failed
<1> QED BY <1>1, OneChildAssumption, AnswerStands DEF C!Answer, OpIInv, OpTypeOK, OpInStep

\* A record given is the child's last, and a Limit has counted it.
LEMMA RecordGiven ==
  ASSUME OpIInv, Given
  PROVE  /\ child' \in Cursors /\ Standing(child') /\ Askable(child')
         /\ child.pos \in 1 .. Len(child.rows) /\ child.next = child.rows[child.pos]
         /\ child.next \in Row
         /\ child'.pos = child.pos /\ child'.rows = child.rows
         /\ child'.next = Null /\ child'.call = "fetch" /\ child'.status = "ok"
         /\ OpDone = child.pos - 1 /\ OpDone' = child.pos
         /\ kind = "limit" => fetched = child.pos
         /\ op_next_record = Null /\ op_call = "fetch" /\ op_status = "busy"
<1> USE DEF OpIInv, OpTypeOK, OpInStep
<1>1. /\ child' = Taken(child) /\ child.next # Null /\ child.call = "fetch"
      /\ child.status = "ok" /\ op_call = "fetch" /\ op_status = "busy" /\ op_next_record = Null
      /\ kind = "limit" => fetched = OpDone + 1
  BY DEF Given, AtChild, OpTurns
<1>2. /\ child' \in Cursors /\ Standing(child')
      /\ child'.pos = child.pos /\ child'.rows = child.rows
      /\ child'.next = Null /\ child'.call = "fetch" /\ child'.status = "ok"
  BY <1>1, Called, CalledStands
<1>3. Askable(child')
  BY <1>2 DEF Askable, Usable
<1>4. /\ child.pos \in 1 .. Len(child.rows) /\ child.next = child.rows[child.pos]
      /\ OpDone = child.pos - 1
  BY <1>1, Counts DEF Standing
<1>5. child.next \in Row
  BY <1>1 DEF Cursors
<1>6. OpDone' = child.pos
  BY <1>2 DEF OpDone
<1>7. kind = "limit" => fetched = child.pos
  BY <1>1, <1>4, Counts
<1> QED BY <1>1, <1>2, <1>3, <1>4, <1>5, <1>6, <1>7

\* Whatever is made of it.
LEMMA RecordKeeps ==
  ASSUME OpIInv, Given, UNCHANGED <<kind, limit, op_call>>,
         \/ op_pc' = "client" /\ op_status' = "ok" /\ op_next_record' \in Row
         \/ op_pc' = "client" /\ op_status' = "error" /\ op_next_record' = Null
         \/ op_pc' \in {"loop", "dead"} /\ op_status' = "busy" /\ op_next_record' = Null
  PROVE  OpIInv'
<1> USE DEF OpIInv, OpTypeOK, OpInStep
<1>1. /\ child' \in Cursors /\ Standing(child') /\ Askable(child')
      /\ child'.pos = child.pos /\ child'.status = "ok" /\ OpDone' = child.pos
      /\ kind = "limit" => fetched = child.pos
      /\ op_call = "fetch" /\ fetched' = fetched
  BY RecordGiven DEF Given
<1>2. kind' = "limit" => fetched' <= limit' /\ OpDone' <= fetched'
  BY <1>1, Counts
<1> QED BY <1>1, <1>2 DEF OpTurns, OpAtRest, AtChild, Statuses

LEMMA StepKeeps ==
  ASSUME OpIInv, OpStep
  PROVE  OpIInv'
<1> USE DEF OpIInv, OpTypeOK, OpInStep
<1>1. CASE Ready
  <2>1. Askable(child) /\ child.pos = 0 /\ op_status = "busy" /\ op_next_record = Null
    BY <1>1 DEF Ready, AtChild, OpTurns, Standing, Usable, Askable
  <2>2. kind = "limit" => fetched' = 0 /\ fetched' <= limit
    BY <1>1, Counts DEF Ready
  <2>3. fetched' \in Nat
    BY <1>1 DEF Ready
  <2> QED BY <1>1, <2>1, <2>2, <2>3 DEF Ready, OpReturn, OpTurns, OpAtRest, AtChild, Statuses
<1>2. CASE AskChild
  <2>1. /\ Askable(child) /\ op_call = "fetch" /\ op_status = "busy"
        /\ op_next_record = Null
        /\ kind = "limit" => fetched = child.pos
    BY <1>2 DEF AskChild, OpAtRest, OpTurns
  <2>2. /\ child' \in Cursors /\ Standing(child') /\ child'.call = "fetch"
        /\ child'.status = "busy" /\ child'.next = Null /\ child'.pos = child.pos
    BY <1>2, <2>1, Called, CalledStands DEF AskChild, Askable, Usable
  <2>3. OpDone' = child.pos
    BY <2>2 DEF OpDone
  <2>4. /\ fetched' \in Nat
        /\ kind = "limit" => fetched' = child.pos + 1 /\ fetched' <= limit
    BY <1>2, <2>1, Counts DEF AskChild
  <2>5. kind = "limit" => OpDone' <= fetched'
    BY <2>3, <2>4, Counts
  <2> QED BY <1>2, <2>1, <2>2, <2>3, <2>4, <2>5 DEF AskChild, OpTurns, OpAtRest, AtChild
<1>3. CASE ChildFails
  <2>1. op_call # "rewind" \/ child.status # "oor"
    BY <1>3 DEF ChildFails, AtChild, Standing
  <2>2. op_call = "fetch" /\ child.status = "oor" => Usable(child)
    BY <1>3 DEF ChildFails, AtChild, Standing, Usable
  <2> QED BY <1>3, <2>1, <2>2
          DEF ChildFails, OpReturn, OpTurns, OpAtRest, AtChild, OpDone, Calls, Statuses
<1>4. CASE FilterRecord
  <2>1. Given /\ UNCHANGED <<kind, limit, op_call>>
    BY <1>4 DEF FilterRecord, Hold, OpReturn, Skip, Crash
  <2>2. child.next \in Row /\ op_next_record = Null /\ op_status = "busy"
    BY <2>1, RecordGiven
  <2>3. \/ op_pc' = "client" /\ op_status' = "ok" /\ op_next_record' \in Row
        \/ op_pc' \in {"loop", "dead"} /\ op_status' = "busy" /\ op_next_record' = Null
    BY <1>4, <2>2 DEF FilterRecord, Hold, OpReturn, Skip, Crash
  <2> QED BY <2>1, <2>3, RecordKeeps
<1>5. CASE ProjectRecord
  <2>1. Given /\ UNCHANGED <<kind, limit, op_call>>
    BY <1>5 DEF ProjectRecord, Hold, OpReturn, Crash
  <2>2. child.next \in Row /\ op_next_record = Null /\ op_status = "busy"
    BY <2>1, RecordGiven
  <2>3. Copies(child.next) = "yes" => Image(child.next) \in Row
    BY <2>2, OneChildAssumption
  <2>4. \/ op_pc' = "client" /\ op_status' = "ok" /\ op_next_record' \in Row
        \/ op_pc' = "client" /\ op_status' = "error" /\ op_next_record' = Null
        \/ op_pc' = "dead" /\ op_status' = "busy" /\ op_next_record' = Null
    BY <1>5, <2>2, <2>3 DEF ProjectRecord, Hold, OpReturn, Crash
  <2> QED BY <2>1, <2>4, RecordKeeps
<1>6. CASE LimitRecord
  <2>1. Given /\ child.next \in Row
    BY <1>6, RecordGiven DEF LimitRecord
  <2>2. /\ UNCHANGED <<kind, limit, op_call>>
        /\ op_pc' = "client" /\ op_status' = "ok" /\ op_next_record' \in Row
    BY <1>6, <2>1 DEF LimitRecord, Hold, OpReturn
  <2> QED BY <2>1, <2>2, RecordKeeps
<1>7. CASE LimitReached
  BY <1>7 DEF LimitReached, OpReturn, OpTurns, OpAtRest, AtChild, OpDone, Askable, Statuses
<1>8. CASE OfChild
  <2>1. child' \in Cursors /\ Standing(child') /\ Followed(child, child')
    BY <1>8, ChildAnswers DEF OfChild
  <2>2. child.status = "busy"
    BY <1>8 DEF OfChild, C!Answer
  <2>3. child'.pos \in Nat /\ child.pos \in Nat
    BY <2>1 DEF Cursors
  <2>4. OpDone' = OpDone
    BY <2>1, <2>3 DEF Followed, OpDone
  <2> QED BY <1>8, <2>1, <2>2, <2>4
          DEF OfChild, Followed, OpTurns, OpAtRest, AtChild, Usable, Askable
<1> QED BY <1>1, <1>2, <1>3, <1>4, <1>5, <1>6, <1>7, <1>8 DEF OpStep

LEMMA NextKeeps ==
  ASSUME OpIInv, [OpNext]_op_vars
  PROVE  OpIInv'
<1>1. CASE UNCHANGED op_vars
  BY <1>1 DEF OpIInv, OpTypeOK, OpInStep, op_vars, OpTurns, OpAtRest, AtChild, OpDone
<1> QED BY <1>1, CallerKeeps, StepKeeps DEF OpNext

\* Every state of the operator and its child is well formed, and they agree
\* on where they are; a Limit never asks for more than its limit.
THEOREM OperatorInStep == OpSpec => []OpIInv
<1>1. OpInit => OpIInv
  BY InitStands
<1>2. OpIInv /\ [OpNext]_op_vars => OpIInv'
  BY NextKeeps
<1> QED BY <1>1, <1>2, PTL DEF OpSpec

-----------------------------------------------------------------------------
(* The child                                                               *)

LEMMA ChildStarts ==
  ASSUME OpInit
  PROVE  C!Init
<1>1. PICK rows \in ChildInputs : child = Closed(rows)
  BY DEF OpInit
<1>2. rows \in Seq(Row) /\ child.rows = rows
  BY <1>1, OneChildAssumption DEF Closed
<1> QED BY <1>1, <1>2 DEF C!Init, C!Closed, Closed

LEMMA ChildSteps ==
  ASSUME OpIInv, [OpNext]_op_vars
  PROVE  [C!Next]_child
<1>1. /\ C!Opening(child) = Opening(child) /\ C!Rewinding(child) = Rewinding(child)
      /\ C!Asked(child) = Asked(child) /\ C!Taken(child) = Taken(child)
      /\ C!Usable(child) = Usable(child) /\ C!Askable(child) = Askable(child)
  BY DEF C!Opening, C!Rewinding, C!Asked, C!Taken, C!Usable, C!Askable,
         Opening, Rewinding, Asked, Taken, Usable, Askable
<1> USE DEF OpIInv, OpInStep
<1>2. CASE OpOpen
  BY <1>1, <1>2 DEF OpOpen, OpTurns, C!Next, C!Open
<1>3. CASE OpRewind
  <2>1. Usable(child)
    BY <1>3 DEF OpRewind, OpIdle, OpAtRest, OpTurns, OpTypeOK, Askable, Calls
  <2> QED BY <1>1, <1>3, <2>1 DEF OpRewind, C!Next, C!Rewind
<1>4. CASE AskChild
  BY <1>1, <1>4 DEF AskChild, OpAtRest, C!Next, C!HasNext
<1>5. CASE FilterRecord \/ ProjectRecord \/ LimitRecord
  BY <1>1, <1>5
     DEF FilterRecord, ProjectRecord, LimitRecord, Given, AtChild, C!Next, C!Take
<1>6. CASE OfChild
  BY <1>6 DEF OfChild, C!Next
<1> QED
  BY <1>2, <1>3, <1>4, <1>5, <1>6
     DEF OpNext, OpCaller, OpStep, op_vars, OpFetchNext, OpTake, Ready, ChildFails, LimitReached

\* The operator asks of its child only what a cursor answers: it opens it
\* once, takes a record that is held before it asks for another, and asks for
\* none after OutOfRange before a Rewind.
THEOREM CalledRight == OpSpec => ChildCalledRight
<1>1. OpInit => OpIInv
  BY InitStands
<1>2. OpIInv /\ [OpNext]_op_vars => OpIInv'
  BY NextKeeps
<1>3. OpInit => C!Init
  BY ChildStarts
<1>4. OpIInv /\ [OpNext]_op_vars => [C!Next]_child
  BY ChildSteps
<1> QED BY <1>1, <1>2, <1>3, <1>4, PTL DEF OpSpec, ChildCalledRight, C!Spec

-----------------------------------------------------------------------------
(* The records the operator stands for                                     *)

LEMMA MadeIs ==
  ASSUME NEW r \in Row, kind \in {"filter", "project", "limit"}
  PROVE  /\ Made(r) \in Seq(Row) /\ Len(Made(r)) \in {0, 1}
         /\ kind = "filter" => (Evaluate(r) = "yes" <=> Made(r) = <<r>>)
         /\ kind = "project" => (Copies(r) = "yes" => Made(r) = <<Image(r)>>)
         /\ kind = "project" => (Copies(r) # "yes" => Made(r) = <<>>)
         /\ kind = "filter" => (Evaluate(r) # "yes" => Made(r) = <<>>)
         /\ kind = "limit" => Made(r) = <<r>>
  BY OneChildAssumption DEF Made

OwnRows == Joined(Pieces)

Position == IF op_call = "fetch" THEN JoinedLen(Pieces, OpDone) ELSE 0

\* How many of the operator's records come of the first n of the child's.
LEMMA Places ==
  ASSUME OpIInv
  PROVE  /\ Pieces \in Seq(Seq(Row)) /\ OwnRows \in Seq(Row)
         /\ Wanted \in Nat /\ Wanted <= Len(child.rows) /\ Len(OwnRows) \in Nat
         /\ kind = "limit" => Wanted <= limit
         /\ kind # "limit" \/ Len(child.rows) <= limit => Wanted = Len(child.rows)
         /\ kind = "limit" /\ limit <= Len(child.rows) => Wanted = limit
         /\ JoinedLen(Pieces, 0) = 0
         /\ JoinedLen(Pieces, Wanted) = Len(OwnRows)
         /\ \A n \in 1 .. Wanted :
              /\ JoinedLen(Pieces, n - 1) \in Nat
              /\ Made(child.rows[n]) \in Seq(Row)
              /\ JoinedLen(Pieces, n) = JoinedLen(Pieces, n - 1) + Len(Made(child.rows[n]))
              /\ \A k \in 1 .. Len(Made(child.rows[n])) :
                   /\ JoinedLen(Pieces, n - 1) + k \in 1 .. Len(OwnRows)
                   /\ OwnRows[JoinedLen(Pieces, n - 1) + k] = Made(child.rows[n])[k]
<1>1. /\ Wanted \in Nat /\ Wanted <= Len(child.rows)
      /\ kind = "limit" => Wanted <= limit
      /\ kind # "limit" \/ Len(child.rows) <= limit => Wanted = Len(child.rows)
      /\ kind = "limit" /\ limit <= Len(child.rows) => Wanted = limit
  BY Counts DEF Wanted
<1>2. \A n \in 1 .. Wanted : child.rows[n] \in Row
  BY <1>1, Counts, ElementOfSeq
<1>3. \A n \in 1 .. Wanted : Made(child.rows[n]) \in Seq(Row)
  BY <1>2, MadeIs DEF OpIInv, OpTypeOK
<1> DEFINE RowLists == Seq(Row)
<1>4. Pieces \in [1 .. Wanted -> RowLists]
  BY <1>3 DEF Pieces
<1>5. \A n \in 1 .. Wanted : Pieces[n] = Made(child.rows[n])
  BY DEF Pieces
<1> HIDE DEF RowLists
<1>6. Pieces \in Seq(RowLists) /\ Len(Pieces) = Wanted
  BY <1>1, <1>4, SeqOfLen
<1>7. Pieces \in Seq(Seq(Row))
  BY <1>6 DEF RowLists
<1>8. /\ OwnRows \in Seq(Row) /\ JoinedLen(Pieces, 0) = 0
      /\ JoinedLen(Pieces, Wanted) = Len(OwnRows)
      /\ \A n \in 1 .. Wanted :
           /\ JoinedLen(Pieces, n - 1) \in Nat
           /\ JoinedLen(Pieces, n) = JoinedLen(Pieces, n - 1) + Len(Pieces[n])
           /\ \A k \in 1 .. Len(Pieces[n]) :
                /\ JoinedLen(Pieces, n - 1) + k \in 1 .. Len(OwnRows)
                /\ OwnRows[JoinedLen(Pieces, n - 1) + k] = Pieces[n][k]
  BY <1>6, <1>7, JoinedLens, JoinedAt DEF OwnRows
<1>9. Len(OwnRows) \in Nat
  BY <1>8, LenProperties
<1> QED BY <1>1, <1>3, <1>5, <1>7, <1>8, <1>9

\* No more is taken than wanted.
LEMMA DoneIs ==
  ASSUME OpIInv
  PROVE  /\ OpDone \in Nat
         /\ op_call = "fetch" => OpDone <= Wanted /\ JoinedLen(Pieces, OpDone) \in Nat
<1>1. OpDone \in Nat /\ OpDone <= Len(child.rows)
  BY Counts
<1>2. op_call = "fetch" => OpDone <= Wanted
  <2>1. SUFFICES ASSUME op_call = "fetch" PROVE OpDone <= Wanted
    OBVIOUS
  <2>2. CASE kind = "limit"
    <3>1. OpDone <= fetched /\ fetched <= limit
      BY <2>1, <2>2 DEF OpIInv, OpInStep
    <3> QED BY <1>1, <2>2, <3>1, Counts, Places
  <2>3. CASE kind # "limit"
    BY <1>1, <2>3, Places
  <2> QED BY <2>2, <2>3
<1>3. op_call = "fetch" => JoinedLen(Pieces, OpDone) \in Nat
  <2>1. SUFFICES ASSUME op_call = "fetch" PROVE JoinedLen(Pieces, OpDone) \in Nat
    OBVIOUS
  <2>2. CASE OpDone = 0
    BY <2>2, Places
  <2>3. CASE OpDone # 0
    <3>1. OpDone \in 1 .. Wanted
      BY <1>1, <1>2, <2>1, <2>3, Places
    <3>2. Len(Made(child.rows[OpDone])) \in Nat
      BY <3>1, Places, LenProperties
    <3> QED BY <3>1, <3>2, Places
  <2> QED BY <2>2, <2>3
<1> QED BY <1>1, <1>2, <1>3

\* The records it stands for stay as they are.
LEMMA RowsKept ==
  ASSUME OpIInv, OpNext
  PROVE  Pieces' = Pieces /\ OwnRows' = OwnRows
<1>1. child'.rows = child.rows
  BY Called, ChildAnswers
     DEF OpNext, OpCaller, OpStep, OpOpen, OpRewind, OpFetchNext, OpTake, Ready, AskChild, ChildFails,
         FilterRecord, ProjectRecord, LimitRecord, LimitReached, OfChild, Given,
         OpIInv, OpTypeOK, Followed
<1>2. kind' = kind /\ limit' = limit
  BY DEF OpNext, OpCaller, OpStep, OpOpen, OpRewind, OpFetchNext, OpTake, Ready, AskChild, ChildFails,
         FilterRecord, ProjectRecord, LimitRecord, LimitReached, OfChild,
         Hold, OpReturn, Skip, Crash
<1>3. Wanted' = Wanted
  BY <1>1, <1>2 DEF Wanted
<1>4. Pieces' = Pieces
  BY <1>1, <1>2, <1>3 DEF Pieces, Made
<1> QED BY <1>4 DEF OwnRows

-----------------------------------------------------------------------------
(* The operator as a cursor                                                *)

LEMMA SelfIs ==
  /\ OpSelf.rows = OwnRows /\ OpSelf.pos = Position /\ OpSelf.next = op_next_record
  /\ OpSelf.call = op_call /\ OpSelf.status = op_status
  BY DEF OpSelf, OwnRows, Position

LEMMA SelfIsNext ==
  /\ OpSelf'.rows = OwnRows' /\ OpSelf'.pos = Position' /\ OpSelf'.next = op_next_record'
  /\ OpSelf'.call = op_call' /\ OpSelf'.status = op_status'
  BY DEF OpSelf, OwnRows, Position

SelfOK == OpSelf \in Cursors

LEMMA SelfTyped == OpIInv => SelfOK
<1> SUFFICES ASSUME OpIInv PROVE OpSelf \in Cursors
  BY DEF SelfOK
<1>1. Position \in Nat /\ OwnRows \in Seq(Row)
  BY DoneIs, Places DEF Position
<1>2. OpSelf = [rows |-> OwnRows, pos |-> Position, next |-> op_next_record,
              call |-> op_call, status |-> op_status]
  BY DEF OpSelf, OwnRows, Position
<1>3. op_next_record \in Row \cup {Null} /\ op_call \in Calls /\ op_status \in Statuses
  BY DEF OpIInv, OpTypeOK
<1> QED BY <1>1, <1>2, <1>3 DEF Cursors

LEMMA SelfTypedNext == OpIInv' => OpSelf' \in Cursors
<1>1. OpIInv' => SelfOK'
  BY SelfTyped, PTL
<1> QED BY <1>1 DEF SelfOK, Cursors

\* A cursor is known by what it is made of.
SameParts(x, y) == Same(x, y) /\ y.status = x.status

LEMMA SameCursor ==
  ASSUME NEW x \in Cursors, NEW y \in Cursors, SameParts(x, y)
  PROVE  x = y
  BY DEF Cursors, SameParts, Same

\* What an answer may be.
LEMMA IsAnswer ==
  ASSUME NEW x \in Cursors, NEW y \in Cursors,
         y.rows = x.rows, y.call = x.call,
         \/ /\ y.pos = x.pos /\ y.next = x.next
            /\ \/ y.status = "error"
               \/ y.status = "ok" /\ x.call # "fetch"
               \/ y.status = "oor" /\ x.call = "open"
               \/ y.status = "oor" /\ x.call = "fetch" /\ ~(x.pos < Len(x.rows))
         \/ /\ x.call = "fetch" /\ x.pos < Len(x.rows) /\ y.status = "ok"
            /\ y.pos = x.pos + 1 /\ y.next = x.rows[x.pos + 1]
  PROVE  y \in Answers(x)
<1>1. ASSUME NEW st \in Statuses, y.status = st, y.pos = x.pos, y.next = x.next
      PROVE  y = [x EXCEPT !.status = st]
  <2>1. /\ [x EXCEPT !.status = st] \in Cursors
        /\ SameParts([x EXCEPT !.status = st], y)
    BY <1>1, Stated DEF Same, SameParts
  <2> QED BY <2>1, SameCursor
<1>2. CASE y.status = "ok" /\ x.call = "fetch" /\ x.pos < Len(x.rows)
           /\ y.pos = x.pos + 1 /\ y.next = x.rows[x.pos + 1]
  <2> DEFINE r == x.rows[x.pos + 1]
             p == x.pos + 1
             z == [x EXCEPT !.pos = p, !.next = r, !.status = "ok"]
  <2>1. p \in Nat /\ r \in Row \cup {Null} /\ y.pos = p /\ y.next = r
    BY <1>2 DEF Cursors
  <2>2. z = Answered(x)
    BY <1>2 DEF Answered
  <2> HIDE DEF r, p
  <2>3. z \in Cursors /\ SameParts(z, y)
    BY <1>2, <2>1 DEF Cursors, Statuses, SameParts, Same
  <2> HIDE DEF z
  <2>4. z = y
    BY <2>3, SameCursor
  <2> QED BY <2>2, <2>4 DEF Answers
<1>3. CASE y.status = "error" /\ y.pos = x.pos /\ y.next = x.next
  <2>1. y = [x EXCEPT !.status = "error"]
    BY <1>1, <1>3 DEF Statuses
  <2> QED BY <2>1 DEF Answers, Failed
<1>4. CASE y.status = "ok" /\ x.call # "fetch" /\ y.pos = x.pos /\ y.next = x.next
  <2>1. y = [x EXCEPT !.status = "ok"]
    BY <1>1, <1>4 DEF Statuses
  <2> QED BY <1>4, <2>1 DEF Answers, Answered
<1>5. CASE y.status = "oor" /\ x.call = "open" /\ y.pos = x.pos /\ y.next = x.next
  <2>1. y = [x EXCEPT !.status = "oor"]
    BY <1>1, <1>5 DEF Statuses
  <2> QED BY <1>5, <2>1 DEF Answers, Failed
<1>6. CASE /\ y.status = "oor" /\ x.call = "fetch" /\ ~(x.pos < Len(x.rows))
           /\ y.pos = x.pos /\ y.next = x.next
  <2>1. y = [x EXCEPT !.status = "oor"]
    BY <1>1, <1>6 DEF Statuses
  <2> QED BY <1>6, <2>1 DEF Answers, Answered
<1> QED BY <1>2, <1>3, <1>4, <1>5, <1>6

\* The operator's calls and answers are those of Cursor.
LEMMA SelfCalls ==
  /\ O!Opening(OpSelf) = Opening(OpSelf) /\ O!Rewinding(OpSelf) = Rewinding(OpSelf)
  /\ O!Asked(OpSelf) = Asked(OpSelf) /\ O!Taken(OpSelf) = Taken(OpSelf)
  /\ O!Usable(OpSelf) = Usable(OpSelf) /\ O!Askable(OpSelf) = Askable(OpSelf)
  /\ O!Answers(OpSelf) = Answers(OpSelf)
  BY DEF O!Opening, O!Rewinding, O!Asked, O!Taken, O!Usable, O!Askable,
         O!Answers, O!Answered, O!Failed,
         Opening, Rewinding, Asked, Taken, Usable, Askable,
         Answers, Answered, Failed

LEMMA InitRefines ==
  ASSUME OpInit, OpIInv
  PROVE  O!Init
<1>1. OwnRows \in Seq(Row)
  BY Places
<1>2. Position = 0
  BY DEF Position, OpInit
<1>3. OpSelf.rows = OwnRows /\ OpSelf = O!Closed(OpSelf.rows)
  BY <1>2 DEF OpInit, OpSelf, OwnRows, Position, O!Closed
<1> QED BY <1>1, <1>3 DEF O!Init

\* A step within a call.
LEMMA Stutters ==
  ASSUME OwnRows' = OwnRows, Position' = Position,
         UNCHANGED <<op_next_record, op_call, op_status>>
  PROVE  OpSelf' = OpSelf
  BY DEF OpSelf, OwnRows, Position

\* The caller's steps are those of a cursor's caller.
LEMMA CallerRefines ==
  ASSUME OpIInv, OpIInv', OpCaller
  PROVE  O!Next
<1>1. OpSelf \in Cursors /\ OpSelf' \in Cursors /\ OwnRows' = OwnRows /\ Pieces' = Pieces
  BY SelfTyped, SelfTypedNext, RowsKept DEF OpNext, SelfOK
<1>2. CASE OpOpen
  <2>1. OpSelf.call = "none" /\ SameParts(Opening(OpSelf), OpSelf')
    BY <1>1, <1>2, SelfIs, SelfIsNext, Called DEF OpOpen, SameParts, Same, Position
  <2>2. OpSelf' = Opening(OpSelf)
    BY <1>1, <2>1, SameCursor, Called
  <2> QED BY <2>1, <2>2, SelfCalls DEF O!Next, O!Open
<1>3. CASE OpRewind
  <2>1. Usable(OpSelf) /\ SameParts(Rewinding(OpSelf), OpSelf')
    BY <1>1, <1>3, SelfIs, SelfIsNext, Called
       DEF OpRewind, OpIdle, SameParts, Same, Usable, Position
  <2>2. OpSelf' = Rewinding(OpSelf)
    BY <1>1, <2>1, SameCursor, Called
  <2> QED BY <2>1, <2>2, SelfCalls DEF O!Next, O!Rewind
<1>4. CASE OpFetchNext
  <2>1. Position' = Position
    <3>1. op_call' = "fetch" /\ child' = child /\ OpDone' = OpDone
      BY <1>4 DEF OpFetchNext, OpDone
    <3>2. op_call # "fetch" => OpDone = 0
      BY <1>4 DEF OpFetchNext, OpIdle, OpIInv, OpTypeOK, OpInStep, OpAtRest, OpTurns, OpDone,
                  Askable, Usable, Calls
    <3> QED BY <1>1, <3>1, <3>2, Places DEF Position
  <2>2. Askable(OpSelf) /\ SameParts(Asked(OpSelf), OpSelf')
    BY <1>1, <1>4, <2>1, SelfIs, SelfIsNext, Called
       DEF OpFetchNext, OpIdle, SameParts, Same, Usable, Askable
  <2>3. OpSelf' = Asked(OpSelf)
    BY <1>1, <2>2, SameCursor, Called
  <2> QED BY <2>2, <2>3, SelfCalls DEF O!Next, O!HasNext
<1>5. CASE OpTake
  <2>1. Position' = Position
    BY <1>1, <1>5 DEF OpTake, Position, OpDone
  <2>2. OpSelf.next # Null /\ SameParts(Taken(OpSelf), OpSelf')
    BY <1>1, <1>5, <2>1, SelfIs, SelfIsNext, Called DEF OpTake, SameParts, Same
  <2>3. OpSelf' = Taken(OpSelf)
    BY <1>1, <2>2, SameCursor, Called
  <2> QED BY <2>2, <2>3, SelfCalls DEF O!Next, O!Take
<1> QED BY <1>2, <1>3, <1>4, <1>5 DEF OpCaller

\* A record that is given brings the operator to the next place of its own,
\* or leaves it where it is.
LEMMA RecordMoves ==
  ASSUME OpIInv, OpIInv', OpNext, Given, UNCHANGED op_call
  PROVE  LET made == Made(child.next)
         IN  /\ made = <<>> => Position' = Position
             /\ \A r \in Row : made = <<r>> =>
                  /\ Position < Len(OwnRows) /\ Position' = Position + 1
                  /\ r = OwnRows[Position + 1]
<1> DEFINE n == child.pos
           w == JoinedLen(Pieces, n - 1)
           made == Made(child.next)
<1>1. /\ child.next = child.rows[n] /\ OpDone = n - 1 /\ OpDone' = n
      /\ n \in 1 .. Len(child.rows) /\ op_call = "fetch"
      /\ kind = "limit" => fetched = n
  BY RecordGiven
<1>2. n \in 1 .. Wanted
  <2>1. CASE kind = "limit"
    <3>1. n <= limit
      BY <1>1, <2>1 DEF OpIInv, OpInStep
    <3> QED BY <1>1, <2>1, <3>1, Counts, Places
  <2>2. CASE kind # "limit"
    BY <1>1, <2>2, Places
  <2> QED BY <2>1, <2>2
<1>3. Position = w /\ Position' = JoinedLen(Pieces, n)
  BY <1>1, RowsKept DEF Position
<1>4. /\ w \in Nat /\ JoinedLen(Pieces, n) = w + Len(made)
      /\ \A k \in 1 .. Len(made) :
           w + k \in 1 .. Len(OwnRows) /\ OwnRows[w + k] = made[k]
  BY <1>1, <1>2, Places
<1>5. Len(OwnRows) \in Nat
  BY Places
<1> HIDE DEF n, w, made
<1>6. ASSUME made = <<>> PROVE Position' = Position
  <2>1. Len(made) = 0
    BY <1>6
  <2> QED BY <1>3, <1>4, <2>1
<1>7. ASSUME NEW r \in Row, made = <<r>>
      PROVE  /\ Position < Len(OwnRows) /\ Position' = Position + 1
             /\ r = OwnRows[Position + 1]
  <2>1. Len(made) = 1 /\ made[1] = r
    BY <1>7
  <2>2. w + 1 \in 1 .. Len(OwnRows) /\ OwnRows[w + 1] = r
    BY <1>4, <2>1
  <2> QED BY <1>3, <1>4, <1>5, <2>1, <2>2
<1> QED BY <1>6, <1>7 DEF made

\* The operator's steps are its answers, or happen within a call.
LEMMA StepRefines ==
  ASSUME OpIInv, OpIInv', OpStep
  PROVE  O!Next \/ OpSelf' = OpSelf
<1>1. /\ OpSelf \in Cursors /\ OpSelf' \in Cursors /\ OpNext
      /\ OwnRows' = OwnRows /\ Pieces' = Pieces
  BY SelfTyped, SelfTypedNext, RowsKept DEF OpNext, SelfOK
<1>2. O!Answer <=> OpSelf.status = "busy" /\ OpSelf' \in Answers(OpSelf)
  BY SelfCalls DEF O!Answer
<1>3. CASE Ready
  <2>1. /\ op_next_record' = op_next_record /\ op_status = "busy" /\ op_call # "fetch"
        /\ op_call' = op_call /\ op_status' = "ok"
    BY <1>3 DEF Ready, OpReturn, OpIInv, OpInStep, OpTurns
  <2>2. OpSelf.status = "busy" /\ OpSelf' \in Answers(OpSelf)
    BY <1>1, <2>1, SelfIs, SelfIsNext, IsAnswer DEF Position
  <2> QED BY <1>2, <2>2 DEF O!Next
<1>4. CASE AskChild
  <2>1. OpDone' = OpDone
    BY <1>4, Called DEF AskChild, OpDone, OpIInv, OpTypeOK
  <2>2. Position' = Position
    BY <1>1, <1>4, <2>1 DEF AskChild, Position
  <2> QED BY <1>1, <1>4, <2>2, Stutters DEF AskChild
<1>5. CASE ChildFails
  <2>1. /\ op_call' = op_call /\ op_next_record' = op_next_record /\ OpDone' = OpDone
        /\ op_status = "busy" /\ op_status' = child.status /\ child.call = op_call
        /\ child.status \in {"oor", "error"}
    BY <1>5 DEF ChildFails, OpReturn, OpDone, OpIInv, OpInStep, OpTurns, AtChild
  <2>2. Position' = Position
    BY <1>1, <2>1 DEF Position
  <2>3. \/ op_status' = "error"
        \/ op_status' = "oor" /\ op_call = "open"
        \/ op_status' = "oor" /\ op_call = "fetch" /\ ~(Position < Len(OwnRows))
    <3>1. CASE child.status = "oor" /\ op_call = "fetch"
      <4>1. OpDone = Len(child.rows)
        BY <2>1, <3>1 DEF OpIInv, OpInStep, Standing, OpDone
      <4>2. OpDone = Wanted
        BY <3>1, <4>1, DoneIs, Places, Counts
      <4>3. Position = Len(OwnRows)
        BY <3>1, <4>2, Places DEF Position
      <4> QED BY <2>1, <3>1, <4>3, Places
    <3>2. child.status = "oor" /\ op_call # "fetch" => op_call = "open"
      BY <1>5, <2>1 DEF ChildFails, OpIInv, OpTypeOK, OpInStep, OpTurns, Standing, Calls
    <3> QED BY <2>1, <3>1, <3>2
  <2>4. OpSelf.status = "busy" /\ OpSelf' \in Answers(OpSelf)
    BY <1>1, <2>1, <2>2, <2>3, SelfIs, SelfIsNext, IsAnswer
  <2> QED BY <1>2, <2>4 DEF O!Next
<1>6. ASSUME Given, UNCHANGED op_call, Made(child.next) = <<>>,
             UNCHANGED <<op_next_record, op_status>> \/ (UNCHANGED op_next_record /\ op_status' = "error")
      PROVE  O!Next \/ OpSelf' = OpSelf
  <2>1. Position' = Position /\ op_status = "busy"
    BY <1>1, <1>6, RecordMoves, RecordGiven
  <2>2. CASE UNCHANGED <<op_next_record, op_status>>
    BY <1>1, <1>6, <2>1, <2>2, Stutters
  <2>3. CASE UNCHANGED op_next_record /\ op_status' = "error"
    <3>1. OpSelf.status = "busy" /\ OpSelf' \in Answers(OpSelf)
      BY <1>1, <1>6, <2>1, <2>3, SelfIs, SelfIsNext, IsAnswer
    <3> QED BY <1>2, <3>1 DEF O!Next
  <2> QED BY <1>6, <2>2, <2>3
<1>7. ASSUME Given, UNCHANGED op_call, NEW r \in Row, Made(child.next) = <<r>>,
             op_next_record' = r, op_status' = "ok"
      PROVE  O!Next \/ OpSelf' = OpSelf
  <2>1. /\ Position < Len(OwnRows) /\ Position' = Position + 1 /\ r = OwnRows[Position + 1]
        /\ op_call = "fetch" /\ op_status = "busy"
    BY <1>1, <1>7, RecordMoves, RecordGiven
  <2>2. OpSelf.status = "busy" /\ OpSelf' \in Answers(OpSelf)
    BY <1>1, <1>7, <2>1, SelfIs, SelfIsNext, IsAnswer
  <2> QED BY <1>2, <2>2 DEF O!Next
<1>8. CASE FilterRecord
  <2>1. Given /\ kind = "filter" /\ child.next \in Row /\ UNCHANGED op_call
    BY <1>8, RecordGiven DEF FilterRecord, Hold, OpReturn, Skip, Crash
  <2>2. CASE Evaluate(child.next) = "yes"
    <3>1. op_next_record' = child.next /\ op_status' = "ok"
      BY <1>8, <2>2 DEF FilterRecord, Hold, OpReturn
    <3>2. Made(child.next) = <<child.next>>
      BY <2>1, <2>2, MadeIs
    <3> QED BY <1>7, <2>1, <3>1, <3>2
  <2>3. CASE Evaluate(child.next) # "yes"
    <3>1. UNCHANGED <<op_next_record, op_status>>
      BY <1>8, <2>3 DEF FilterRecord, Skip, Crash
    <3>2. Made(child.next) = <<>>
      BY <2>1, <2>3, MadeIs
    <3> QED BY <1>6, <2>1, <3>1, <3>2
  <2> QED BY <2>2, <2>3
<1>9. CASE ProjectRecord
  <2>1. Given /\ kind = "project" /\ child.next \in Row /\ UNCHANGED op_call
    BY <1>9, RecordGiven DEF ProjectRecord, Hold, OpReturn, Crash
  <2>2. CASE Copies(child.next) = "yes"
    <3>1. op_next_record' = Image(child.next) /\ op_status' = "ok"
      BY <1>9, <2>2 DEF ProjectRecord, Hold, OpReturn
    <3>2. Made(child.next) = <<Image(child.next)>> /\ Image(child.next) \in Row
      BY <2>1, <2>2, MadeIs, OneChildAssumption
    <3> QED BY <1>7, <2>1, <3>1, <3>2
  <2>3. CASE Copies(child.next) # "yes"
    <3>1. UNCHANGED <<op_next_record, op_status>> \/ (UNCHANGED op_next_record /\ op_status' = "error")
      BY <1>9, <2>3 DEF ProjectRecord, OpReturn, Crash
    <3>2. Made(child.next) = <<>>
      BY <2>1, <2>3, MadeIs
    <3> QED BY <1>6, <2>1, <3>1, <3>2
  <2> QED BY <2>2, <2>3
<1>10. CASE LimitRecord
  <2>1. /\ Given /\ kind = "limit" /\ child.next \in Row /\ UNCHANGED op_call
        /\ op_next_record' = child.next /\ op_status' = "ok"
    BY <1>10, RecordGiven DEF LimitRecord, Hold, OpReturn
  <2>2. Made(child.next) = <<child.next>>
    BY <2>1, MadeIs
  <2> QED BY <1>7, <2>1, <2>2
<1>11. CASE LimitReached
  <2>1. /\ op_call = "fetch" /\ op_call' = op_call /\ op_next_record' = op_next_record /\ OpDone' = OpDone
        /\ op_status = "busy" /\ op_status' = "oor" /\ OpDone = limit /\ kind = "limit"
    BY <1>11 DEF LimitReached, OpReturn, OpDone, OpIInv, OpInStep, OpTurns, OpAtRest, Askable, Usable
  <2>2. Position' = Position
    BY <1>1, <2>1 DEF Position
  <2>3. OpDone = Wanted
    BY <2>1, DoneIs, Places, Counts
  <2>4. ~(Position < Len(OwnRows))
    BY <2>1, <2>3, Places DEF Position
  <2>5. OpSelf.status = "busy" /\ OpSelf' \in Answers(OpSelf)
    BY <1>1, <2>1, <2>2, <2>4, SelfIs, SelfIsNext, IsAnswer
  <2> QED BY <1>2, <2>5 DEF O!Next
<1>12. CASE OfChild
  <2>1. Followed(child, child') /\ UNCHANGED <<op_next_record, op_call, op_status>>
    BY <1>12, ChildAnswers DEF OfChild
  <2>2. child.pos \in Nat /\ child'.pos \in Nat
    BY DEF OpIInv, OpTypeOK, Cursors
  <2>3. OpDone' = OpDone
    BY <2>1, <2>2 DEF Followed, OpDone
  <2>4. Position' = Position
    BY <1>1, <2>1, <2>3 DEF Position
  <2> QED BY <1>1, <2>1, <2>4, Stutters
<1> QED BY <1>3, <1>4, <1>5, <1>8, <1>9, <1>10, <1>11, <1>12 DEF OpStep

\* A filter is a cursor over the records its predicate holds of, a project
\* over the copies of the records, a limit over the first of them: each once
\* and in the child's order, OutOfRange after the last of them and not
\* before, and all of them again after a Rewind.
THEOREM OperatorRefines == OpSpec => OneChildIsCursor
<1>1. OpInit => OpIInv
  BY InitStands
<1>2. OpIInv /\ [OpNext]_op_vars => OpIInv'
  BY NextKeeps
<1>3. OpInit => O!Init
  BY InitStands, InitRefines
<1>4. OpIInv /\ OpIInv' /\ [OpNext]_op_vars => [O!Next]_OpSelf
  <2>1. CASE UNCHANGED op_vars
    BY <2>1 DEF op_vars, OpSelf, Pieces, Made, Wanted, OpDone
  <2> QED BY <2>1, CallerRefines, StepRefines DEF OpNext
<1> QED BY <1>1, <1>2, <1>3, <1>4, CalledRight, PTL
   DEF OpSpec, OneChildIsCursor, O!Spec

-----------------------------------------------------------------------------
(* The invariant of a scan                                                 *)

LEMMA ScanInitStands ==
  ASSUME ScanInit
  PROVE  ScanIInv
<1>1. Len(pages) \in Nat
  BY TablesAssumption, LenProperties DEF ScanInit
<1> QED BY <1>1 DEF ScanIInv, ScanTypeOK, ScanInStep, ScanTurns, AtPage, ScanInit, Calls, Statuses

\* The table, and the rest of the page.
LEMMA PagesAre ==
  ASSUME ScanIInv
  PROVE  /\ pages \in Seq(Seq(Row)) /\ Len(pages) \in Nat
         /\ \A n \in 1 .. Len(pages) : pages[n] \in Seq(Row) /\ Len(pages[n]) \in Nat
         /\ page_ctr \in Int /\ page_ctr >= -1 /\ page_ctr <= Len(pages)
         /\ Len(records) \in Nat
<1>1. pages \in Seq(Seq(Row)) /\ records \in Seq(Row)
  BY TablesAssumption DEF ScanIInv, ScanTypeOK
<1>2. Len(pages) \in Nat /\ Len(records) \in Nat
  BY <1>1, LenProperties
<1>3. \A n \in 1 .. Len(pages) : pages[n] \in Seq(Row)
  BY <1>1, ElementOfSeq
<1>4. \A n \in 1 .. Len(pages) : Len(pages[n]) \in Nat
  BY <1>3, LenProperties
<1> QED BY <1>1, <1>2, <1>3, <1>4 DEF ScanIInv, ScanTypeOK

LEMMA ScanCallerKeeps ==
  ASSUME ScanIInv, ScanCaller
  PROVE  ScanIInv'
<1> USE DEF ScanIInv, ScanTypeOK, ScanInStep
<1>1. CASE ScanOpen
  BY <1>1, PagesAre DEF ScanOpen, FromTheStart, ScanTurns, AtPage, Calls, Statuses
<1>2. CASE ScanRewind
  <2>1. Len(pages) > 0
    BY <1>2, PagesAre DEF ScanRewind, ScanIdle, ScanTurns, AtPage, Calls
  <2> QED BY <1>2, <2>1, PagesAre DEF ScanRewind, ScanIdle, FromTheStart, ScanTurns, AtPage, Calls, Statuses
<1>3. CASE ScanFetchNext
  <2>1. Loaded \in 1 .. Len(pages) /\ LeftOf(pages[Loaded]) /\ Loaded = page_ctr + 1
    <3>1. CASE scan_call = "fetch"
      BY <1>3, <3>1 DEF ScanFetchNext, ScanIdle, AtPage, Loaded
    <3>2. CASE scan_call # "fetch"
      <4>1. page_ctr = 0 /\ Len(pages) > 0 /\ records = pages[1] /\ Loaded = 1
        BY <1>3, <3>2 DEF ScanFetchNext, ScanIdle, AtPage, Calls, Loaded
      <4>2. LeftOf(pages[1])
        BY <4>1, PagesAre DEF LeftOf
      <4> QED BY <4>1, <4>2, PagesAre
    <3> QED BY <3>1, <3>2
  <2>2. Loaded' = Loaded
    BY <1>3 DEF ScanFetchNext, ScanIdle, Loaded
  <2>3. LeftOf(pages[Loaded])' 
    BY <1>3, <2>1, <2>2 DEF ScanFetchNext, LeftOf
  <2> QED BY <1>3, <2>1, <2>2, <2>3 DEF ScanFetchNext, ScanIdle, ScanTurns, AtPage, Calls, Statuses
<1>4. CASE ScanTake
  <2>1. Loaded' = Loaded /\ (LeftOf(pages[Loaded]) => LeftOf(pages[Loaded])')
    BY <1>4 DEF ScanTake, Loaded, LeftOf
  <2> QED BY <1>4, <2>1, TablesAssumption DEF ScanTake, ScanTurns, AtPage
<1> QED BY <1>1, <1>2, <1>3, <1>4 DEF ScanCaller

LEMMA ScanStepKeeps ==
  ASSUME ScanIInv, ScanStep
  PROVE  ScanIInv'
<1> USE DEF ScanIInv, ScanTypeOK, ScanInStep
<1>1. CASE LoadPage
  <2>1. PICK n \in 1 .. Len(pages) :
           /\ n = page_ctr + 2 /\ page_ctr' = n - 1 /\ pages' = pages
           /\ records' = pages[n] /\ pages[n] \in Seq(Row) /\ Len(pages[n]) \in Nat
    <3>1. page_ctr + 2 \in 1 .. Len(pages)
      BY <1>1, PagesAre DEF LoadPage
    <3> QED BY <1>1, <3>1, PagesAre DEF LoadPage
  <2>2. Loaded' = n
    BY <1>1, <2>1, PagesAre DEF LoadPage, Loaded, ScanTurns
  <2>3. LeftOf(pages[Loaded])'
    BY <2>1, <2>2 DEF LeftOf
  <2>4. scan_call \in {"open", "rewind"} => n = 1
    BY <1>1, <2>1 DEF LoadPage, AtPage
  <2>5. page_ctr' \in -1 .. Len(pages)
    BY <2>1, PagesAre
  <2>6. ScanTurns'
    BY <1>1 DEF LoadPage, ScanTurns
  <2>7. AtPage'
    <3>1. CASE scan_call = "fetch"
      BY <1>1, <2>1, <2>2, <2>3, <3>1 DEF LoadPage, AtPage, ScanTurns
    <3>2. CASE scan_call # "fetch"
      BY <1>1, <2>1, <2>4, <3>2, PagesAre DEF LoadPage, AtPage, ScanTurns
    <3> QED BY <3>1, <3>2
  <2> QED BY <1>1, <2>1, <2>5, <2>6, <2>7 DEF LoadPage, Statuses
<1>2. CASE LoadFails
  <2>1. /\ scan_status = "busy" /\ pages' = pages /\ records' = records /\ scan_call' = scan_call
        /\ page_ctr' = page_ctr + 1 /\ scan_status' \in {"oor", "error"} /\ scan_call # "none"
        /\ scan_next_record = Null
    BY <1>2 DEF LoadFails, ScanTurns
  <2>2. Loaded = page_ctr + 1 /\ Loaded' = Loaded
    BY <2>1 DEF Loaded
  <2>3. page_ctr + 1 <= Len(pages)
    BY <1>2, <2>2, PagesAre DEF LoadFails, AtPage, ScanTurns, Calls
  <2>4. scan_status' = "oor" => page_ctr + 1 = Len(pages)
    BY <1>2, <2>3, PagesAre DEF LoadFails
  <2>5. LeftOf(pages[Loaded]) => LeftOf(pages[Loaded])'
    BY <2>1, <2>2 DEF LeftOf
  <2>6. scan_call = "rewind" => scan_status' # "oor"
    BY <1>2, <2>4, PagesAre DEF LoadFails, AtPage
  <2>7. page_ctr' \in -1 .. Len(pages)
    BY <2>1, <2>3, PagesAre
  <2> QED BY <1>2, <2>1, <2>2, <2>4, <2>5, <2>6, <2>7
          DEF LoadFails, ScanTurns, AtPage, Calls, Statuses
<1>3. CASE PageOver
  <2>1. Loaded' = Loaded /\ (LeftOf(pages[Loaded]) => LeftOf(pages[Loaded])')
    BY <1>3 DEF PageOver, Loaded, LeftOf
  <2> QED BY <1>3, <2>1 DEF PageOver, ScanTurns, AtPage
<1>4. CASE Give
  <2> DEFINE page == pages[Loaded]
  <2>1. /\ scan_call = "fetch" /\ scan_status = "busy" /\ Loaded \in 1 .. Len(pages) /\ LeftOf(page)
        /\ Loaded' = Loaded /\ pages' = pages /\ records' = Tail(records)
        /\ records # <<>> /\ records \in Seq(Row)
    BY <1>4 DEF Give, ScanTurns, AtPage, Loaded
  <2>2. /\ Head(records) \in Row /\ Tail(records) \in Seq(Row)
        /\ Len(Tail(records)) = Len(records) - 1
        /\ \A k \in 1 .. Len(Tail(records)) : Tail(records)[k] = records[k + 1]
    BY <2>1, HeadTailProperties
  <2>3. page \in Seq(Row) /\ Len(page) \in Nat /\ Len(records) \in Nat
    BY <2>1, PagesAre
  <2> HIDE DEF page
  <2>4. Len(Tail(records)) <= Len(page)
    BY <2>1, <2>2, <2>3 DEF LeftOf
  <2>5. ASSUME NEW k \in 1 .. Len(Tail(records))
        PROVE  Tail(records)[k] = page[Len(page) - Len(Tail(records)) + k]
    <3>1. k + 1 \in 1 .. Len(records) /\ Tail(records)[k] = records[k + 1]
      BY <2>2, <2>3
    <3>2. records[k + 1] = page[Len(page) - Len(records) + (k + 1)]
      BY <2>1, <3>1 DEF LeftOf
    <3>3. Len(page) - Len(records) + (k + 1) = Len(page) - Len(Tail(records)) + k
      BY <2>2, <2>3
    <3> QED BY <3>1, <3>2, <3>3
  <2>6. LeftOf(pages[Loaded])'
    BY <2>1, <2>4, <2>5 DEF LeftOf, page
  <2> QED BY <1>4, <2>1, <2>2, <2>6 DEF Give, ScanTurns, AtPage, Statuses
<1> QED BY <1>1, <1>2, <1>3, <1>4 DEF ScanStep

LEMMA ScanNextKeeps ==
  ASSUME ScanIInv, [ScanNext]_scan_vars
  PROVE  ScanIInv'
<1>1. CASE UNCHANGED scan_vars
  BY <1>1 DEF ScanIInv, ScanTypeOK, ScanInStep, scan_vars, ScanTurns, AtPage, Loaded, LeftOf
<1> QED BY <1>1, ScanCallerKeeps, ScanStepKeeps DEF ScanNext

\* The iterator holds the rest of the page it loaded last: nothing before it
\* and nothing after it is missed, and it never runs past the page after the
\* last one.
THEOREM ScanInvariance == ScanSpec => []ScanIInv
<1>1. ScanInit => ScanIInv
  BY ScanInitStands
<1>2. ScanIInv /\ [ScanNext]_scan_vars => ScanIInv'
  BY ScanNextKeeps
<1> QED BY <1>1, <1>2, PTL DEF ScanSpec

-----------------------------------------------------------------------------
(* The scan as a cursor                                                    *)

ScanOwnRows == Joined(pages)

ScanPosition == IF scan_call = "fetch" THEN JoinedLen(pages, Loaded) - Len(records) ELSE 0

\* How many records the pages before one hold.
LEMMA ScanPlaces ==
  ASSUME ScanIInv
  PROVE  /\ ScanOwnRows \in Seq(Row) /\ Len(ScanOwnRows) \in Nat
         /\ JoinedLen(pages, 0) = 0 /\ JoinedLen(pages, Len(pages)) = Len(ScanOwnRows)
         /\ \A n \in 1 .. Len(pages) :
              /\ JoinedLen(pages, n - 1) \in Nat
              /\ JoinedLen(pages, n) = JoinedLen(pages, n - 1) + Len(pages[n])
              /\ \A k \in 1 .. Len(pages[n]) :
                   /\ JoinedLen(pages, n - 1) + k \in 1 .. Len(ScanOwnRows)
                   /\ ScanOwnRows[JoinedLen(pages, n - 1) + k] = pages[n][k]
<1>1. pages \in Seq(Seq(Row))
  BY PagesAre
<1>2. ScanOwnRows \in Seq(Row)
  BY <1>1, JoinedAt DEF ScanOwnRows
<1> QED BY <1>1, <1>2, LenProperties, JoinedLens, JoinedAt DEF ScanOwnRows

LEMMA ScanPositionIs ==
  ASSUME ScanIInv
  PROVE  /\ ScanPosition \in Nat
         /\ scan_call = "fetch" =>
              /\ Loaded \in 1 .. Len(pages)
              /\ ScanPosition = JoinedLen(pages, Loaded) - Len(records)
         /\ scan_call # "fetch" => ScanPosition = 0
<1>1. CASE scan_call = "fetch"
  <2>1. Loaded \in 1 .. Len(pages) /\ Len(records) <= Len(pages[Loaded])
    BY <1>1 DEF ScanIInv, ScanInStep, AtPage, LeftOf
  <2> QED BY <1>1, <2>1, PagesAre, ScanPlaces DEF ScanPosition
<1>2. CASE scan_call # "fetch"
  BY <1>2 DEF ScanPosition
<1> QED BY <1>1, <1>2

LEMMA ScanSelfIs ==
  /\ ScanSelf.rows = ScanOwnRows /\ ScanSelf.pos = ScanPosition /\ ScanSelf.next = scan_next_record
  /\ ScanSelf.call = scan_call /\ ScanSelf.status = scan_status
  BY DEF ScanSelf, ScanOwnRows, ScanPosition

LEMMA ScanSelfIsNext ==
  /\ ScanSelf'.rows = ScanOwnRows' /\ ScanSelf'.pos = ScanPosition' /\ ScanSelf'.next = scan_next_record'
  /\ ScanSelf'.call = scan_call' /\ ScanSelf'.status = scan_status'
  BY DEF ScanSelf, ScanOwnRows, ScanPosition

ScanSelfOK == ScanSelf \in Cursors

LEMMA ScanSelfTyped == ScanIInv => ScanSelfOK
<1> SUFFICES ASSUME ScanIInv PROVE ScanSelf \in Cursors
  BY DEF ScanSelfOK
<1>1. ScanPosition \in Nat /\ ScanOwnRows \in Seq(Row)
  BY ScanPositionIs, ScanPlaces
<1>2. ScanSelf = [rows |-> ScanOwnRows, pos |-> ScanPosition, next |-> scan_next_record,
              call |-> scan_call, status |-> scan_status]
  BY DEF ScanSelf, ScanOwnRows, ScanPosition
<1>3. scan_next_record \in Row \cup {Null} /\ scan_call \in Calls /\ scan_status \in Statuses
  BY DEF ScanIInv, ScanTypeOK
<1> QED BY <1>1, <1>2, <1>3 DEF Cursors

LEMMA ScanSelfTypedNext == ScanIInv' => ScanSelf' \in Cursors
<1>1. ScanIInv' => ScanSelfOK'
  BY ScanSelfTyped, PTL
<1> QED BY <1>1 DEF ScanSelfOK, Cursors

\* The operator's calls and answers are those of Cursor.
LEMMA ScanSelfCalls ==
  /\ T!Opening(ScanSelf) = Opening(ScanSelf) /\ T!Rewinding(ScanSelf) = Rewinding(ScanSelf)
  /\ T!Asked(ScanSelf) = Asked(ScanSelf) /\ T!Taken(ScanSelf) = Taken(ScanSelf)
  /\ T!Usable(ScanSelf) = Usable(ScanSelf) /\ T!Askable(ScanSelf) = Askable(ScanSelf)
  /\ T!Answers(ScanSelf) = Answers(ScanSelf)
  BY DEF T!Opening, T!Rewinding, T!Asked, T!Taken, T!Usable, T!Askable,
         T!Answers, T!Answered, T!Failed,
         Opening, Rewinding, Asked, Taken, Usable, Askable,
         Answers, Answered, Failed

LEMMA ScanInitRefines ==
  ASSUME ScanInit, ScanIInv
  PROVE  T!Init
<1>1. ScanOwnRows \in Seq(Row)
  BY ScanPlaces
<1>2. ScanPosition = 0
  BY DEF ScanPosition, ScanInit
<1>3. ScanSelf.rows = ScanOwnRows /\ ScanSelf = T!Closed(ScanSelf.rows)
  BY <1>2 DEF ScanInit, ScanSelf, ScanOwnRows, ScanPosition, T!Closed
<1> QED BY <1>1, <1>3 DEF T!Init

\* A step within a call.
LEMMA ScanStutters ==
  ASSUME pages' = pages, ScanPosition' = ScanPosition,
         UNCHANGED <<scan_next_record, scan_call, scan_status>>
  PROVE  ScanSelf' = ScanSelf
  BY DEF ScanSelf, ScanPosition

\* The caller's steps are those of a cursor's caller.
LEMMA ScanCallerRefines ==
  ASSUME ScanIInv, ScanIInv', ScanCaller
  PROVE  T!Next
<1>1. /\ ScanSelf \in Cursors /\ ScanSelf' \in Cursors
      /\ pages' = pages /\ ScanOwnRows' = ScanOwnRows
  BY ScanSelfTyped, ScanSelfTypedNext
     DEF ScanSelfOK, ScanOwnRows, ScanCaller, ScanOpen, ScanRewind, FromTheStart, ScanFetchNext, ScanTake
<1>2. CASE ScanOpen
  <2>1. ScanSelf.call = "none" /\ SameParts(Opening(ScanSelf), ScanSelf')
    BY <1>1, <1>2, ScanSelfIs, ScanSelfIsNext, Called
       DEF ScanOpen, FromTheStart, SameParts, Same, ScanPosition
  <2>2. ScanSelf' = Opening(ScanSelf)
    BY <1>1, <2>1, SameCursor, Called
  <2> QED BY <2>1, <2>2, ScanSelfCalls DEF T!Next, T!Open
<1>3. CASE ScanRewind
  <2>1. Usable(ScanSelf) /\ SameParts(Rewinding(ScanSelf), ScanSelf')
    BY <1>1, <1>3, ScanSelfIs, ScanSelfIsNext, Called
       DEF ScanRewind, ScanIdle, FromTheStart, SameParts, Same, Usable, ScanPosition
  <2>2. ScanSelf' = Rewinding(ScanSelf)
    BY <1>1, <2>1, SameCursor, Called
  <2> QED BY <2>1, <2>2, ScanSelfCalls DEF T!Next, T!Rewind
<1>4. CASE ScanFetchNext
  <2>1. ScanPosition' = ScanPosition
    <3>1. scan_call' = "fetch" /\ records' = records /\ Loaded' = Loaded
      BY <1>4 DEF ScanFetchNext, ScanIdle, Loaded
    <3>2. CASE scan_call = "fetch"
      BY <1>1, <3>1, <3>2 DEF ScanPosition
    <3>3. CASE scan_call # "fetch"
      <4>1. Loaded = 1 /\ Len(pages) > 0 /\ records = pages[1]
        BY <1>4, <3>3 DEF ScanFetchNext, ScanIdle, ScanIInv, ScanTypeOK, ScanInStep, AtPage, Loaded, Calls
      <4>2. ScanPosition' = JoinedLen(pages, 1) - Len(pages[1])
        BY <1>1, <3>1, <4>1 DEF ScanPosition
      <4>3. 1 \in 1 .. Len(pages)
        BY <4>1, PagesAre
      <4>4. JoinedLen(pages, 1 - 1) = 0 /\ JoinedLen(pages, 1) = JoinedLen(pages, 1 - 1) + Len(pages[1])
        BY <4>3, ScanPlaces
      <4> QED BY <3>3, <4>2, <4>3, <4>4, ScanPositionIs, PagesAre
    <3> QED BY <3>2, <3>3
  <2>2. Askable(ScanSelf) /\ SameParts(Asked(ScanSelf), ScanSelf')
    BY <1>1, <1>4, <2>1, ScanSelfIs, ScanSelfIsNext, Called
       DEF ScanFetchNext, ScanIdle, SameParts, Same, Usable, Askable
  <2>3. ScanSelf' = Asked(ScanSelf)
    BY <1>1, <2>2, SameCursor, Called
  <2> QED BY <2>2, <2>3, ScanSelfCalls DEF T!Next, T!HasNext
<1>5. CASE ScanTake
  <2>1. ScanPosition' = ScanPosition
    BY <1>5 DEF ScanTake, ScanPosition, Loaded
  <2>2. ScanSelf.next # Null /\ SameParts(Taken(ScanSelf), ScanSelf')
    BY <1>1, <1>5, <2>1, ScanSelfIs, ScanSelfIsNext, Called DEF ScanTake, SameParts, Same
  <2>3. ScanSelf' = Taken(ScanSelf)
    BY <1>1, <2>2, SameCursor, Called
  <2> QED BY <2>2, <2>3, ScanSelfCalls DEF T!Next, T!Take
<1> QED BY <1>2, <1>3, <1>4, <1>5 DEF ScanCaller

\* The scan's steps are its answers, or happen within a call.
LEMMA ScanStepRefines ==
  ASSUME ScanIInv, ScanIInv', ScanStep
  PROVE  T!Next \/ ScanSelf' = ScanSelf
<1>1. /\ ScanSelf \in Cursors /\ ScanSelf' \in Cursors
      /\ pages' = pages /\ ScanOwnRows' = ScanOwnRows /\ scan_call' = scan_call /\ scan_status = "busy"
  BY ScanSelfTyped, ScanSelfTypedNext
     DEF ScanSelfOK, ScanOwnRows, ScanStep, LoadPage, LoadFails, PageOver, Give, ScanIInv, ScanInStep, ScanTurns
<1>2. T!Answer <=> ScanSelf.status = "busy" /\ ScanSelf' \in Answers(ScanSelf)
  BY ScanSelfCalls DEF T!Answer
<1>3. CASE LoadPage /\ scan_call = "fetch"
  <2>1. PICK n \in 1 .. Len(pages) :
           /\ Loaded = n - 1 /\ Loaded' = n /\ n - 1 \in 1 .. Len(pages)
           /\ records = <<>> /\ records' = pages[n]
    <3>1. Loaded = page_ctr + 1 /\ Loaded' = page_ctr + 2 /\ records = <<>>
      BY <1>1, <1>3, PagesAre DEF LoadPage, Loaded, ScanIInv, ScanInStep, AtPage
    <3>2. page_ctr + 2 \in 1 .. Len(pages) /\ page_ctr + 1 \in 1 .. Len(pages)
      BY <1>1, <1>3, <3>1, PagesAre DEF LoadPage, ScanIInv, ScanInStep, AtPage
    <3> QED BY <1>3, <3>1, <3>2, PagesAre DEF LoadPage
  <2>2. ScanPosition = JoinedLen(pages, n - 1) /\ ScanPosition \in Nat
    <3>1. Len(records) = 0
      BY <2>1, EmptySeq
    <3>2. JoinedLen(pages, n - 1) \in Nat
      BY <2>1, ScanPlaces
    <3>3. ScanPosition = JoinedLen(pages, n - 1) - Len(records)
      BY <1>3, <2>1 DEF ScanPosition
    <3> QED BY <3>1, <3>2, <3>3
  <2>3. ScanPosition' = JoinedLen(pages, n) - Len(pages[n])
    BY <1>1, <1>3, <2>1 DEF ScanPosition
  <2>4. ScanPosition' = ScanPosition
    BY <2>1, <2>2, <2>3, ScanPlaces, PagesAre
  <2> QED BY <1>1, <1>3, <2>4, ScanStutters DEF LoadPage
<1>4. CASE LoadPage /\ scan_call # "fetch"
  <2>1. scan_next_record' = scan_next_record /\ scan_status' = "ok" /\ ScanPosition = 0 /\ ScanPosition' = 0
    BY <1>1, <1>4 DEF LoadPage, ScanPosition
  <2>2. ScanSelf.status = "busy" /\ ScanSelf' \in Answers(ScanSelf)
    BY <1>1, <1>4, <2>1, ScanSelfIs, ScanSelfIsNext, IsAnswer
  <2> QED BY <1>2, <2>2 DEF T!Next
<1>5. CASE LoadFails
  <2>1. /\ scan_next_record' = scan_next_record /\ records' = records /\ Loaded' = Loaded
        /\ Loaded = page_ctr + 1
        /\ scan_status' = "error" \/ (scan_status' = "oor" /\ ~(page_ctr + 1 < Len(pages)))
    BY <1>1, <1>5 DEF LoadFails, Loaded
  <2>2. ScanPosition' = ScanPosition
    BY <1>1, <2>1 DEF ScanPosition
  <2>3. \/ scan_status' = "error"
        \/ scan_status' = "oor" /\ scan_call = "open"
        \/ scan_status' = "oor" /\ scan_call = "fetch" /\ ~(ScanPosition < Len(ScanOwnRows))
    <3>1. CASE scan_status' = "oor" /\ scan_call = "fetch"
      <4>1. Loaded = Len(pages) /\ records = <<>>
        BY <1>1, <1>5, <2>1, <3>1, PagesAre DEF LoadFails, ScanIInv, ScanInStep, AtPage
      <4>2. ScanPosition = Len(ScanOwnRows)
        BY <3>1, <4>1, ScanPositionIs, ScanPlaces
      <4> QED BY <3>1, <4>2, ScanPlaces
    <3>2. CASE scan_status' = "oor" /\ scan_call # "fetch"
      BY <1>1, <1>5, <3>2 DEF LoadFails, ScanIInv, ScanTypeOK, ScanInStep, AtPage, ScanTurns, Calls
    <3> QED BY <2>1, <3>1, <3>2
  <2>4. ScanSelf.status = "busy" /\ ScanSelf' \in Answers(ScanSelf)
    BY <1>1, <2>1, <2>2, <2>3, ScanSelfIs, ScanSelfIsNext, IsAnswer
  <2> QED BY <1>2, <2>4 DEF T!Next
<1>6. CASE PageOver
  <2>1. ScanPosition' = ScanPosition
    BY <1>6 DEF PageOver, ScanPosition, Loaded
  <2> QED BY <1>1, <1>6, <2>1, ScanStutters DEF PageOver
<1>7. CASE Give
  <2> DEFINE n == Loaded
             k == Len(pages[n]) - Len(records) + 1
  <2>1. /\ scan_call = "fetch" /\ n \in 1 .. Len(pages) /\ LeftOf(pages[n])
        /\ records # <<>> /\ records \in Seq(Row) /\ Loaded' = n
        /\ scan_next_record' = Head(records) /\ records' = Tail(records) /\ scan_status' = "ok"
    BY <1>1, <1>7 DEF Give, Loaded, ScanIInv, ScanTypeOK, ScanInStep, ScanTurns, AtPage
  <2>2. /\ Len(records) >= 1 /\ Len(Tail(records)) = Len(records) - 1
        /\ Head(records) = records[1]
    BY <2>1, HeadTailProperties, PagesAre
  <2>3. k \in 1 .. Len(pages[n]) /\ Head(records) = pages[n][k]
    <3>1. 1 \in 1 .. Len(records) /\ Len(records) <= Len(pages[n])
      BY <2>1, <2>2, PagesAre DEF LeftOf
    <3>2. records[1] = pages[n][Len(pages[n]) - Len(records) + 1]
      BY <2>1, <3>1 DEF LeftOf
    <3> QED BY <2>1, <2>2, <3>1, <3>2, PagesAre
  <2>4. /\ ScanPosition = JoinedLen(pages, n) - Len(records) /\ ScanPosition \in Nat
        /\ ScanPosition' = JoinedLen(pages, n) - (Len(records) - 1)
    BY <1>1, <2>1, <2>2, ScanPositionIs DEF ScanPosition
  <2>5. /\ JoinedLen(pages, n - 1) \in Nat
        /\ JoinedLen(pages, n) = JoinedLen(pages, n - 1) + Len(pages[n])
        /\ JoinedLen(pages, n - 1) + k \in 1 .. Len(ScanOwnRows)
        /\ ScanOwnRows[JoinedLen(pages, n - 1) + k] = pages[n][k]
    BY <2>1, <2>3, ScanPlaces
  <2>6. ScanPosition' = ScanPosition + 1 /\ JoinedLen(pages, n - 1) + k = ScanPosition + 1
    <3>1. Len(pages[n]) \in Nat /\ Len(records) \in Nat
      BY <2>1, PagesAre
    <3> HIDE DEF n
    <3> QED BY <2>4, <2>5, <3>1
  <2>7. ScanPosition < Len(ScanOwnRows) /\ scan_next_record' = ScanOwnRows[ScanPosition + 1]
    BY <2>1, <2>3, <2>4, <2>5, <2>6, ScanPlaces
  <2>8. ScanSelf.status = "busy" /\ ScanSelf' \in Answers(ScanSelf)
    BY <1>1, <2>1, <2>6, <2>7, ScanSelfIs, ScanSelfIsNext, IsAnswer
  <2> QED BY <1>2, <2>8 DEF T!Next
<1> QED BY <1>3, <1>4, <1>5, <1>6, <1>7 DEF ScanStep

\* A scan is a cursor over the records of the table, page by page: each once,
\* OutOfRange after the last of them and not before, whatever pages are
\* empty, and all of them again after a Rewind.
THEOREM ScanRefines == ScanSpec => ScanIsCursor
<1>1. ScanInit => ScanIInv
  BY ScanInitStands
<1>2. ScanIInv /\ [ScanNext]_scan_vars => ScanIInv'
  BY ScanNextKeeps
<1>3. ScanInit => T!Init
  BY ScanInitStands, ScanInitRefines
<1>4. ScanIInv /\ ScanIInv' /\ [ScanNext]_scan_vars => [T!Next]_ScanSelf
  <2>1. CASE UNCHANGED scan_vars
    BY <2>1 DEF scan_vars, ScanSelf, Loaded
  <2> QED BY <2>1, ScanCallerRefines, ScanStepRefines DEF ScanNext
<1> QED BY <1>1, <1>2, <1>3, <1>4, PTL DEF ScanSpec, ScanIsCursor, T!Spec

=============================================================================
