-------------------------- MODULE NestedLoopProofs --------------------------
(***************************************************************************)
(* A nested loops join is a cursor over the matching pairs, for every two  *)
(* children that are cursors, every predicate and every caller.            *)
(***************************************************************************)
EXTENDS NestedLoop, ListLemmas

-----------------------------------------------------------------------------
(* Cursors                                                                 *)

\* What the calls of a caller make of one.
LEMMA Called ==
  ASSUME NEW x \in Cursors
  PROVE  /\ Opening(x) \in Cursors /\ Opening(x).rows = x.rows
         /\ Opening(x).pos = 0 /\ Opening(x).next = x.next
         /\ Opening(x).call = "open" /\ Opening(x).status = "busy"
         /\ Rewinding(x) \in Cursors /\ Rewinding(x).rows = x.rows
         /\ Rewinding(x).pos = 0 /\ Rewinding(x).next = x.next
         /\ Rewinding(x).call = "rewind" /\ Rewinding(x).status = "busy"
         /\ Asked(x) \in Cursors /\ Asked(x).rows = x.rows
         /\ Asked(x).pos = x.pos /\ Asked(x).next = x.next
         /\ Asked(x).call = "fetch" /\ Asked(x).status = "busy"
         /\ Taken(x) \in Cursors /\ Taken(x).rows = x.rows
         /\ Taken(x).pos = x.pos /\ Taken(x).next = Null
         /\ Taken(x).call = x.call /\ Taken(x).status = x.status
  BY DEF Cursors, Calls, Statuses, Opening, Rewinding, Asked, Taken

LEMMA CalledStands ==
  ASSUME NEW x \in Cursors, Standing(x)
  PROVE  /\ x.call = "none" => Standing(Opening(x))
         /\ Usable(x) => Standing(Rewinding(x))
         /\ Askable(x) => Standing(Asked(x))
         /\ Standing(Taken(x))
<1>1. Len(x.rows) \in Nat
  BY LenProperties DEF Cursors
<1> QED BY <1>1, Called DEF Standing, Usable, Askable

\* All but the answer.
Same(x, y) ==
  y.rows = x.rows /\ y.call = x.call /\ y.pos = x.pos /\ y.next = x.next

LEMMA Stated ==
  ASSUME NEW x \in Cursors, NEW st \in Statuses
  PROVE  /\ [x EXCEPT !.status = st] \in Cursors
         /\ Same(x, [x EXCEPT !.status = st])
         /\ [x EXCEPT !.status = st].status = st
  BY DEF Cursors, Same

\* An answer: where a record is fetched it is the next one.
Followed(x, y) ==
  /\ y.rows = x.rows /\ y.call = x.call /\ y.status # "busy"
  /\ x.next = Null
  /\ y.next = Null => y.pos = x.pos
  /\ y.next # Null => y.pos = x.pos + 1
  /\ x.call = "fetch" /\ y.status = "ok" => y.next # Null

LEMMA AnswerStands ==
  ASSUME Null \notin Row,
         NEW x \in Cursors, Standing(x), x.status = "busy", NEW y \in Answers(x)
  PROVE  y \in Cursors /\ Standing(y) /\ Followed(x, y)
<1>1. /\ Len(x.rows) \in Nat /\ x.pos \in Nat /\ x.pos <= Len(x.rows)
      /\ x.next = Null /\ x.call \in Calls
  BY LenProperties DEF Cursors, Standing
<1>2. CASE y \in Failed(x)
  <2>1. \/ y = [x EXCEPT !.status = "error"]
        \/ x.call = "open" /\ y = [x EXCEPT !.status = "oor"]
    BY <1>2 DEF Failed
  <2>2. CASE y = [x EXCEPT !.status = "error"]
    <3>1. y \in Cursors /\ Same(x, y) /\ y.status = "error"
      BY <2>2, Stated DEF Statuses
    <3> QED BY <1>1, <3>1 DEF Standing, Followed, Same
  <2>3. CASE x.call = "open" /\ y = [x EXCEPT !.status = "oor"]
    <3>1. y \in Cursors /\ Same(x, y) /\ y.status = "oor"
      BY <2>3, Stated DEF Statuses
    <3> QED BY <1>1, <2>3, <3>1 DEF Standing, Followed, Same
  <2> QED BY <2>1, <2>2, <2>3
<1>3. CASE y = Answered(x) /\ x.call # "fetch"
  <2>1. y = [x EXCEPT !.status = "ok"]
    BY <1>3 DEF Answered
  <2>2. y \in Cursors /\ Same(x, y) /\ y.status = "ok"
    BY <2>1, Stated DEF Statuses
  <2> QED BY <1>1, <1>3, <2>2 DEF Standing, Followed, Same
<1>4. CASE y = Answered(x) /\ x.call = "fetch" /\ x.pos < Len(x.rows)
  <2> DEFINE r == x.rows[x.pos + 1]
  <2>1. r \in Row
    <3>1. x.rows \in Seq(Row) /\ x.pos + 1 \in 1 .. Len(x.rows)
      BY <1>1, <1>4 DEF Cursors
    <3> QED BY <3>1, ElementOfSeq
  <2>2. y = [x EXCEPT !.pos = @ + 1, !.next = r, !.status = "ok"]
    BY <1>4 DEF Answered
  <2> HIDE DEF r
  <2>3. /\ y \in Cursors /\ y.rows = x.rows /\ y.call = x.call
        /\ y.pos = x.pos + 1 /\ y.next = r /\ y.status = "ok"
    <3> DEFINE p == x.pos + 1
    <3>1. p \in Nat /\ y = [x EXCEPT !.pos = p, !.next = r, !.status = "ok"]
      BY <1>1, <2>2
    <3> HIDE DEF p
    <3>2. /\ y \in Cursors /\ y.rows = x.rows /\ y.call = x.call
          /\ y.pos = p /\ y.next = r /\ y.status = "ok"
      BY <2>1, <3>1 DEF Cursors, Statuses
    <3> QED BY <3>2 DEF p
  <2> QED BY <1>1, <1>4, <2>1, <2>3 DEF Standing, Followed, r
<1>5. CASE y = Answered(x) /\ x.call = "fetch" /\ ~(x.pos < Len(x.rows))
  <2>1. y = [x EXCEPT !.status = "oor"]
    BY <1>5 DEF Answered
  <2>2. y \in Cursors /\ Same(x, y) /\ y.status = "oor"
    BY <2>1, Stated DEF Statuses
  <2> QED BY <1>1, <1>5, <2>2 DEF Standing, Followed, Same
<1> QED BY <1>2, <1>3, <1>4, <1>5 DEF Answers

-----------------------------------------------------------------------------
(* The invariant                                                           *)

LEMMA InitStands ==
  ASSUME Init
  PROVE  IInv
<1>1. PICK ls \in Inputs, rs \in Inputs : left = Closed(ls) /\ right = Closed(rs)
  BY DEF Init
<1>2. ls \in Seq(Row) /\ rs \in Seq(Row) /\ Len(ls) \in Nat /\ Len(rs) \in Nat
  BY InputsAssumption, LenProperties
<1>3. /\ left \in Cursors /\ left.rows = ls /\ left.pos = 0 /\ left.next = Null
      /\ left.call = "none" /\ left.status = "ok"
  BY <1>1, <1>2 DEF Closed, Cursors, Calls, Statuses
<1>4. /\ right \in Cursors /\ right.rows = rs /\ right.pos = 0 /\ right.next = Null
      /\ right.call = "none" /\ right.status = "ok"
  BY <1>1, <1>2 DEF Closed, Cursors, Calls, Statuses
<1>5. Standing(left) /\ Standing(right)
  BY <1>2, <1>3, <1>4 DEF Standing
<1> QED BY <1>3, <1>4, <1>5
        DEF IInv, TypeOK, InStep, Turns, Recorded, AtRest, AtLeft, AtRight, Init, Calls, Statuses

LEMMA CallerKeeps ==
  ASSUME IInv, Caller
  PROVE  IInv'
<1> USE DEF IInv, TypeOK, InStep
<1>1. CASE Open
  <2>1. /\ left' = Opening(left) /\ right' = right /\ pc' = "left"
        /\ left.call = "none" /\ right.call = "none" /\ l_child_next = Null
    BY <1>1 DEF Open, AtRest
  <2>2. Standing(left') /\ left' \in Cursors
    BY <2>1, Called, CalledStands
  <2> QED BY <1>1, <2>1, <2>2, Called
          DEF Open, Turns, Recorded, AtRest, AtLeft, AtRight, Standing, Calls, Statuses
<1>2. CASE Rewind
  <2>1. Usable(left) /\ Usable(right) /\ right.status = "ok"
    BY <1>2 DEF Rewind, Idle, AtRest, Turns, Usable, Askable, Calls
  <2>2. Standing(left') /\ left' \in Cursors
    BY <1>2, <2>1, Called, CalledStands DEF Rewind
  <2> QED BY <1>2, <2>1, <2>2, Called
          DEF Rewind, Idle, Turns, Recorded, AtRest, AtLeft, AtRight, Usable, Calls, Statuses
<1>3. CASE FetchNext
  BY <1>3 DEF FetchNext, Idle, Turns, Recorded, AtRest, AtLeft, AtRight,
              Usable, Askable, Calls, Statuses
<1>4. CASE Take
  BY <1>4, NullAssumption
     DEF Take, Turns, Recorded, AtRest, AtLeft, AtRight, Usable, Askable
<1> QED BY <1>1, <1>2, <1>3, <1>4 DEF Caller

\* What a child answers.
LEMMA ChildAnswers ==
  ASSUME IInv
  PROVE  /\ L!Answer => /\ left' \in Cursors /\ Standing(left')
                        /\ Followed(left, left')
         /\ R!Answer => /\ right' \in Cursors /\ Standing(right')
                        /\ Followed(right, right')
<1>1. L!Answers(left) = Answers(left)
  BY DEF L!Answers, L!Answered, L!Failed, Answers, Answered, Failed
<1>2. R!Answers(right) = Answers(right)
  BY DEF R!Answers, R!Answered, R!Failed, Answers, Answered, Failed
<1>3. /\ left \in Cursors /\ Standing(left)
      /\ right \in Cursors /\ Standing(right)
  BY DEF IInv, TypeOK, InStep
<1> QED BY <1>1, <1>2, <1>3, NullAssumption, AnswerStands DEF L!Answer, R!Answer

LEMMA StepKeeps ==
  ASSUME IInv, Step
  PROVE  IInv'
<1> USE DEF IInv, TypeOK, InStep
<1>1. CASE LeftReady
  <2>1. /\ Askable(left) /\ left.call = call
        /\ IF call = "open" THEN right.call = "none" ELSE Usable(right)
    BY <1>1 DEF LeftReady, AtLeft, Standing, Usable, Askable
  <2>2. Standing(right') /\ right' \in Cursors
    BY <1>1, <2>1, Called, CalledStands DEF LeftReady
  <2> QED BY <1>1, <2>1, <2>2, Called
          DEF LeftReady, Turns, Recorded, AtRest, AtLeft, AtRight, Calls, Statuses
<1>2. CASE RightReady
  <2>1. l_child_next' = Null /\ next_record' = Null
    BY <1>2 DEF RightReady, Forget, Turns, AtRight
  <2>2. /\ Askable(left) /\ left.pos = 0 /\ right.pos = 0 /\ right.next = Null
        /\ right.call # "none"
    BY <1>2 DEF RightReady, AtRight, Standing
  <2> QED BY <1>2, <2>1, <2>2
          DEF RightReady, Return, Turns, Recorded, AtRest, AtLeft, AtRight,
              Usable, Askable, Statuses
<1>3. CASE AskLeft
  <2>1. Standing(left') /\ left' \in Cursors
    BY <1>3, Called, CalledStands DEF AskLeft, AtRest
  <2> QED BY <1>3, <2>1, Called
          DEF AskLeft, Turns, Recorded, AtRest, AtLeft, AtRight
<1>4. CASE LeftRecord
  <2>1. /\ left.next # Null /\ left.next = left.rows[left.pos] /\ left.pos > 0
        /\ left.next \in Row
    BY <1>4 DEF LeftRecord, AtLeft, Standing, Cursors
  <2>2. Standing(left') /\ left' \in Cursors
    BY <1>4, Called, CalledStands DEF LeftRecord
  <2> QED BY <1>4, <2>1, <2>2, Called
          DEF LeftRecord, Turns, Recorded, AtRest, AtLeft, AtRight, Usable, Askable
<1>5. CASE AskRight
  <2>1. Standing(right') /\ right' \in Cursors
    BY <1>5, Called, CalledStands DEF AskRight, AtRest
  <2> QED BY <1>5, <2>1, Called
          DEF AskRight, Turns, Recorded, AtRest, AtLeft, AtRight, Askable
<1>6. CASE RightRecord
  <2>1. Standing(right') /\ right' \in Cursors
    BY <1>6, Called, CalledStands DEF RightRecord
  <2>2. /\ right.next \in Row /\ l_child_next \in Row
        /\ <<l_child_next, right.next>> \in Row \X Row
    BY <1>6 DEF RightRecord, AtRight, Cursors
  <2>3. Askable(right')
    BY <1>6, Called DEF RightRecord, AtRight, Usable, Askable
  <2>4. pc' \in {"client", "loop", "dead"}
    BY <1>6 DEF RightRecord, Return
  <2>5. /\ l_child_next' = l_child_next /\ left' = left /\ call' = call
        /\ call = "fetch" /\ right'.status = "ok" /\ status = "busy"
        /\ left.status = "ok" /\ Askable(left) /\ Recorded /\ l_child_next # Null
    BY <1>6, Called DEF RightRecord, Return, AtRight, Turns, Askable
  <2>6. \/ pc' = "client" /\ status' = "ok" /\ next_record' = <<l_child_next, right.next>>
        \/ pc' \in {"loop", "dead"} /\ status' = "busy" /\ next_record' = Null
    BY <1>6, <2>5 DEF RightRecord, Return, Turns
  <2> QED BY <2>1, <2>2, <2>3, <2>5, <2>6
          DEF Turns, Recorded, AtRest, AtLeft, AtRight, Statuses
<1>7. CASE RightOver
  <2>1. Usable(right)
    BY <1>7 DEF RightOver, AtRight, Standing, Usable
  <2>2. Standing(right') /\ right' \in Cursors
    BY <1>7, <2>1, Called, CalledStands DEF RightOver
  <2> QED BY <1>7, <2>2, Called
          DEF RightOver, Turns, Recorded, AtRest, AtLeft, AtRight, Askable
<1>8. CASE RightAgain
  BY <1>8 DEF RightAgain, Turns, Recorded, AtRest, AtLeft, AtRight,
              Usable, Askable, Standing
<1>9. CASE LeftFails
  <2>1. call # "rewind" \/ left.status # "oor"
    BY <1>9 DEF LeftFails, AtLeft, Standing
  <2> QED BY <1>9, <2>1
          DEF LeftFails, Return, Turns, Recorded, AtRest, AtLeft, AtRight, Standing,
              Askable, Calls, Statuses
<1>10. CASE RightFails
  <2>1. status' = "error" \/ (status' = "oor" /\ call = "open")
    BY <1>10 DEF RightFails, Return, AtRight, Standing, Turns, Calls
  <2> QED BY <1>10, <2>1
          DEF RightFails, Return, Turns, Recorded, AtRest, AtLeft, AtRight, Askable,
              Calls, Statuses
<1>11. CASE OfLeft
  <2>1. left' \in Cursors /\ Standing(left') /\ Followed(left, left')
    BY <1>11, ChildAnswers DEF OfLeft
  <2> QED BY <1>11, <2>1
          DEF OfLeft, L!Answer, Followed, Turns, Recorded, AtRest, AtLeft, AtRight, Usable, Askable
<1>12. CASE OfRight
  <2>1. right' \in Cursors /\ Standing(right') /\ Followed(right, right')
    BY <1>12, ChildAnswers DEF OfRight
  <2> QED BY <1>12, <2>1
          DEF OfRight, R!Answer, Followed, Turns, Recorded, AtRest, AtLeft, AtRight,
              Usable, Askable
<1> QED BY <1>1, <1>2, <1>3, <1>4, <1>5, <1>6, <1>7, <1>8, <1>9, <1>10,
           <1>11, <1>12 DEF Step

LEMMA NextKeeps ==
  ASSUME IInv, [Next]_vars
  PROVE  IInv'
<1>1. CASE UNCHANGED vars
  BY <1>1 DEF IInv, TypeOK, InStep, vars, Turns, Recorded, AtRest, AtLeft, AtRight
<1> QED BY <1>1, CallerKeeps, StepKeeps DEF Next

\* Every state of a join and its children is well formed, and they agree on
\* where they are.
THEOREM JoinInStep == Spec => []IInv
<1>1. Init => IInv
  BY InitStands
<1>2. IInv /\ [Next]_vars => IInv'
  BY NextKeeps
<1> QED BY <1>1, <1>2, PTL DEF Spec

-----------------------------------------------------------------------------
(* The children                                                            *)

\* A child starts closed,
LEMMA ChildrenStart ==
  ASSUME Init
  PROVE  L!Init /\ R!Init
<1>1. PICK ls \in Inputs, rs \in Inputs : left = Closed(ls) /\ right = Closed(rs)
  BY DEF Init
<1>2. /\ ls \in Seq(Row) /\ left.rows = ls
      /\ rs \in Seq(Row) /\ right.rows = rs
  BY <1>1, InputsAssumption DEF Closed
<1> QED BY <1>1, <1>2 DEF L!Init, R!Init, L!Closed, R!Closed, Closed

\* and what the join does to it a caller of a cursor may do.
LEMMA ChildrenStep ==
  ASSUME IInv, [Next]_vars
  PROVE  [L!Next]_left /\ [R!Next]_right
<1>1. /\ L!Opening(left) = Opening(left) /\ L!Rewinding(left) = Rewinding(left)
      /\ L!Asked(left) = Asked(left) /\ L!Taken(left) = Taken(left)
      /\ L!Usable(left) = Usable(left) /\ L!Askable(left) = Askable(left)
  BY DEF L!Opening, L!Rewinding, L!Asked, L!Taken, L!Usable, L!Askable,
         Opening, Rewinding, Asked, Taken, Usable, Askable
<1>2. /\ R!Opening(right) = Opening(right) /\ R!Rewinding(right) = Rewinding(right)
      /\ R!Asked(right) = Asked(right) /\ R!Taken(right) = Taken(right)
      /\ R!Usable(right) = Usable(right) /\ R!Askable(right) = Askable(right)
  BY DEF R!Opening, R!Rewinding, R!Asked, R!Taken, R!Usable, R!Askable,
         Opening, Rewinding, Asked, Taken, Usable, Askable
<1> USE DEF IInv, InStep
<1>3. CASE UNCHANGED <<left, right>>
  BY <1>3
<1>4. CASE Open
  BY <1>1, <1>4 DEF Open, AtRest, L!Next, L!Open
<1>5. CASE Rewind
  <2>1. Usable(left)
    BY <1>5 DEF Rewind, Idle, AtRest, Turns, TypeOK, Usable, Askable, Calls
  <2> QED BY <1>1, <1>5, <2>1 DEF Rewind, L!Next, L!Rewind
<1>6. CASE LeftReady
  <2>1. IF call = "open" THEN right.call = "none" ELSE Usable(right)
    BY <1>6 DEF LeftReady, AtLeft
  <2> QED BY <1>2, <1>6, <2>1 DEF LeftReady, R!Next, R!Open, R!Rewind
<1>7. CASE AskLeft
  BY <1>1, <1>7 DEF AskLeft, AtRest, L!Next, L!HasNext
<1>8. CASE LeftRecord
  BY <1>1, <1>8 DEF LeftRecord, AtLeft, L!Next, L!Take
<1>9. CASE AskRight
  BY <1>2, <1>9 DEF AskRight, AtRest, R!Next, R!HasNext
<1>10. CASE RightRecord
  BY <1>2, <1>10 DEF RightRecord, AtRight, R!Next, R!Take
<1>11. CASE RightOver
  <2>1. Usable(right)
    BY <1>11 DEF RightOver, AtRight, Standing, Usable
  <2> QED BY <1>2, <1>11, <2>1 DEF RightOver, R!Next, R!Rewind
<1>12. CASE OfLeft \/ OfRight
  BY <1>12 DEF OfLeft, OfRight, L!Next, R!Next
<1> QED
  BY <1>3, <1>4, <1>5, <1>6, <1>7, <1>8, <1>9, <1>10, <1>11, <1>12
     DEF Next, Caller, Step, vars, FetchNext, Take, RightReady, RightAgain,
         LeftFails, RightFails

\* The join asks of its children only what a cursor answers: it opens them
\* once, takes a record that is held before it asks for another, and asks
\* none after OutOfRange before a Rewind.
THEOREM CalledRight == Spec => ChildrenCalledRight
<1>1. Init => IInv
  BY InitStands
<1>2. IInv /\ [Next]_vars => IInv'
  BY NextKeeps
<1>3. Init => L!Init /\ R!Init
  BY ChildrenStart
<1>4. IInv /\ [Next]_vars => [L!Next]_left /\ [R!Next]_right
  BY ChildrenStep
<1> QED BY <1>1, <1>2, <1>3, <1>4, PTL DEF Spec, ChildrenCalledRight, L!Spec, R!Spec

-----------------------------------------------------------------------------
(* The matching pairs                                                      *)

LEMMA PairsPieces ==
  ASSUME NEW l \in Row, NEW rs \in Seq(Row)
  PROVE  /\ PairsOf(l, rs) \in Seq(Seq(Row \X Row))
         /\ Len(PairsOf(l, rs)) = Len(rs)
         /\ \A j \in 1 .. Len(rs) : PairsOf(l, rs)[j] = Pairs(l, rs[j])
<1>1. Len(rs) \in Nat /\ \A j \in 1 .. Len(rs) : rs[j] \in Row
  BY LenProperties, ElementOfSeq
<1>2. \A j \in 1 .. Len(rs) : Pairs(l, rs[j]) \in Seq(Row \X Row)
  <2>1. SUFFICES ASSUME NEW j \in 1 .. Len(rs) PROVE Pairs(l, rs[j]) \in Seq(Row \X Row)
    OBVIOUS
  <2>2. <<l, rs[j]>> \in Row \X Row
    BY <1>1
  <2>3. <<<<l, rs[j]>>>> \in Seq(Row \X Row) /\ <<>> \in Seq(Row \X Row)
    BY <2>2
  <2> QED BY <2>3 DEF Pairs
<1> DEFINE T == Seq(Row \X Row)
           f == [j \in 1 .. Len(rs) |-> Pairs(l, rs[j])]
<1>3. f \in [1 .. Len(rs) -> T]
  BY <1>2
<1> HIDE DEF T
<1>4. f \in Seq(T) /\ Len(f) = Len(rs)
  BY <1>1, <1>3, SeqOfLen
<1> QED BY <1>4 DEF PairsOf, T

LEMMA MatchesPieces ==
  ASSUME NEW ls \in Seq(Row), NEW rs \in Seq(Row)
  PROVE  /\ Matches(ls, rs) \in Seq(Seq(Row \X Row))
         /\ Len(Matches(ls, rs)) = Len(ls)
         /\ \A i \in 1 .. Len(ls) : Matches(ls, rs)[i] = Joined(PairsOf(ls[i], rs))
<1>1. Len(ls) \in Nat /\ \A i \in 1 .. Len(ls) : ls[i] \in Row
  BY LenProperties, ElementOfSeq
<1> DEFINE S == Row \X Row
           T == Seq(S)
           f == [i \in 1 .. Len(ls) |-> Joined(PairsOf(ls[i], rs))]
<1>2. \A i \in 1 .. Len(ls) : PairsOf(ls[i], rs) \in Seq(Seq(S))
  BY <1>1, PairsPieces
<1> HIDE DEF S
<1>3. \A i \in 1 .. Len(ls) : Joined(PairsOf(ls[i], rs)) \in T
  BY <1>2, JoinedAt
<1>4. f \in [1 .. Len(ls) -> T]
  BY <1>3
<1> HIDE DEF T
<1>5. f \in Seq(T) /\ Len(f) = Len(ls)
  BY <1>1, <1>4, SeqOfLen
<1> QED BY <1>5 DEF Matches, T, S

\* How many pairs come before a left record, and before a record of the
\* right child with it.
AtPair(ls, rs, i) == JoinedLen(Matches(ls, rs), i)
WithIt(l, rs, j) == JoinedLen(PairsOf(l, rs), j)

LEMMA PairPlaces ==
  ASSUME NEW ls \in Seq(Row), NEW rs \in Seq(Row)
  PROVE  /\ Joined(Matches(ls, rs)) \in Seq(Row \X Row)
         /\ AtPair(ls, rs, 0) = 0
         /\ AtPair(ls, rs, Len(ls)) = Len(Joined(Matches(ls, rs)))
         /\ \A i \in 1 .. Len(ls) :
              /\ AtPair(ls, rs, i - 1) \in Nat
              /\ WithIt(ls[i], rs, 0) = 0
              /\ AtPair(ls, rs, i) =
                   AtPair(ls, rs, i - 1) + WithIt(ls[i], rs, Len(rs))
<1>1. /\ Matches(ls, rs) \in Seq(Seq(Row \X Row))
      /\ Len(Matches(ls, rs)) = Len(ls)
      /\ \A i \in 1 .. Len(ls) : Matches(ls, rs)[i] = Joined(PairsOf(ls[i], rs))
  BY MatchesPieces
<1>2. \A i \in 1 .. Len(ls) : ls[i] \in Row
  BY ElementOfSeq
<1> DEFINE S == Row \X Row
<1>3. \A i \in 1 .. Len(ls) : /\ PairsOf(ls[i], rs) \in Seq(Seq(S))
                             /\ Len(PairsOf(ls[i], rs)) = Len(rs)
  BY <1>2, PairsPieces
<1>4. Matches(ls, rs) \in Seq(Seq(S))
  BY <1>1
<1> HIDE DEF S
<1>5. \A i \in 1 .. Len(ls) :
         /\ JoinedLen(PairsOf(ls[i], rs), 0) = 0
         /\ JoinedLen(PairsOf(ls[i], rs), Len(rs)) = Len(Joined(PairsOf(ls[i], rs)))
  BY <1>3, JoinedLens, JoinedAt
<1>6. /\ Joined(Matches(ls, rs)) \in Seq(S)
      /\ JoinedLen(Matches(ls, rs), Len(ls)) = Len(Joined(Matches(ls, rs)))
  BY <1>1, <1>4, JoinedAt
<1>7. /\ JoinedLen(Matches(ls, rs), 0) = 0
      /\ \A i \in 1 .. Len(ls) :
           /\ JoinedLen(Matches(ls, rs), i - 1) \in Nat
           /\ JoinedLen(Matches(ls, rs), i) =
                JoinedLen(Matches(ls, rs), i - 1) + Len(Matches(ls, rs)[i])
  BY <1>1, <1>4, JoinedLens
<1> QED BY <1>1, <1>5, <1>6, <1>7 DEF AtPair, WithIt, S

LEMMA PairFound ==
  ASSUME NEW ls \in Seq(Row), NEW rs \in Seq(Row),
         NEW i \in 1 .. Len(ls), NEW j \in 1 .. Len(rs)
  PROVE  /\ WithIt(ls[i], rs, j - 1) \in Nat
         /\ WithIt(ls[i], rs, j) = WithIt(ls[i], rs, j - 1)
                                   + Len(Pairs(ls[i], rs[j]))
         /\ Len(Pairs(ls[i], rs[j])) = IF Filter(ls[i], rs[j]) = "yes" THEN 1 ELSE 0
         /\ Filter(ls[i], rs[j]) = "yes" =>
              LET n == AtPair(ls, rs, i - 1) + WithIt(ls[i], rs, j - 1) + 1
              IN  /\ n \in 1 .. Len(Joined(Matches(ls, rs)))
                  /\ Joined(Matches(ls, rs))[n] = <<ls[i], rs[j]>>
<1> DEFINE S == Row \X Row
           m == Matches(ls, rs)
           p == PairsOf(ls[i], rs)
           q == Pairs(ls[i], rs[j])
           w == WithIt(ls[i], rs, j - 1)
           a == AtPair(ls, rs, i - 1)
<1>1. ls[i] \in Row
  BY ElementOfSeq
<1>2. /\ p \in Seq(Seq(S)) /\ Len(p) = Len(rs) /\ p[j] = q
  BY <1>1, PairsPieces
<1>3. m \in Seq(Seq(S)) /\ Len(m) = Len(ls) /\ m[i] = Joined(p)
  BY MatchesPieces
<1>4. Len(q) = (IF Filter(ls[i], rs[j]) = "yes" THEN 1 ELSE 0)
      /\ (Filter(ls[i], rs[j]) = "yes" => q[1] = <<ls[i], rs[j]>>)
  BY DEF Pairs
<1> HIDE DEF S, m, p, q
<1>5. /\ JoinedLen(p, j - 1) \in Nat
      /\ JoinedLen(p, j) = JoinedLen(p, j - 1) + Len(q)
  BY <1>2, JoinedLens
<1>6. w \in Nat /\ WithIt(ls[i], rs, j) = w + Len(q)
  BY <1>5 DEF WithIt, p
<1>7. ASSUME Filter(ls[i], rs[j]) = "yes"
      PROVE  a + w + 1 \in 1 .. Len(Joined(m)) /\ Joined(m)[a + w + 1] = <<ls[i], rs[j]>>
  <2>1. 1 \in 1 .. Len(p[j])
    BY <1>2, <1>4, <1>7
  <2>2. /\ JoinedLen(p, j - 1) + 1 \in 1 .. Len(Joined(p))
        /\ Joined(p)[JoinedLen(p, j - 1) + 1] = p[j][1]
    BY <1>2, <2>1, JoinedAt
  <2> DEFINE k == JoinedLen(p, j - 1) + 1
  <2>3. k \in 1 .. Len(m[i]) /\ m[i][k] = <<ls[i], rs[j]>>
    BY <1>2, <1>3, <1>4, <1>7, <2>2
  <2> HIDE DEF k
  <2>4. /\ JoinedLen(m, i - 1) + k \in 1 .. Len(Joined(m))
        /\ Joined(m)[JoinedLen(m, i - 1) + k] = m[i][k]
    BY <1>3, <2>3, JoinedAt
  <2>5. a \in Nat
    BY PairPlaces
  <2>6. JoinedLen(m, i - 1) = a /\ k = w + 1
    BY DEF AtPair, WithIt, m, p, k
  <2>7. JoinedLen(m, i - 1) + k = a + w + 1
    BY <1>6, <2>5, <2>6
  <2> QED BY <2>3, <2>4, <2>7
<1> QED BY <1>4, <1>6, <1>7 DEF m, q

-----------------------------------------------------------------------------
(* The join as a cursor                                                    *)

JoinRows == Joined(Matches(left.rows, right.rows))

LEMMA SelfIs ==
  /\ Self.rows = JoinRows /\ Self.pos = Position /\ Self.next = next_record
  /\ Self.call = call /\ Self.status = status
  BY DEF Self, JoinRows

LEMMA SelfIsNext ==
  /\ Self'.rows = JoinRows' /\ Self'.pos = Position' /\ Self'.next = next_record'
  /\ Self'.call = call' /\ Self'.status = status'
  BY DEF Self, JoinRows

\* A cursor is known by what it is made of.
SameParts(x, y) ==
  /\ x.rows = y.rows /\ x.pos = y.pos /\ x.next = y.next
  /\ x.call = y.call /\ x.status = y.status

LEMMA SameCursor ==
  ASSUME NEW x \in J!Cursors, NEW y \in J!Cursors, SameParts(x, y)
  PROVE  x = y
  BY DEF J!Cursors, SameParts

\* The calls of a caller, for the join.
LEMMA JoinCalled ==
  ASSUME NEW x \in J!Cursors
  PROVE  /\ J!Opening(x) \in J!Cursors /\ J!Opening(x).rows = x.rows
         /\ J!Opening(x).pos = 0 /\ J!Opening(x).next = x.next
         /\ J!Opening(x).call = "open" /\ J!Opening(x).status = "busy"
         /\ J!Rewinding(x) \in J!Cursors /\ J!Rewinding(x).rows = x.rows
         /\ J!Rewinding(x).pos = 0 /\ J!Rewinding(x).next = x.next
         /\ J!Rewinding(x).call = "rewind" /\ J!Rewinding(x).status = "busy"
         /\ J!Asked(x) \in J!Cursors /\ J!Asked(x).rows = x.rows
         /\ J!Asked(x).pos = x.pos /\ J!Asked(x).next = x.next
         /\ J!Asked(x).call = "fetch" /\ J!Asked(x).status = "busy"
         /\ J!Taken(x) \in J!Cursors /\ J!Taken(x).rows = x.rows
         /\ J!Taken(x).pos = x.pos /\ J!Taken(x).next = Null
         /\ J!Taken(x).call = x.call /\ J!Taken(x).status = x.status
  BY DEF J!Cursors, J!Calls, J!Statuses, J!Opening, J!Rewinding, J!Asked, J!Taken

\* Its answers.
LEMMA JoinAnswers ==
  ASSUME NEW x \in J!Cursors, NEW y \in J!Cursors,
         y.rows = x.rows, y.call = x.call,
         \/ /\ y.pos = x.pos /\ y.next = x.next
            /\ \/ y.status = "error"
               \/ y.status = "ok" /\ x.call # "fetch"
               \/ y.status = "oor" /\ x.call = "open"
               \/ y.status = "oor" /\ x.call = "fetch" /\ ~(x.pos < Len(x.rows))
         \/ /\ x.call = "fetch" /\ x.pos < Len(x.rows) /\ y.status = "ok"
            /\ y.pos = x.pos + 1 /\ y.next = x.rows[x.pos + 1]
  PROVE  y \in J!Answers(x)
<1>1. ASSUME NEW st \in J!Statuses, y.status = st, y.pos = x.pos, y.next = x.next
      PROVE  y = [x EXCEPT !.status = st]
  <2> DEFINE z == [x EXCEPT !.status = st]
  <2>1. z \in J!Cursors /\ SameParts(z, y)
    BY <1>1 DEF J!Cursors, SameParts
  <2> HIDE DEF z
  <2>2. z = y
    BY <2>1, SameCursor
  <2> QED BY <2>2 DEF z
<1>2. CASE x.call = "fetch" /\ x.pos < Len(x.rows) /\ y.status = "ok"
           /\ y.pos = x.pos + 1 /\ y.next = x.rows[x.pos + 1]
  <2> DEFINE r == x.rows[x.pos + 1]
             p == x.pos + 1
             z == [x EXCEPT !.pos = p, !.next = r, !.status = "ok"]
  <2>1. p \in Nat /\ r \in Row \X Row \cup {Null} /\ y.pos = p /\ y.next = r
    BY <1>2 DEF J!Cursors
  <2>2. z = J!Answered(x)
    BY <1>2 DEF J!Answered
  <2> HIDE DEF r, p
  <2>3. z \in J!Cursors /\ SameParts(z, y)
    BY <1>2, <2>1 DEF J!Cursors, J!Statuses, SameParts
  <2> HIDE DEF z
  <2>4. z = y
    BY <2>3, SameCursor
  <2> QED BY <2>2, <2>4 DEF J!Answers
<1>3. CASE y.status = "error" /\ y.pos = x.pos /\ y.next = x.next
  <2>1. y = [x EXCEPT !.status = "error"]
    BY <1>1, <1>3 DEF J!Statuses
  <2> QED BY <2>1 DEF J!Answers, J!Failed
<1>4. CASE y.status = "ok" /\ x.call # "fetch" /\ y.pos = x.pos /\ y.next = x.next
  <2>1. y = [x EXCEPT !.status = "ok"]
    BY <1>1, <1>4 DEF J!Statuses
  <2> QED BY <1>4, <2>1 DEF J!Answers, J!Answered
<1>5. CASE y.status = "oor" /\ x.call = "open" /\ y.pos = x.pos /\ y.next = x.next
  <2>1. y = [x EXCEPT !.status = "oor"]
    BY <1>1, <1>5 DEF J!Statuses
  <2> QED BY <1>5, <2>1 DEF J!Answers, J!Failed
<1>6. CASE /\ y.status = "oor" /\ x.call = "fetch" /\ ~(x.pos < Len(x.rows))
           /\ y.pos = x.pos /\ y.next = x.next
  <2>1. y = [x EXCEPT !.status = "oor"]
    BY <1>1, <1>6 DEF J!Statuses
  <2> QED BY <1>6, <2>1 DEF J!Answers, J!Answered
<1> QED BY <1>2, <1>3, <1>4, <1>5, <1>6

\* Where the join stands, in its two children's terms.
LEMMA PositionIs ==
  ASSUME IInv
  PROVE  /\ call # "fetch" => Position = 0
         /\ call = "fetch" /\ l_child_next = Null =>
              Position = AtPair(left.rows, right.rows, Done(left))
         /\ call = "fetch" /\ l_child_next # Null =>
              Position = AtPair(left.rows, right.rows, Done(left) - 1)
                         + WithIt(l_child_next, right.rows, Done(right))
  BY DEF Position, AtPair, WithIt

LEMMA PositionIsNext ==
  IInv' =>
    /\ call' # "fetch" => Position' = 0
    /\ call' = "fetch" /\ l_child_next' = Null =>
         Position' = AtPair(left'.rows, right'.rows, Done(left)')
    /\ call' = "fetch" /\ l_child_next' # Null =>
         Position' = AtPair(left'.rows, right'.rows, Done(left)' - 1)
                     + WithIt(l_child_next', right'.rows, Done(right)')
  BY DEF Position, AtPair, WithIt

\* The children's records stay as they are,
LEMMA RowsKept ==
  ASSUME IInv, Next
  PROVE  left'.rows = left.rows /\ right'.rows = right.rows /\ JoinRows' = JoinRows
<1>1. left'.rows = left.rows
  BY Called, ChildAnswers
     DEF Next, Caller, Step, Open, Rewind, FetchNext, Take, LeftReady, RightReady,
         AskLeft, LeftRecord, AskRight, RightRecord, RightOver, RightAgain,
         LeftFails, RightFails, OfLeft, OfRight, IInv, TypeOK, Followed
<1>2. right'.rows = right.rows
  BY Called, ChildAnswers
     DEF Next, Caller, Step, Open, Rewind, FetchNext, Take, LeftReady, RightReady,
         AskLeft, LeftRecord, AskRight, RightRecord, RightOver, RightAgain,
         LeftFails, RightFails, OfLeft, OfRight, IInv, TypeOK, Followed
<1> QED BY <1>1, <1>2 DEF JoinRows

LEMMA InitRefines ==
  ASSUME Init
  PROVE  J!Init
<1>1. PICK ls \in Inputs, rs \in Inputs : left = Closed(ls) /\ right = Closed(rs)
  BY DEF Init
<1>2. ls \in Seq(Row) /\ rs \in Seq(Row) /\ left.rows = ls /\ right.rows = rs
  BY <1>1, InputsAssumption DEF Closed
<1>3. JoinRows \in Seq(Row \X Row)
  BY <1>2, PairPlaces DEF JoinRows
<1>4. Position = 0
  BY DEF Position, Init
<1>5. Self.rows = JoinRows /\ Self = J!Closed(Self.rows)
  BY <1>4 DEF Init, Self, JoinRows, J!Closed
<1> QED BY <1>3, <1>5 DEF J!Init

\* How far the children are, in numbers of their records.
LEMMA DoneIs ==
  ASSUME IInv
  PROVE  /\ left.rows \in Seq(Row) /\ right.rows \in Seq(Row)
         /\ Len(left.rows) \in Nat /\ Len(right.rows) \in Nat
         /\ Done(left) \in 0 .. Len(left.rows)
         /\ Done(right) \in 0 .. Len(right.rows)
         /\ call = "fetch" /\ l_child_next # Null =>
              /\ Done(left) \in 1 .. Len(left.rows)
              /\ l_child_next = left.rows[Done(left)]
<1>1. /\ left.rows \in Seq(Row) /\ right.rows \in Seq(Row)
      /\ Len(left.rows) \in Nat /\ Len(right.rows) \in Nat
  BY LenProperties DEF IInv, TypeOK, Cursors
<1>2. left.pos \in Nat /\ right.pos \in Nat
  BY DEF IInv, TypeOK, Cursors
<1> QED BY <1>1, <1>2 DEF IInv, InStep, Recorded, Standing, Done

\* Numbers of pairs are numbers.
LEMMA PairNumbers ==
  ASSUME NEW ls \in Seq(Row), NEW rs \in Seq(Row)
  PROVE  /\ \A i \in 0 .. Len(ls) : AtPair(ls, rs, i) \in Nat
         /\ \A i \in 1 .. Len(ls) : \A j \in 0 .. Len(rs) : WithIt(ls[i], rs, j) \in Nat
<1>1. Len(ls) \in Nat /\ Len(rs) \in Nat
  BY LenProperties
<1>2. ASSUME NEW i \in 1 .. Len(ls), NEW j \in 0 .. Len(rs)
      PROVE  WithIt(ls[i], rs, j) \in Nat
  <2>1. CASE j = 0
    BY <2>1, PairPlaces
  <2>2. CASE j \in 1 .. Len(rs)
    <3>1. /\ WithIt(ls[i], rs, j - 1) \in Nat
          /\ WithIt(ls[i], rs, j) = WithIt(ls[i], rs, j - 1) + Len(Pairs(ls[i], rs[j]))
          /\ Len(Pairs(ls[i], rs[j])) \in Nat
      BY <2>2, PairFound
    <3> QED BY <3>1
  <2> QED BY <1>1, <2>1, <2>2
<1>3. ASSUME NEW i \in 0 .. Len(ls)
      PROVE  AtPair(ls, rs, i) \in Nat
  <2>1. CASE i = 0
    BY <2>1, PairPlaces
  <2>2. CASE i \in 1 .. Len(ls)
    <3>1. Len(rs) \in 0 .. Len(rs)
      BY <1>1
    <3>2. WithIt(ls[i], rs, Len(rs)) \in Nat
      BY <1>2, <2>2, <3>1
    <3>3. /\ AtPair(ls, rs, i - 1) \in Nat
          /\ AtPair(ls, rs, i) = AtPair(ls, rs, i - 1) + WithIt(ls[i], rs, Len(rs))
      BY <2>2, PairPlaces
    <3> QED BY <3>2, <3>3
  <2> QED BY <1>1, <2>1, <2>2
<1> QED BY <1>2, <1>3

JoinTyped == Self \in J!Cursors

LEMMA SelfTyped == IInv => JoinTyped
<1> SUFFICES ASSUME IInv PROVE Self \in J!Cursors
  BY DEF JoinTyped
<1>1. Position \in Nat
  <2>1. CASE call # "fetch"
    BY <2>1, PositionIs
  <2>2. CASE call = "fetch" /\ l_child_next = Null
    BY <2>2, PositionIs, DoneIs, PairNumbers
  <2>3. CASE call = "fetch" /\ l_child_next # Null
    <3>1. Done(left) - 1 \in 0 .. Len(left.rows)
      BY <2>3, DoneIs
    <3>2. AtPair(left.rows, right.rows, Done(left) - 1) \in Nat
      BY <3>1, DoneIs, PairNumbers
    <3>3. WithIt(l_child_next, right.rows, Done(right)) \in Nat
      BY <2>3, DoneIs, PairNumbers
    <3> QED BY <2>3, <3>2, <3>3, PositionIs
  <2> QED BY <2>1, <2>2, <2>3
<1>2. JoinRows \in Seq(Row \X Row)
  BY DoneIs, PairPlaces DEF JoinRows
<1>3. Self = [rows |-> JoinRows, pos |-> Position, next |-> next_record,
              call |-> call, status |-> status]
  BY DEF Self, JoinRows
<1>4. /\ next_record \in Row \X Row \cup {Null}
      /\ call \in J!Calls /\ status \in J!Statuses
  BY DEF IInv, TypeOK, Calls, Statuses, J!Calls, J!Statuses
<1> QED BY <1>1, <1>2, <1>3, <1>4 DEF J!Cursors

LEMMA SelfTypedNext == IInv' => Self' \in J!Cursors
<1>1. IInv' => JoinTyped'
  BY SelfTyped, PTL
<1> QED BY <1>1 DEF JoinTyped, J!Cursors, J!Calls, J!Statuses

\* A step within a call.
LEMMA Stutters ==
  ASSUME JoinRows' = JoinRows, Position' = Position,
         UNCHANGED <<next_record, call, status>>
  PROVE  Self' = Self
  BY DEF Self, JoinRows

\* The caller's steps are those of a cursor's caller.
LEMMA CallerRefines ==
  ASSUME IInv, IInv', Caller
  PROVE  J!Next
<1>1. Self \in J!Cursors /\ Self' \in J!Cursors /\ JoinRows' = JoinRows
  BY SelfTyped, SelfTypedNext, RowsKept DEF Next, JoinTyped
<1>2. CASE Open
  <2>1. Self.call = "none" /\ SameParts(Self', J!Opening(Self))
    BY <1>1, <1>2, SelfIs, SelfIsNext, JoinCalled, PositionIsNext DEF Open, SameParts
  <2>2. J!Opening(Self) \in J!Cursors
    BY <1>1, JoinCalled
  <2>3. Self' = J!Opening(Self)
    BY <1>1, <2>1, <2>2, SameCursor
  <2> QED BY <2>1, <2>3 DEF J!Next, J!Open
<1>3. CASE Rewind
  <2>1. J!Usable(Self) /\ SameParts(Self', J!Rewinding(Self))
    BY <1>1, <1>3, SelfIs, SelfIsNext, JoinCalled, PositionIsNext
       DEF Rewind, Idle, SameParts, J!Usable
  <2>2. J!Rewinding(Self) \in J!Cursors
    BY <1>1, JoinCalled
  <2>3. Self' = J!Rewinding(Self)
    BY <1>1, <2>1, <2>2, SameCursor
  <2> QED BY <2>1, <2>3 DEF J!Next, J!Rewind
<1>4. CASE FetchNext
  <2>1. /\ left' = left /\ right' = right /\ l_child_next' = l_child_next
        /\ call' = "fetch" /\ pc = "client" /\ call # "none"
    BY <1>4 DEF FetchNext, Idle, IInv, InStep, Turns
  <2>2. Position' = Position
    <3>1. CASE call = "fetch"
      BY <2>1, <3>1 DEF Position
    <3>2. CASE call # "fetch"
      <4>1. /\ l_child_next = Null /\ left.pos = 0 /\ left.next = Null
            /\ right.next = Null
        BY <1>4, <2>1, <3>2
           DEF FetchNext, IInv, TypeOK, InStep, AtRest, Askable, Usable, Calls
      <4>2. Done(left)' = 0
        BY <2>1, <4>1 DEF Done
      <4>3. Position' = AtPair(left'.rows, right'.rows, 0)
        BY <2>1, <4>1, <4>2, PositionIsNext
      <4>4. Position' = 0
        BY <2>1, <4>3, DoneIs, PairPlaces
      <4> QED BY <3>2, <4>4, PositionIs
    <3> QED BY <3>1, <3>2
  <2>3. J!Askable(Self) /\ SameParts(Self', J!Asked(Self))
    BY <1>1, <1>4, <2>2, SelfIs, SelfIsNext, JoinCalled
       DEF FetchNext, Idle, SameParts, J!Usable, J!Askable
  <2>4. J!Asked(Self) \in J!Cursors
    BY <1>1, JoinCalled
  <2>5. Self' = J!Asked(Self)
    BY <1>1, <2>3, <2>4, SameCursor
  <2> QED BY <2>3, <2>5 DEF J!Next, J!HasNext
<1>5. CASE Take
  <2>1. Position' = Position
    BY <1>5 DEF Take, Position
  <2>2. Self.next # Null /\ SameParts(Self', J!Taken(Self))
    BY <1>1, <1>5, <2>1, SelfIs, SelfIsNext, JoinCalled DEF Take, SameParts
  <2>3. J!Taken(Self) \in J!Cursors
    BY <1>1, JoinCalled
  <2>4. Self' = J!Taken(Self)
    BY <1>1, <2>2, <2>3, SameCursor
  <2> QED BY <2>2, <2>4 DEF J!Next, J!Take
<1> QED BY <1>2, <1>3, <1>4, <1>5 DEF Caller

\* The join's steps are its answers, or happen within a call.
LEMMA StepRefines ==
  ASSUME IInv, IInv', Step
  PROVE  J!Next \/ Self' = Self
<1>1. Self \in J!Cursors /\ Self' \in J!Cursors /\ JoinRows' = JoinRows
  BY SelfTyped, SelfTypedNext, RowsKept DEF Next, JoinTyped
<1>2. left'.rows = left.rows /\ right'.rows = right.rows
  BY RowsKept DEF Next
<1> DEFINE ls == left.rows
           rs == right.rows
<1>3. /\ ls \in Seq(Row) /\ rs \in Seq(Row) /\ Len(ls) \in Nat /\ Len(rs) \in Nat
      /\ left.pos \in Nat /\ right.pos \in Nat
  BY DoneIs DEF IInv, TypeOK, Cursors
<1> HIDE DEF ls, rs
<1>4. J!Answer <=> Self.status = "busy" /\ Self' \in J!Answers(Self)
  BY DEF J!Answer
<1>5. CASE LeftReady
  <2>1. Position' = Position
    BY <1>5 DEF LeftReady, Position
  <2> QED BY <1>1, <1>5, <2>1, Stutters DEF LeftReady
<1>6. CASE RightReady
  <2>1. /\ next_record' = Null /\ next_record = Null /\ status = "busy"
        /\ call # "fetch" /\ call' = call /\ status' = "ok"
    BY <1>6 DEF RightReady, Return, Forget, IInv, InStep, Turns
  <2>2. Position = 0 /\ Position' = 0
    BY <2>1, PositionIs, PositionIsNext
  <2>3. Self.status = "busy" /\ Self' \in J!Answers(Self)
    BY <1>1, <2>1, <2>2, SelfIs, SelfIsNext, JoinAnswers
  <2> QED BY <1>4, <2>3 DEF J!Next
<1>7. CASE AskLeft
  <2>1. /\ l_child_next = Null /\ l_child_next' = Null /\ left.next = Null
        /\ left'.next = Null /\ left'.pos = left.pos
    BY <1>7, Called DEF AskLeft, IInv, TypeOK, InStep, AtRest, Askable, Usable
  <2>2. Position' = Position
    BY <1>2, <1>7, <2>1 DEF AskLeft, Position, Done
  <2> QED BY <1>1, <1>7, <2>2, Stutters DEF AskLeft
<1>8. CASE LeftRecord
  <2>1. /\ l_child_next = Null /\ l_child_next' # Null /\ left.next # Null
        /\ left'.next = Null /\ left'.pos = left.pos /\ right' = right
        /\ right.pos = 0 /\ right.next = Null
        /\ call = "fetch" /\ call' = "fetch"
    BY <1>8, Called DEF LeftRecord, IInv, TypeOK, InStep, AtLeft, Askable, Usable
  <2>2. /\ Done(left) = left.pos - 1 /\ Done(left)' = left.pos /\ Done(right)' = 0
        /\ left.pos \in 1 .. Len(ls) /\ l_child_next' = ls[left.pos]
    BY <1>3, <1>8, <2>1
       DEF LeftRecord, IInv, InStep, Standing, Done, ls
  <2>3. Position = AtPair(ls, rs, left.pos - 1)
    BY <2>1, <2>2, PositionIs DEF ls, rs
  <2>4. Position' = AtPair(ls, rs, left.pos - 1) + WithIt(ls[left.pos], rs, 0)
    BY <1>2, <2>1, <2>2, PositionIsNext DEF ls, rs
  <2>5. Position' = Position
    BY <1>3, <2>2, <2>3, <2>4, PairPlaces
  <2> QED BY <1>1, <1>8, <2>5, Stutters DEF LeftRecord
<1>9. CASE AskRight
  <2>1. right.next = Null /\ right'.next = Null /\ right'.pos = right.pos
    BY <1>9, Called DEF AskRight, IInv, TypeOK, InStep, AtRest, Askable, Usable
  <2>2. Position' = Position
    BY <1>2, <1>9, <2>1 DEF AskRight, Position, Done
  <2> QED BY <1>1, <1>9, <2>2, Stutters DEF AskRight
<1>10. CASE RightRecord
  <2> DEFINE i == Done(left)
             j == right.pos
             a == AtPair(ls, rs, i - 1)
             w == WithIt(ls[i], rs, j - 1)
  <2>1. /\ call = "fetch" /\ status = "busy" /\ next_record = Null
        /\ l_child_next # Null /\ l_child_next' = l_child_next /\ left' = left
        /\ right.next # Null /\ right'.next = Null /\ right'.pos = right.pos
        /\ call' = call
    BY <1>10, Called
       DEF RightRecord, Return, IInv, TypeOK, InStep, Turns, AtRight
  <2>2. /\ i \in 1 .. Len(ls) /\ l_child_next = ls[i] /\ Done(left)' = i
        /\ j \in 1 .. Len(rs) /\ right.next = rs[j]
        /\ Done(right) = j - 1 /\ Done(right)' = j
    <3>1. i \in 1 .. Len(ls) /\ l_child_next = ls[i]
      BY <2>1, DoneIs DEF ls
    <3>2. j \in 1 .. Len(rs) /\ right.next = rs[j]
      BY <1>3, <2>1 DEF IInv, InStep, Standing, rs
    <3> QED BY <2>1, <3>1, <3>2 DEF Done
  <2>3. Position = a + w
    BY <2>1, <2>2, PositionIs DEF ls, rs
  <2>4. Position' = a + WithIt(ls[i], rs, j)
    BY <1>2, <2>1, <2>2, PositionIsNext DEF ls, rs
  <2>5. /\ a \in Nat /\ w \in Nat
        /\ WithIt(ls[i], rs, j) = w + Len(Pairs(ls[i], rs[j]))
        /\ Len(Pairs(ls[i], rs[j])) = IF Filter(ls[i], rs[j]) = "yes" THEN 1 ELSE 0
        /\ Filter(ls[i], rs[j]) = "yes" =>
             /\ a + w + 1 \in 1 .. Len(JoinRows)
             /\ JoinRows[a + w + 1] = <<ls[i], rs[j]>>
    BY <1>3, <2>2, PairPlaces, PairFound DEF JoinRows, ls, rs
  <2> HIDE DEF i, j, a, w
  <2>6. CASE Filter(ls[i], rs[j]) = "yes"
    <3>1. next_record' = <<ls[i], rs[j]>> /\ status' = "ok"
      BY <1>10, <2>2, <2>6 DEF RightRecord, Return, j
    <3>2. /\ Position' = Position + 1
          /\ Position + 1 \in 1 .. Len(JoinRows) /\ JoinRows[Position + 1] = <<ls[i], rs[j]>>
      BY <2>3, <2>4, <2>5, <2>6
    <3>3. JoinRows \in Seq(Row \X Row) /\ Len(JoinRows) \in Nat /\ Position \in Nat
      BY <1>1, SelfIs, LenProperties DEF J!Cursors
    <3>4. Position < Len(JoinRows)
      BY <3>2, <3>3
    <3>5. Self.status = "busy" /\ Self' \in J!Answers(Self)
      BY <1>1, <2>1, <3>1, <3>2, <3>4, SelfIs, SelfIsNext, JoinAnswers
    <3> QED BY <1>4, <3>5 DEF J!Next
  <2>7. CASE Filter(ls[i], rs[j]) # "yes"
    <3>1. UNCHANGED <<next_record, call, status>>
      BY <1>10, <2>2, <2>7 DEF RightRecord, j
    <3>2. Position' = Position
      BY <2>3, <2>4, <2>5, <2>7
    <3> QED BY <1>1, <3>1, <3>2, Stutters
  <2> QED BY <2>6, <2>7
<1>11. CASE RightOver
  <2> DEFINE i == Done(left)
  <2>1. /\ call = "fetch" /\ l_child_next # Null /\ l_child_next' = Null
        /\ left' = left /\ right.next = Null /\ right.pos = Len(rs) /\ call' = call
    BY <1>11 DEF RightOver, IInv, InStep, AtRight, Standing, rs
  <2>2. /\ i \in 1 .. Len(ls) /\ l_child_next = ls[i] /\ Done(left)' = i
        /\ Done(right) = Len(rs)
    <3>1. i \in 1 .. Len(ls) /\ l_child_next = ls[i]
      BY <2>1, DoneIs DEF ls
    <3> QED BY <2>1, <3>1 DEF Done
  <2>3. Position = AtPair(ls, rs, i - 1) + WithIt(ls[i], rs, Len(rs))
    BY <2>1, <2>2, PositionIs DEF ls, rs
  <2>4. Position' = AtPair(ls, rs, i)
    BY <1>2, <2>1, <2>2, PositionIsNext DEF ls, rs
  <2>5. Position' = Position
    BY <1>3, <2>2, <2>3, <2>4, PairPlaces
  <2> QED BY <1>1, <1>11, <2>5, Stutters DEF RightOver
<1>12. CASE RightAgain
  <2>1. Position' = Position
    BY <1>12 DEF RightAgain, Position
  <2> QED BY <1>1, <1>12, <2>1, Stutters DEF RightAgain
<1>13. CASE LeftFails
  <2>1. /\ Position' = Position /\ call' = call /\ next_record' = next_record
        /\ status = "busy" /\ status' = left.status
    BY <1>13 DEF LeftFails, Return, Position, IInv, InStep, Turns
  <2>2. \/ status' = "error"
        \/ status' = "oor" /\ call = "open"
        \/ status' = "oor" /\ call = "fetch" /\ ~(Position < Len(JoinRows))
    <3>1. CASE left.status = "oor" /\ call = "fetch"
      <4>1. left.next = Null /\ left.pos = Len(ls) /\ l_child_next = Null
        BY <1>13, <3>1 DEF LeftFails, IInv, InStep, AtLeft, Standing, ls
      <4>2. Position = AtPair(ls, rs, Len(ls))
        BY <3>1, <4>1, PositionIs DEF Done, ls, rs
      <4>3. Position = Len(JoinRows)
        BY <1>3, <4>2, PairPlaces DEF JoinRows, ls, rs
      <4>4. Position \in Nat
        BY <1>1, SelfIs DEF J!Cursors
      <4> QED BY <2>1, <3>1, <4>3, <4>4
    <3>2. left.status = "oor" /\ call # "fetch" => call = "open"
      BY <1>13 DEF LeftFails, IInv, TypeOK, InStep, AtLeft, Turns, Standing, Calls
    <3> QED BY <1>13, <2>1, <3>1, <3>2 DEF LeftFails
  <2>3. Self.status = "busy" /\ Self' \in J!Answers(Self)
    BY <1>1, <2>1, <2>2, SelfIs, SelfIsNext, JoinAnswers
  <2> QED BY <1>4, <2>3 DEF J!Next
<1>14. CASE RightFails
  <2>1. /\ Position' = Position /\ call' = call /\ next_record' = next_record
        /\ status = "busy" /\ status' = right.status
    BY <1>14 DEF RightFails, Return, Position, IInv, InStep, Turns
  <2>2. status' = "error" \/ (status' = "oor" /\ call = "open")
    BY <1>14, <2>1
       DEF RightFails, IInv, TypeOK, InStep, AtRight, Standing, Turns, Calls
  <2>3. Self.status = "busy" /\ Self' \in J!Answers(Self)
    BY <1>1, <2>1, <2>2, SelfIs, SelfIsNext, JoinAnswers
  <2> QED BY <1>4, <2>3 DEF J!Next
<1>15. CASE OfLeft
  <2>1. /\ Followed(left, left') /\ left.status = "busy" /\ pc = "left"
        /\ UNCHANGED <<right, l_child_next, next_record, call, status>>
    BY <1>15, ChildAnswers DEF OfLeft, L!Answer, IInv, InStep, Turns
  <2>2. left'.pos \in Nat /\ Done(left)' = Done(left)
    BY <1>3, <2>1 DEF Followed, Done, IInv, TypeOK, Cursors
  <2>3. Position' = Position
    BY <1>2, <2>1, <2>2, PositionIs, PositionIsNext
       DEF Position, IInv, InStep, AtLeft
  <2> QED BY <1>1, <2>1, <2>3, Stutters
<1>16. CASE OfRight
  <2>1. /\ Followed(right, right') /\ right.status = "busy" /\ pc \in {"right", "again"}
        /\ UNCHANGED <<left, l_child_next, next_record, call, status>>
    BY <1>16, ChildAnswers DEF OfRight, R!Answer, IInv, InStep, Turns
  <2>2. right'.pos \in Nat /\ Done(right)' = Done(right)
    BY <1>3, <2>1 DEF Followed, Done, IInv, TypeOK, Cursors
  <2>3. Done(left)' = Done(left)
    BY <2>1 DEF Done
  <2>4. Position' = Position
    BY <1>2, <2>1, <2>2, <2>3 DEF Position
  <2> QED BY <1>1, <2>1, <2>4, Stutters
<1> QED BY <1>5, <1>6, <1>7, <1>8, <1>9, <1>10, <1>11, <1>12, <1>13, <1>14,
           <1>15, <1>16 DEF Step

\* A join is a cursor over the pairs of records that match, left record by
\* left record: whatever its children hold and whenever they fail, each pair
\* is answered once and in its order, OutOfRange after the last of them and
\* not before, and all of it again after a Rewind.
THEOREM JoinRefines == Spec => JoinIsCursor
<1>1. Init => IInv
  BY InitStands
<1>2. IInv /\ [Next]_vars => IInv'
  BY NextKeeps
<1>3. Init => J!Init
  BY InitRefines
<1>4. IInv /\ IInv' /\ [Next]_vars => [J!Next]_Self
  <2>1. CASE UNCHANGED vars
    BY <2>1 DEF vars, Self, Position, Done
  <2> QED BY <2>1, CallerRefines, StepRefines DEF Next
<1> QED BY <1>1, <1>2, <1>3, <1>4, CalledRight, PTL DEF Spec, JoinIsCursor, J!Spec

=============================================================================
