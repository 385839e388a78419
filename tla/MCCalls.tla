------------------------------ MODULE MCCalls ------------------------------
(* Instances of NestedLoop, OneChild, TableScan and Subplans for TLC, side *)
(* by side: one of the four is called, and the others stay as they are.    *)
EXTENDS NestedLoop, OneChild, TableScan, Subplans, SequencesExt

VARIABLE called   \* the one: "join", "child", "scan" or "plan"

\* Records of one number; 0 has a field that is not set, and 3 one of
\* another type than its column's.
Records == 0 .. 3

UpToTwo == BoundedSeq(0 .. 2, 2)

UpToThree == BoundedSeq(Records, 3)

\* None, one, or two records on a page; up to three pages.
SmallTables == BoundedSeq(BoundedSeq({1, 2}, 2), 3)

\* Neither symmetric nor the same for every pair.
AtMost(l, r) == IF 0 \in {l, r} THEN "crash" ELSE IF l <= r THEN "yes" ELSE "no"

Odd(r) == IF r = 0 THEN "crash" ELSE IF r % 2 = 1 THEN "yes" ELSE "no"

Whole(r) == CASE r = 0 -> "error" [] r = 3 -> "crash" [] OTHER -> "yes"

Other(r) == 3 - r

MCLimits == 0 .. 3

FourTables == 1 .. 4

AnyJoin == {e \in [l : FourTables, r : FourTables \cup {Subquery}] : e.l # e.r}

FirstJoin == {e \in AnyJoin : e.l = 1 /\ e.r \in {2, Subquery}}

\* AddJoin refuses a second join of two tables.
Accepted(s) ==
  \A i, j \in 1 .. Len(s) :
    i < j /\ {s[i].l, s[i].r} = {s[j].l, s[j].r} => s[i].r = Subquery

\* Up to three joins, the first of them between two certain tables or with a
\* subquery: any other list is one of these with the tables renamed.
UpToThreeJoins ==
  {s \in {<<>>} \cup {<<e>> \o t : e \in FirstJoin, t \in BoundedSeq(AnyJoin, 2)} :
     Accepted(s)}

-----------------------------------------------------------------------------
JoinStill == Init /\ left.rows = <<>> /\ right.rows = <<>>

ChildStill == OpInit /\ kind = "limit" /\ limit = 0 /\ child.rows = <<>>

ScanStill == ScanInit /\ pages = <<>>

PlanStill == PlanInit /\ joins = <<>> /\ name = 1

MCInit ==
  \/ called = "join" /\ Init /\ ChildStill /\ ScanStill /\ PlanStill
  \/ called = "child" /\ OpInit /\ JoinStill /\ ScanStill /\ PlanStill
  \/ called = "scan" /\ ScanInit /\ JoinStill /\ ChildStill /\ PlanStill
  \/ called = "plan" /\ PlanInit /\ JoinStill /\ ChildStill /\ ScanStill

\* The step of one of the four.
Only(who, its, others) == called = who /\ its /\ UNCHANGED <<called, others>>

MCNext ==
  \/ Only("join", Next, <<op_vars, scan_vars, plan_vars>>)
  \/ Only("child", OpNext, <<vars, scan_vars, plan_vars>>)
  \/ Only("scan", ScanNext, <<vars, op_vars, plan_vars>>)
  \/ Only("plan", PlanNext, <<vars, op_vars, scan_vars>>)

MCSpec ==
  /\ MCInit /\ [][MCNext]_<<called, vars, op_vars, scan_vars, plan_vars>>
  /\ WF_vars(Step) /\ WF_op_vars(OpStep) /\ WF_scan_vars(ScanStep)
  /\ WF_plan_vars(called = "plan" /\ PlanNext)

\* Open, Rewind and FetchNext of every operator are answered, or the process
\* dies: their loops end, whatever the children answer.  So do the recursion of
\* GetEquiv and the planning that calls it.
EveryCallReturns ==
  /\ CallsReturn /\ OpCallsReturn /\ ScanCallsReturn
  /\ called = "plan" => PlanningEnds
=============================================================================
