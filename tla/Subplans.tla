------------------------------ MODULE Subplans ------------------------------
(***************************************************************************)
(* How LogicalPlan joins the tables of a query (ProcessJoinNodes and       *)
(* GetSubplanRoots in logical_plan.cc): a subplan for each class of tables *)
(* joined so far, found by union-find with path compression, and moved out *)
(* of its map while it is joined.  One step is one level of GetEquiv's     *)
(* recursion, or what lies between two calls of it.                        *)
(***************************************************************************)
EXTENDS Integers, Sequences, FiniteSets

CONSTANTS
  Alias,      \* the tables of the query, by their aliases
  Subquery,   \* in the place of a table: JoinNode::COL_SUB
  JoinLists   \* what joins a query may have

ASSUME AliasAssumption ==
  Alias # {} /\ IsFiniteSet(Alias) /\ Subquery \notin Alias

JoinNode == [l : Alias, r : Alias \cup {Subquery}]

ASSUME JoinListsAssumption == JoinLists \subseteq Seq(JoinNode)

VARIABLES
  joins,          \* joins
  join_ctr,       \* the one the loop is at, from 1
  equiv,          \* the alias each alias refers to
  subplans,       \* the tables under the subplan of an alias; {} is the null
                  \* pointer one that was moved out leaves
  ltable,         \* local variables of the loop
  lsubplan,
  finding,        \* what GetEquiv is called for: "left" or "right" of a join,
                  \* or a "root" at the end
  name,           \* the name the recursion is at, then the one it returns
  names,          \* those its callers are at
  unseen,         \* the aliases GetSubplanRoots has not come to
  subplan_roots,  \* what it has found
  plan,           \* the tables under the plan that came out
  plan_status,    \* "busy" until planning is over
  plan_pc         \* at the "loop", "find" or "back" in GetEquiv, a "subquery",
                  \* the "roots", or the "end"

find_vars == <<finding, name, names>>
root_vars == <<unseen, subplan_roots>>

plan_vars == <<joins, join_ctr, equiv, subplans, ltable, lsubplan, find_vars,
               root_vars, plan, plan_status, plan_pc>>

join == joins[join_ctr]

\* ProcessScanNodes.  The locals have no value yet.
PlanInit ==
  /\ joins \in JoinLists /\ join_ctr = 1
  /\ equiv = [a \in Alias |-> a]
  /\ subplans = [a \in Alias |-> {a}]
  /\ name \in Alias /\ ltable = name /\ lsubplan = {}
  /\ finding = "left" /\ names = <<>>
  /\ unseen = {} /\ subplan_roots = {}
  /\ plan = {} /\ plan_status = "busy" /\ plan_pc = "loop"

-----------------------------------------------------------------------------
(* GetEquiv.                                                               *)

Find(alias, for) ==
  finding' = for /\ name' = alias /\ names' = <<>> /\ plan_pc' = "find"

Descend ==
  /\ plan_pc = "find" /\ equiv[name] # name
  /\ name' = equiv[name] /\ names' = <<name>> \o names
  /\ UNCHANGED <<joins, join_ctr, equiv, subplans, ltable, lsubplan, finding,
                 root_vars, plan, plan_status, plan_pc>>

AtRoot ==
  /\ plan_pc = "find" /\ equiv[name] = name
  /\ plan_pc' = "back"
  /\ UNCHANGED <<joins, join_ctr, equiv, subplans, ltable, lsubplan, find_vars,
                 root_vars, plan, plan_status>>

\* Mutant: the root is referred to the name, and not the name to the root.
Compress_Swapped ==
  /\ plan_pc = "back" /\ names # <<>>
  /\ equiv' = [equiv EXCEPT ![name] = Head(names)] /\ names' = Tail(names)
  /\ UNCHANGED <<joins, join_ctr, subplans, ltable, lsubplan, finding, name,
                 root_vars, plan, plan_status, plan_pc>>

\* Each caller refers its name to the root.
Compress ==
  /\ plan_pc = "back" /\ names # <<>>
  /\ equiv' = [equiv EXCEPT ![Head(names)] = name] /\ names' = Tail(names)
  /\ UNCHANGED <<joins, join_ctr, subplans, ltable, lsubplan, finding, name,
                 root_vars, plan, plan_status, plan_pc>>

\* The first call returns name.
Found(for) == plan_pc = "back" /\ names = <<>> /\ finding = for

-----------------------------------------------------------------------------
(* ProcessJoinNodes.                                                       *)

End(st) == plan_status' = st /\ plan_pc' = "end"

TakeJoin ==
  /\ plan_pc = "loop" /\ join_ctr <= Len(joins)
  /\ Find(join.l, "left")
  /\ UNCHANGED <<joins, join_ctr, equiv, subplans, ltable, lsubplan,
                 root_vars, plan, plan_status>>

\* The left subplan is moved out before the right one is looked for.
MoveLeft ==
  /\ Found("left")
  /\ ltable' = name /\ lsubplan' = subplans[name]
  /\ subplans' = [subplans EXCEPT ![name] = {}]
  /\ IF join.r # Subquery THEN Find(join.r, "right")
     ELSE plan_pc' = "subquery" /\ UNCHANGED find_vars
  /\ UNCHANGED <<joins, join_ctr, equiv, root_vars, plan, plan_status>>

NextJoin ==
  /\ join_ctr' = join_ctr + 1 /\ plan_pc' = "loop"
  /\ UNCHANGED plan_status

\* InstatiateJoin takes the columns from the left subplan, then the right one: a
\* null pointer ends the process, and a column that is not there is an error.
\* The types were compared when the join was parsed.
Instantiate(l, r) ==
  IF join.l \in l /\ join.r \in r
  THEN /\ subplans' = [subplans EXCEPT ![name] = {}, ![ltable] = l \cup r]
       /\ NextJoin
  ELSE /\ subplans' = [subplans EXCEPT ![name] = {}]
       /\ End(IF l = {} \/ (join.l \in l /\ r = {}) THEN "crash" ELSE "error")
       /\ UNCHANGED join_ctr

\* Mutant: the left class is referred to the right one.
JoinTables_Reversed ==
  /\ Found("right")
  /\ equiv' = [equiv EXCEPT ![ltable] = name]
  /\ Instantiate(lsubplan, subplans[name])
  /\ UNCHANGED <<joins, ltable, lsubplan, find_vars, root_vars, plan>>

\* The right class is referred to the left one, and the subplans joined.
JoinTables ==
  /\ Found("right")
  /\ equiv' = [equiv EXCEPT ![name] = ltable]
  /\ Instantiate(lsubplan, subplans[name])
  /\ UNCHANGED <<joins, ltable, lsubplan, find_vars, root_vars, plan>>

\* The plan of a subquery adds no table of this query.
JoinSubquery ==
  /\ plan_pc = "subquery"
  /\ IF join.l \in lsubplan
     THEN subplans' = [subplans EXCEPT ![ltable] = lsubplan] /\ NextJoin
     ELSE /\ End(IF lsubplan = {} THEN "crash" ELSE "error")
          /\ UNCHANGED <<join_ctr, subplans>>
  /\ UNCHANGED <<joins, equiv, ltable, lsubplan, find_vars, root_vars, plan>>

\* It may not be planned, or be of another type than the column.
SubqueryFails ==
  /\ plan_pc = "subquery"
  /\ \E st \in {"error", "crash"} : End(st)
  /\ UNCHANGED <<joins, join_ctr, equiv, subplans, ltable, lsubplan, find_vars,
                 root_vars, plan>>

-----------------------------------------------------------------------------
(* GetSubplanRoots, and what GeneratePhysicalPlan makes of them.           *)

JoinsOver ==
  /\ plan_pc = "loop" /\ join_ctr > Len(joins)
  /\ unseen' = Alias /\ subplan_roots' = {} /\ plan_pc' = "roots"
  /\ UNCHANGED <<joins, join_ctr, equiv, subplans, ltable, lsubplan, find_vars,
                 plan, plan_status>>

\* In the order of the hash map.
NextAlias ==
  /\ plan_pc = "roots"
  /\ \E alias \in unseen : unseen' = unseen \ {alias} /\ Find(alias, "root")
  /\ UNCHANGED <<joins, join_ctr, equiv, subplans, ltable, lsubplan,
                 subplan_roots, plan, plan_status>>

KeepRoot ==
  /\ Found("root")
  /\ subplan_roots' = subplan_roots \cup {name} /\ plan_pc' = "roots"
  /\ UNCHANGED <<joins, join_ctr, equiv, subplans, ltable, lsubplan, find_vars,
                 unseen, plan, plan_status>>

\* The plan is moved out of the one root; more are a product of tables, which
\* is refused.
Finish ==
  /\ plan_pc = "roots" /\ unseen = {}
  /\ IF Cardinality(subplan_roots) = 1
     THEN /\ \E root \in subplan_roots :
               /\ plan' = subplans[root]
               /\ subplans' = [subplans EXCEPT ![root] = {}]
          /\ End("ok")
     ELSE End("error") /\ UNCHANGED <<plan, subplans>>
  /\ UNCHANGED <<joins, join_ctr, equiv, ltable, lsubplan, find_vars, root_vars>>

-----------------------------------------------------------------------------
PlanNext == \/ Descend \/ AtRoot \/ Compress
            \/ TakeJoin \/ MoveLeft \/ JoinTables \/ JoinSubquery \/ SubqueryFails
            \/ JoinsOver \/ NextAlias \/ KeepRoot \/ Finish

\* Planning is one call, which runs on.
PlanSpec == PlanInit /\ [][PlanNext]_plan_vars /\ WF_plan_vars(PlanNext)

-----------------------------------------------------------------------------
PlanTypeOK ==
  /\ joins \in Seq(JoinNode) /\ join_ctr \in 1 .. Len(joins) + 1
  /\ equiv \in [Alias -> Alias] /\ subplans \in [Alias -> SUBSET Alias]
  /\ ltable \in Alias /\ lsubplan \subseteq Alias
  /\ finding \in {"left", "right", "root"}
  /\ name \in Alias /\ names \in Seq(Alias)
  /\ unseen \subseteq Alias /\ subplan_roots \subseteq Alias
  /\ plan \subseteq Alias
  /\ plan_status \in {"busy", "ok", "error", "crash"}
  /\ plan_pc \in {"loop", "find", "back", "subquery", "roots", "end"}
  /\ plan_pc = "end" <=> plan_status # "busy"

InEquiv == plan_pc \in {"find", "back"}

IsRoot(a) == equiv[a] = a

\* The left subplan is in nobody's map.
InHand == plan_pc = "subquery" \/ (InEquiv /\ finding = "right")

\* The tables under the subplan of a root, wherever it is.
Held(a) == IF InHand /\ a = ltable THEN lsubplan ELSE subplans[a]

\* Every table is under one subplan, that of the root it refers to, and every
\* other subplan has been moved out.
OneSubplanEach ==
  /\ \A a \in Alias : IF IsRoot(a) THEN a \in Held(a) ELSE Held(a) = {}
  /\ \A a, b \in Alias : a # b => Held(a) \cap Held(b) = {}
  /\ \A a \in Alias : \E b \in Alias : a \in Held(b)
  /\ \A a, b \in Alias : a \in Held(b) <=> equiv[a] \in Held(b)

\* The tables of a subplan are joined to each other, and to no other.
Apart(S) ==
  \A i \in 1 .. join_ctr - 1 :
    joins[i].r # Subquery => (joins[i].l \in S <=> joins[i].r \in S)

SubplansJoined ==
  /\ \A a \in Alias : Apart(Held(a))
  /\ \A S \in SUBSET Alias :
       Apart(S) => \A a \in Alias : Held(a) \subseteq S \/ Held(a) \cap S = {}

\* GetEquiv goes from name to name of one class, and comes back with its root.
PathSound ==
  /\ InEquiv =>
       \A k \in 1 .. Len(names) :
         /\ ~IsRoot(names[k])
         /\ \A a \in Alias : names[k] \in Held(a) <=> name \in Held(a)
  /\ plan_pc = "back" => IsRoot(name)

\* The class is that of the table the join names.
StartSound ==
  InEquiv /\ finding # "root" =>
    LET start == IF finding = "left" THEN join.l ELSE join.r
    IN /\ join_ctr <= Len(joins) /\ start \in Alias
       /\ \A a \in Alias : start \in Held(a) <=> name \in Held(a)

\* The left subplan stays in hand until the join is made.
HandSound ==
  /\ InHand => /\ join_ctr <= Len(joins)
               /\ IsRoot(ltable) /\ subplans[ltable] = {}
               /\ join.l \in lsubplan
  /\ plan_pc = "subquery" => join.r = Subquery

\* A root GetSubplanRoots has passed is kept, or being kept.
RootsSound ==
  plan_pc = "roots" \/ (InEquiv /\ finding = "root") =>
    /\ join_ctr = Len(joins) + 1
    /\ \A a \in subplan_roots : IsRoot(a)
    /\ \A a \in Alias \ (unseen \cup subplan_roots) :
         IsRoot(a) => InEquiv /\ name = a

\* The inductive invariant, while planning goes on.
PlanIInv ==
  /\ PlanTypeOK
  /\ plan_status = "busy" =>
       /\ OneSubplanEach /\ SubplansJoined
       /\ PathSound /\ StartSound /\ HandSound /\ RootsSound

G == INSTANCE JoinGraph WITH made <- join_ctr - 1, status <- plan_status

\* Whether a query is planned, refused, or ends the process, depends on its
\* joins as edges between its tables only, and the plan is over all of them.
PlannedByGraph == G!Spec

\* GetEquiv's recursion ends, and planning with it.
PlanningEnds == <>(plan_status # "busy")

=============================================================================
