----------------------------- MODULE JoinGraph -----------------------------
(***************************************************************************)
(* What planning the joins of a query promises: the joins taken one after  *)
(* the other are edges between its tables.  A plan over all tables comes   *)
(* out when they link all of them, an error when they leave some apart;    *)
(* a join between tables that are linked already ends the process.  How    *)
(* the linked tables are found again does not appear.                      *)
(***************************************************************************)
EXTENDS Integers, Sequences

CONSTANTS
  Alias,      \* the tables of the query, by their aliases
  Subquery,   \* in the place of a table: a join with the rows of a subquery
  JoinLists   \* what joins a query may have

VARIABLES
  joins,   \* the joins, from a table to a table or to a subquery
  made,    \* how many of them have been made
  plan,    \* the tables under the plan that came out
  status   \* "busy" until planning is over

vars == <<joins, made, plan, status>>

Init ==
  /\ joins \in JoinLists
  /\ made = 0 /\ plan = {} /\ status = "busy"

\* The joins made lead neither into S nor out of it.
Apart(S) ==
  \A i \in 1 .. made :
    joins[i].r # Subquery => (joins[i].l \in S <=> joins[i].r \in S)

\* They lead from a to b.
Linked(a, b) == \A S \in SUBSET Alias : Apart(S) /\ a \in S => b \in S

AllLinked == \A a, b \in Alias : Linked(a, b)

Now == joins[made + 1]

Planning == status = "busy" /\ made < Len(joins)

Join ==
  /\ Planning
  /\ Now.r = Subquery \/ ~Linked(Now.l, Now.r)
  /\ made' = made + 1
  /\ UNCHANGED <<joins, plan, status>>

\* Only a subquery can fail, by itself or by the type of its column.
SubqueryFails ==
  /\ Planning /\ Now.r = Subquery
  /\ status' \in {"error", "crash"}
  /\ UNCHANGED <<joins, made, plan>>

ClosesCycle ==
  /\ Planning /\ Now.r # Subquery /\ Linked(Now.l, Now.r)
  /\ status' = "crash"
  /\ UNCHANGED <<joins, made, plan>>

Finish ==
  /\ status = "busy" /\ made = Len(joins)
  /\ IF AllLinked THEN status' = "ok" /\ plan' = Alias
     ELSE status' = "error" /\ plan' = plan
  /\ UNCHANGED <<joins, made>>

Next == Join \/ SubqueryFails \/ ClosesCycle \/ Finish

Spec == Init /\ [][Next]_vars

=============================================================================
