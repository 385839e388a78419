----------------------------- MODULE TableStore -----------------------------
(***************************************************************************)
(* What the storage layer of komfydb promises to the statements above it:  *)
(* a set of places for rows, each holding a tuple or nothing, changed in   *)
(* memory by one statement at a time and copied to stable storage at       *)
(* moments of the store's choosing.  A process that ends cleanly has       *)
(* copied everything; one that dies leaves what was copied.  Pages, the    *)
(* pool and its replacement policy do not appear.                          *)
(***************************************************************************)
EXTENDS Integers, Sequences

CONSTANTS
  Table,     \* table ids
  Place,     \* record ids
  Home,      \* the table of each record id
  Tuple,     \* what a row can be
  Empty      \* a place with no row

VARIABLES
  rows,      \* what queries see
  stable,    \* what a new process would see
  mode,      \* what the process is doing
  result,    \* how the last statement, or the process, ended
  table_id,  \* the table of the running statement
  todo,      \* tuples the running INSERT has not added yet
  doomed     \* record ids the running DELETE has not removed yet

vars == <<rows, stable, mode, result, table_id, todo, doomed>>

Init ==
  /\ rows = [r \in Place |-> Empty]
  /\ stable = rows
  /\ mode = "idle" /\ result = "none"
  /\ table_id \in Table
  /\ todo = <<>> /\ doomed = <<>>

\* Any rows may reach stable storage, as they were before the step.
WriteBack == /\ DOMAIN stable' = Place
             /\ \A r \in Place : stable'[r] = stable[r] \/ stable'[r] = rows[r]

Return(status) ==
  /\ mode' = "idle" /\ result' = status
  /\ todo' = <<>> /\ doomed' = <<>>
  /\ UNCHANGED table_id

Begin ==
  /\ mode = "idle"
  /\ mode' \in {"insert", "remove", "scan"} /\ result' = "none"
  /\ table_id' \in Table
  /\ mode' # "insert" => todo' = <<>>
  /\ mode' # "remove" => doomed' = <<>>
  /\ UNCHANGED <<rows, stable>>

\* The next k tuples go to distinct free places of the statement's table.
Add ==
  /\ mode = "insert"
  /\ \E k \in 0 .. Len(todo) :
       \E at \in [1 .. k -> {r \in Place : Home[r] = table_id /\ rows[r] = Empty}] :
         /\ \A i, j \in 1 .. k : at[i] = at[j] => i = j
         /\ DOMAIN rows' = Place
         /\ \A i \in 1 .. k : rows'[at[i]] = todo[i]
         /\ \A r \in Place : (\A i \in 1 .. k : at[i] # r) => rows'[r] = rows[r]
         /\ todo' = SubSeq(todo, k + 1, Len(todo))
  /\ WriteBack
  /\ UNCHANGED <<mode, result, table_id, doomed>>

Remove ==
  /\ mode = "remove" /\ doomed # <<>>
  /\ rows[Head(doomed)] # Empty
  /\ rows' = [rows EXCEPT ![Head(doomed)] = Empty]
  /\ doomed' = Tail(doomed)
  /\ WriteBack
  /\ UNCHANGED <<mode, result, table_id, todo>>

\* An INSERT ends when all its tuples are in; a DELETE when its rows are out,
\* or with an error at the first row that is not there.
Finish ==
  /\ \/ mode = "insert" /\ todo = <<>> /\ Return("ok")
     \/ mode = "remove" /\ doomed = <<>> /\ Return("ok")
     \/ mode = "remove" /\ doomed # <<>> /\ rows[Head(doomed)] = Empty /\ Return("error")
     \/ mode = "scan" /\ (Return("ok") \/ Return("error"))
  /\ WriteBack
  /\ UNCHANGED rows

\* Reading and shutting down may copy rows, and change none.
Copy ==
  /\ mode \in {"scan", "flush"}
  /\ WriteBack
  /\ UNCHANGED <<rows, mode, result, table_id, todo, doomed>>

Close ==
  /\ mode = "idle"
  /\ mode' = "flush" /\ result' = "none"
  /\ UNCHANGED <<rows, stable, table_id, todo, doomed>>

Stop(status) ==
  /\ mode' = "down" /\ result' = status
  /\ todo' = <<>> /\ doomed' = <<>>
  /\ UNCHANGED <<stable, table_id>>

\* The clean end loses nothing.
Closed == mode = "flush" /\ stable = rows /\ Stop("ok") /\ UNCHANGED rows

\* The unclean one keeps what was copied.
Die == mode # "down" /\ Stop("error") /\ rows' = stable

Start ==
  /\ mode = "down"
  /\ mode' = "idle" /\ result' = "none"
  /\ UNCHANGED <<rows, stable, table_id, todo, doomed>>

Next == Begin \/ Add \/ Remove \/ Finish \/ Copy \/ Close \/ Closed \/ Die \/ Start

Spec == Init /\ [][Next]_vars

=============================================================================
