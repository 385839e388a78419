------------------------------ MODULE Harness ------------------------------
(***************************************************************************)
(* The end-to-end test (src/e2e_tests/komfy_database.py, test_runner.py)   *)
(* and the database it runs as a child (TestRepl of                        *)
(* src/komfydb/database.cc): two processes, a pipe each way, two signals.  *)
(*                                                                         *)
(* A pipe keeps order and loses nothing, so what is in one is told by two  *)
(* counters: lines written and taken, pieces of output received, flushed   *)
(* and printed.  A piece is a part of a response, a statement [pieces,     *)
(* end] what TestRepl makes of a line.                                     *)
(***************************************************************************)
EXTENDS Integers, Sequences

CONSTANTS
  Script,     \* the scripts load may be given
  Queries,    \* the lists of queries the test may run
  InCap,      \* lines that fit in the child's stdin
  OutCap,     \* pieces that fit in its stdout
  BufCap,     \* pieces it buffers
  ReadCap     \* pieces one read takes

\* A line that does not parse prints nothing.
Statement ==
  {s \in [pieces : Nat, end : {"ok", "refused", "dies"}] :
     s.end = "refused" => s.pieces = 0}

ASSUME ScriptAssumption ==
  Script \subseteq Seq(Statement) /\ Queries \subseteq Seq(Statement)
ASSUME CapAssumption ==
  /\ InCap \in Nat \ {0} /\ OutCap \in Nat \ {0}
  /\ BufCap \in Nat \ {0} /\ ReadCap \in Nat \ {0}

VARIABLES
  script, queries,   \* chosen at the start
  parent,            \* what the test is doing
  flag,              \* QUERY_DONE_FLAG
  from,              \* where the response of the running execute begins
  loading_done,      \* SIGUSR1 is pending at the test
  query_done,        \* SIGUSR2 is
  written, taken,    \* lines written to the child, and taken by it
  child,             \* what the child is doing
  todo,              \* pieces of the line taken still to print
  mark,              \* where the output of the line taken begins
  printed, flushed, received   \* the output: printed, in the pipe, read

inputs == <<script, queries>>
parentVars == <<parent, flag, from>>
signals == <<loading_done, query_done>>
lines == <<written, taken>>
childVars == <<child, todo, mark>>
output == <<printed, flushed, received>>
vars == <<inputs, parentVars, signals, lines, childVars, output>>

Sync == Len(script) + 1
LastLine == Sync + Len(queries)
Line(k) == IF k < Sync THEN script[k] ELSE queries[k - Sync]

Loading == {"load", "sigwait", "drain"}
Executing == {"write", "read", "check", "reread"}
Ended == {"passed", "failed"}

Control ==
  /\ parent \in Loading \cup Executing \cup {"ready", "judge"} \cup Ended
  /\ child \in {"getline", "run", "flush", "kill", "dead", "gone"}
  /\ flag \in BOOLEAN
  /\ loading_done \in BOOLEAN /\ query_done \in BOOLEAN

Counts ==
  /\ from \in Nat /\ mark \in Nat /\ todo \in Nat
  /\ taken \in Nat /\ written \in taken .. taken + InCap
  /\ written <= LastLine
  /\ received \in Nat
  /\ flushed \in received .. received + OutCap
  /\ printed \in flushed .. flushed + BufCap

\* No pipe or buffer ever holds more than it can.
TypeOK == script \in Script /\ queries \in Queries /\ Control /\ Counts

Init ==
  /\ script \in Script /\ queries \in Queries
  /\ parent = "load" /\ flag = FALSE /\ from = 0
  /\ loading_done = FALSE /\ query_done = FALSE
  /\ written = 0 /\ taken = 0
  /\ child = "getline" /\ todo = 0 /\ mark = 0
  /\ printed = 0 /\ flushed = 0 /\ received = 0

-----------------------------------------------------------------------------
(* The child: TestRepl.                                                    *)

\* getline; SYNC is answered at once, a line that does not parse with the
\* signal only.
GetLine ==
  /\ child = "getline" /\ taken < written
  /\ taken' = taken + 1
  /\ IF taken' = Sync
     THEN loading_done' = TRUE /\ UNCHANGED childVars
     ELSE /\ child' = IF Line(taken').end = "refused" THEN "kill" ELSE "run"
          /\ todo' = Line(taken').pieces
          /\ mark' = printed
          /\ UNCHANGED loading_done
  /\ UNCHANGED <<inputs, parentVars, query_done, written, output>>

\* PythonExecute prints into the buffer of stdout.
PutPiece ==
  /\ child = "run" /\ todo > 0 /\ printed < flushed + BufCap
  /\ printed' = printed + 1 /\ todo' = todo - 1
  /\ UNCHANGED <<inputs, parentVars, signals, lines, child, mark, flushed, received>>

\* The buffer is written to the pipe when it is full or flushed; a full pipe
\* blocks the child.
Spill ==
  /\ \/ child = "run" /\ todo > 0 /\ printed = flushed + BufCap
     \/ child = "flush" /\ flushed < printed
  /\ flushed < received + OutCap
  /\ flushed' = flushed + 1
  /\ UNCHANGED <<inputs, parentVars, signals, lines, childVars, printed, received>>

\* The statement is over, or has ended the process.
RunDone ==
  /\ child = "run" /\ todo = 0
  /\ child' = IF Line(taken).end = "dies" THEN "dead" ELSE "flush"
  /\ UNCHANGED <<inputs, parentVars, signals, lines, todo, mark, output>>

FlushDone ==
  /\ child = "flush" /\ flushed = printed
  /\ child' = "kill"
  /\ UNCHANGED <<inputs, parentVars, signals, lines, todo, mark, output>>

\* Mutant: no signal for a line that does not parse.
Signal_NotRefused == query_done' = (query_done \/ Line(taken).end # "refused")

\* A signal already pending is not sent twice.
Signal == query_done' = TRUE

KillParent ==
  /\ child = "kill"
  /\ Signal
  /\ child' = "getline"
  /\ UNCHANGED <<inputs, parentVars, loading_done, lines, todo, mark, output>>

\* The test is over and its end of the pipe closed.
EndOfInput ==
  /\ child = "getline" /\ taken = written /\ parent \in Ended
  /\ child' = "gone"
  /\ UNCHANGED <<inputs, parentVars, signals, lines, todo, mark, output>>

-----------------------------------------------------------------------------
(* The test.  Python runs the handler of a pending signal before a system  *)
(* call is over for the program.                                           *)

query_done_handler ==
  /\ query_done /\ parent \notin Ended
  /\ query_done' = FALSE /\ flag' = TRUE
  /\ UNCHANGED <<inputs, parent, from, loading_done, lines, childVars, output>>

Delivered == ~query_done

\* A write blocks while the pipe is full, and fails when nobody will read it.
Write(next) ==
  /\ Delivered
  /\ \/ /\ child # "dead"
        /\ written < taken + InCap
        /\ written' = written + 1
        /\ parent' = next
     \/ child = "dead" /\ parent' = "failed" /\ UNCHANGED written
  /\ UNCHANGED <<inputs, flag, from, signals, taken, childVars, output>>

\* load: the whole script is written, and then SYNC.
Load == parent = "load" /\ Write(IF written + 1 = Sync THEN "sigwait" ELSE "load")

Sigwait ==
  /\ parent = "sigwait" /\ loading_done /\ Delivered
  /\ loading_done' = FALSE
  /\ parent' = "drain"
  /\ UNCHANGED <<inputs, flag, from, query_done, lines, childVars, output>>

\* A read of what is there, up to ReadCap; none does not block.
Read(some, none) ==
  /\ Delivered
  /\ received' = IF flushed < received + ReadCap THEN flushed ELSE received + ReadCap
  /\ parent' = IF received' = received THEN none ELSE some
  /\ UNCHANGED <<inputs, flag, from, signals, lines, childVars, printed, flushed>>

\* Mutant: one read is taken to be enough.
Drain_Once == parent = "drain" /\ Read("ready", "ready")

\* Mutant: the loop has no end.
Drain_Forever ==
  parent = "drain" /\ Read("drain", IF child = "dead" THEN "failed" ELSE "drain")

\* What the script printed is thrown away, and the child polled.
Drain == parent = "drain" /\ Read("drain", IF child = "dead" THEN "failed" ELSE "ready")

\* execute; the test is over after the last query.
Execute ==
  /\ parent = "ready" /\ written < LastLine
  /\ flag' = FALSE
  /\ from' = received
  /\ parent' = "write"
  /\ UNCHANGED <<inputs, signals, lines, childVars, output>>

WriteQuery == parent = "write" /\ Write("read")

\* The three conditions of the loop: a read, the flag, and a read again.
ReadResponse == parent = "read" /\ Read("read", "check")

\* Mutant: nothing is read once the flag is seen.
Seen_NoReread == "judge"

Seen == "reread"

CheckFlag ==
  /\ parent = "check"
  /\ parent' = IF flag THEN Seen ELSE "read"
  /\ UNCHANGED <<inputs, flag, from, signals, lines, childVars, output>>

ReadAgain == parent = "reread" /\ Read("read", "judge")

\* The response is what the line just taken has printed, all of it.
Whole ==
  /\ taken = written
  /\ from = mark
  /\ received = mark + Line(taken).pieces

\* literal_eval raises on a response that is empty or a part of one, and
\* run_test on a value other than SQLite's; either ends the test.
Judge ==
  /\ parent = "judge"
  /\ parent' = IF received # from /\ Whole THEN "ready" ELSE "failed"
  /\ UNCHANGED <<inputs, flag, from, signals, lines, childVars, output>>

Finish ==
  /\ parent = "ready" /\ written = LastLine
  /\ parent' = "passed"
  /\ UNCHANGED <<inputs, flag, from, signals, lines, childVars, output>>

-----------------------------------------------------------------------------
Child ==
  GetLine \/ PutPiece \/ Spill \/ RunDone \/ FlushDone \/ KillParent \/ EndOfInput

Parent ==
  \/ Load \/ Sigwait \/ Drain
  \/ Execute \/ WriteQuery \/ ReadResponse \/ CheckFlag \/ ReadAgain \/ Judge
  \/ Finish

\* Both processes have ended.
Over == parent \in Ended /\ child \in {"gone", "dead"} /\ UNCHANGED vars

Next == Child \/ Parent \/ query_done_handler \/ Over

\* Two processes that run, and a handler that does.
Spec ==
  /\ Init /\ [][Next]_vars
  /\ WF_vars(Child) /\ WF_vars(Parent) /\ WF_vars(query_done_handler)

-----------------------------------------------------------------------------
(* Properties *)

\* What execute makes a value of is what its query printed: no part is
\* missing and none belongs to another line, whenever the signal comes.
ResponseWhole == parent = "judge" => Whole

\* Between two calls nothing is under way: no output the next response could
\* be taken to begin with, and no signal that could be taken for its end.
QuietBetweenCalls ==
  parent = "ready" =>
    /\ child = "getline" /\ taken = written
    /\ received = printed
    /\ ~query_done /\ ~loading_done

\* load comes back with the script executed.  It writes all of it before it
\* reads, so this takes a pipe that holds all the script prints.
LoadReturns == parent \in Loading ~> parent = "ready"

\* execute comes back after any line, refused ones too, unless the line has
\* ended the child.
ExecuteReturns == parent \in Executing ~> parent = "judge" \/ child = "dead"

=============================================================================
