--------------------------- MODULE HarnessProofs ---------------------------
(***************************************************************************)
(* Whatever the scripts, the queries and the capacities, a call of execute *)
(* comes back with the response of its query, and nothing is under way     *)
(* between two calls.                                                      *)
(***************************************************************************)
EXTENDS Harness, TLAPS

\* Where the child stands: how much of its line is printed, and that all of
\* it is in the pipe before the signal is sent.
ChildSound ==
  /\ taken <= written
  /\ child \in {"run", "flush", "kill", "dead"} =>
       /\ taken # 0 /\ taken # Sync
       /\ printed + todo = mark + Line(taken).pieces
  /\ child \in {"flush", "kill", "getline", "gone"} => todo = 0
  /\ child \in {"kill", "getline", "gone"} => flushed = printed
  /\ child = "gone" => parent \in Ended

\* The child has nothing to do and the test has no signal coming.
Idle == child = "getline" /\ taken = written /\ ~query_done

\* The script: SIGUSR1 comes when all of it is done.
LoadSound ==
  /\ parent = "load" => written < Sync
  /\ parent = "sigwait" => written = Sync
  /\ parent \notin {"load", "sigwait"} \cup Ended => written >= Sync
  /\ loading_done => /\ parent = "sigwait"
                     /\ child = "getline" /\ taken = written
  /\ parent = "drain" => Idle
  /\ parent = "ready" => Idle /\ received = printed
  /\ parent \in Ended =>
       /\ child \in {"getline", "gone", "dead"}
       /\ child = "getline" => taken = written

\* A call: before its line is taken all is quiet; after, the response begins
\* where the output of the line does, and the signal or the flag, never both,
\* says that the line is done with.
CallSound ==
  /\ parent = "write" =>
       /\ Idle /\ ~flag /\ written < LastLine
       /\ from = received /\ received = printed
  /\ parent \in {"read", "check", "reread", "judge"} =>
       /\ written > Sync
       /\ taken = written \/ taken = written - 1
       /\ taken # written => /\ child = "getline" /\ ~flag /\ ~query_done
                             /\ from = received /\ received = printed
       /\ taken = written => from = mark
       /\ child = "getline" /\ taken = written =>
            /\ printed = mark + Line(taken).pieces
            /\ flag \/ query_done
            /\ ~(flag /\ query_done)
       /\ flag \/ query_done => child = "getline" /\ taken = written
  /\ parent = "reread" => flag
  /\ parent = "judge" => flag /\ received = printed

IInv == TypeOK /\ ChildSound /\ LoadSound /\ CallSound

\* What the types of the inputs say of a line.
LEMMA LineType ==
  ASSUME TypeOK, NEW k \in Nat, 0 < k, k <= LastLine, k # Sync
  PROVE  Line(k) \in Statement /\ Line(k).pieces \in Nat
<1>1. script \in Seq(Statement) /\ queries \in Seq(Statement)
  BY ScriptAssumption DEF TypeOK
<1>2. Line(k) \in Statement
  <2>1. CASE k < Sync
    BY <1>1, <2>1 DEF Line, Sync
  <2>2. CASE k > Sync
    <3>1. k - Sync \in 1 .. Len(queries)
      BY <2>2 DEF Sync, LastLine
    <3>2. QED BY <1>1, <3>1 DEF Line, Sync
  <2>3. QED BY <2>1, <2>2 DEF Sync
<1>3. QED BY <1>2 DEF Statement

LEMMA LinesNat ==
  ASSUME TypeOK
  PROVE  Sync \in Nat \ {0} /\ LastLine \in Nat /\ LastLine >= Sync
<1>1. QED BY DEF Sync, LastLine

LEMMA InputsKept ==
  ASSUME UNCHANGED inputs
  PROVE  /\ Sync' = Sync /\ LastLine' = LastLine
         /\ \A k : Line(k)' = Line(k)
BY DEF inputs, Sync, LastLine, Line

LEMMA InitInv == Init => IInv
<1>1. SUFFICES ASSUME Init PROVE IInv
  OBVIOUS
<1>2. TypeOK
  <2>1. Control
    BY <1>1 DEF Init, Control, Loading
  <2>2. Counts
    BY <1>1, CapAssumption DEF Init, Counts, LastLine, Sync
  <2>3. QED BY <1>1, <2>1, <2>2 DEF Init, TypeOK
<1>3. ChildSound /\ LoadSound /\ CallSound
  BY <1>1 DEF Init, ChildSound, LoadSound, CallSound, Sync
<1>4. QED BY <1>2, <1>3 DEF IInv

-----------------------------------------------------------------------------
(* The steps of the child.                                                 *)

LEMMA GetLineInv == IInv /\ GetLine => IInv'
<1>1. SUFFICES ASSUME IInv, GetLine PROVE IInv'
  OBVIOUS
<1>2. Sync' = Sync /\ LastLine' = LastLine /\ \A k : Line(k)' = Line(k)
  BY <1>1, InputsKept DEF GetLine
<1>3. Sync \in Nat \ {0} /\ LastLine \in Nat
  BY <1>1, LinesNat DEF IInv
<1>4. taken' # Sync => Line(taken') \in Statement /\ Line(taken').pieces \in Nat
  BY <1>1, <1>3, LineType DEF IInv, TypeOK, Counts, GetLine
<1>5. taken' # Sync /\ Line(taken').end = "refused" => Line(taken').pieces = 0
  BY <1>4 DEF Statement
<1>6. TypeOK'
  <2>1. Control'
    BY <1>1 DEF IInv, TypeOK, Control, GetLine, parentVars, childVars
  <2>2. Counts'
    BY <1>1, <1>2, <1>4, CapAssumption
    DEF IInv, TypeOK, Counts, GetLine, parentVars, childVars, output
  <2>3. QED BY <1>1, <2>1, <2>2 DEF IInv, TypeOK, GetLine, inputs
<1>7. ChildSound'
  BY <1>1, <1>2, <1>5
  DEF IInv, TypeOK, Counts, ChildSound, GetLine, childVars, output
<1>8. LoadSound'
  <2>1. taken' = Sync => parent = "sigwait" /\ written = Sync
    BY <1>1
    DEF IInv, TypeOK, Control, Counts, LoadSound, CallSound, Idle, GetLine, Loading,
        Executing
  <2>2. parent \notin {"drain", "ready"} \cup Ended
    BY <1>1 DEF IInv, TypeOK, Counts, LoadSound, Idle, GetLine
  <2>3. QED
    BY <1>1, <1>2, <1>3, <2>1, <2>2
    DEF IInv, LoadSound, GetLine, parentVars, childVars
<1>9. CallSound'
  BY <1>1, <1>2 DEF IInv, TypeOK, Counts, CallSound, Idle, GetLine, parentVars
<1>10. QED BY <1>6, <1>7, <1>8, <1>9 DEF IInv

LEMMA PutPieceInv == IInv /\ PutPiece => IInv'
<1>1. SUFFICES ASSUME IInv, PutPiece PROVE IInv'
  OBVIOUS
<1>2. Sync' = Sync /\ LastLine' = LastLine /\ \A k : Line(k)' = Line(k)
  BY <1>1, InputsKept DEF PutPiece
<1>3. TypeOK'
  <2>1. Control'
    BY <1>1 DEF IInv, TypeOK, Control, PutPiece, parentVars, signals
  <2>2. Counts'
    BY <1>1, <1>2, CapAssumption DEF IInv, TypeOK, Counts, PutPiece, parentVars, lines
  <2>3. QED BY <1>1, <2>1, <2>2 DEF IInv, TypeOK, PutPiece, inputs
<1>4. ChildSound'
  BY <1>1, <1>2 DEF IInv, TypeOK, Counts, ChildSound, PutPiece, lines
<1>5. LoadSound'
  BY <1>1, <1>2 DEF IInv, LoadSound, Idle, PutPiece, parentVars, signals, lines
<1>6. CallSound'
  BY <1>1, <1>2 DEF IInv, CallSound, Idle, PutPiece, parentVars, signals, lines
<1>7. QED BY <1>3, <1>4, <1>5, <1>6 DEF IInv

LEMMA SpillInv == IInv /\ Spill => IInv'
<1>1. SUFFICES ASSUME IInv, Spill PROVE IInv'
  OBVIOUS
<1>2. Sync' = Sync /\ LastLine' = LastLine /\ \A k : Line(k)' = Line(k)
  BY <1>1, InputsKept DEF Spill
<1>3. TypeOK'
  <2>1. Control'
    BY <1>1 DEF IInv, TypeOK, Control, Spill, parentVars, signals, childVars
  <2>2. Counts'
    BY <1>1, <1>2, CapAssumption
    DEF IInv, TypeOK, Counts, Spill, parentVars, lines, childVars
  <2>3. QED BY <1>1, <2>1, <2>2 DEF IInv, TypeOK, Spill, inputs
<1>4. ChildSound'
  BY <1>1, <1>2 DEF IInv, ChildSound, Spill, lines, childVars
<1>5. LoadSound'
  BY <1>1, <1>2 DEF IInv, LoadSound, Idle, Spill, parentVars, signals, lines
<1>6. CallSound'
  BY <1>1, <1>2, CapAssumption
  DEF IInv, TypeOK, Counts, CallSound, Spill, parentVars, signals, lines, childVars
<1>7. QED BY <1>3, <1>4, <1>5, <1>6 DEF IInv

LEMMA RunDoneInv == IInv /\ RunDone => IInv'
<1>1. SUFFICES ASSUME IInv, RunDone PROVE IInv'
  OBVIOUS
<1>2. Sync' = Sync /\ LastLine' = LastLine /\ \A k : Line(k)' = Line(k)
  BY <1>1, InputsKept DEF RunDone
<1>3. TypeOK'
  <2>1. Control'
    BY <1>1 DEF IInv, TypeOK, Control, RunDone, parentVars, signals
  <2>2. Counts'
    BY <1>1, <1>2 DEF IInv, TypeOK, Counts, RunDone, parentVars, lines, output
  <2>3. QED BY <1>1, <2>1, <2>2 DEF IInv, TypeOK, RunDone, inputs
<1>4. ChildSound'
  BY <1>1, <1>2 DEF IInv, ChildSound, RunDone, lines, output
<1>5. LoadSound'
  BY <1>1, <1>2 DEF IInv, LoadSound, Idle, RunDone, parentVars, signals, lines
<1>6. CallSound'
  BY <1>1, <1>2
  DEF IInv, CallSound, Idle, RunDone, parentVars, signals, lines
<1>7. QED BY <1>3, <1>4, <1>5, <1>6 DEF IInv

LEMMA FlushDoneInv == IInv /\ FlushDone => IInv'
<1>1. SUFFICES ASSUME IInv, FlushDone PROVE IInv'
  OBVIOUS
<1>2. Sync' = Sync /\ LastLine' = LastLine /\ \A k : Line(k)' = Line(k)
  BY <1>1, InputsKept DEF FlushDone
<1>3. TypeOK'
  <2>1. Control'
    BY <1>1 DEF IInv, TypeOK, Control, FlushDone, parentVars, signals
  <2>2. Counts'
    BY <1>1, <1>2 DEF IInv, TypeOK, Counts, FlushDone, parentVars, lines, output
  <2>3. QED BY <1>1, <2>1, <2>2 DEF IInv, TypeOK, FlushDone, inputs
<1>4. ChildSound'
  BY <1>1, <1>2 DEF IInv, ChildSound, FlushDone, lines, output
<1>5. LoadSound'
  BY <1>1, <1>2 DEF IInv, LoadSound, Idle, FlushDone, parentVars, signals, lines
<1>6. CallSound'
  BY <1>1, <1>2 DEF IInv, CallSound, Idle, FlushDone, parentVars, signals, lines
<1>7. QED BY <1>3, <1>4, <1>5, <1>6 DEF IInv

LEMMA KillParentInv == IInv /\ KillParent => IInv'
<1>1. SUFFICES ASSUME IInv, KillParent PROVE IInv'
  OBVIOUS
<1>2. Sync' = Sync /\ LastLine' = LastLine /\ \A k : Line(k)' = Line(k)
  BY <1>1, InputsKept DEF KillParent
<1>3. TypeOK'
  <2>1. Control'
    BY <1>1 DEF IInv, TypeOK, Control, KillParent, Signal, parentVars
  <2>2. Counts'
    BY <1>1, <1>2 DEF IInv, TypeOK, Counts, KillParent, parentVars, lines, output
  <2>3. QED BY <1>1, <2>1, <2>2 DEF IInv, TypeOK, KillParent, inputs
<1>4. ChildSound'
  BY <1>1 DEF IInv, ChildSound, KillParent, lines, output
<1>5. LoadSound'
  BY <1>1, <1>2 DEF IInv, LoadSound, Idle, KillParent, parentVars, lines
<1>6. CallSound'
  BY <1>1, <1>2
  DEF IInv, TypeOK, Counts, ChildSound, CallSound, Idle, KillParent, Signal,
      parentVars, lines, output
<1>7. QED BY <1>3, <1>4, <1>5, <1>6 DEF IInv

LEMMA EndOfInputInv == IInv /\ EndOfInput => IInv'
<1>1. SUFFICES ASSUME IInv, EndOfInput PROVE IInv'
  OBVIOUS
<1>2. Sync' = Sync /\ LastLine' = LastLine /\ \A k : Line(k)' = Line(k)
  BY <1>1, InputsKept DEF EndOfInput
<1>3. TypeOK'
  <2>1. Control'
    BY <1>1 DEF IInv, TypeOK, Control, EndOfInput, parentVars, signals
  <2>2. Counts'
    BY <1>1, <1>2 DEF IInv, TypeOK, Counts, EndOfInput, parentVars, lines, output
  <2>3. QED BY <1>1, <2>1, <2>2 DEF IInv, TypeOK, EndOfInput, inputs
<1>4. ChildSound'
  BY <1>1 DEF IInv, ChildSound, EndOfInput, parentVars, lines, output
<1>5. LoadSound'
  BY <1>1 DEF IInv, LoadSound, EndOfInput, Ended, parentVars, signals
<1>6. CallSound'
  BY <1>1 DEF CallSound, EndOfInput, Ended, parentVars
<1>7. QED BY <1>3, <1>4, <1>5, <1>6 DEF IInv

LEMMA HandlerInv == IInv /\ query_done_handler => IInv'
<1>1. SUFFICES ASSUME IInv, query_done_handler PROVE IInv'
  OBVIOUS
<1>2. Sync' = Sync /\ LastLine' = LastLine /\ \A k : Line(k)' = Line(k)
  BY <1>1, InputsKept DEF query_done_handler
<1>3. TypeOK'
  <2>1. Control'
    BY <1>1 DEF IInv, TypeOK, Control, query_done_handler, childVars
  <2>2. Counts'
    BY <1>1, <1>2
    DEF IInv, TypeOK, Counts, query_done_handler, lines, childVars, output
  <2>3. QED BY <1>1, <2>1, <2>2 DEF IInv, TypeOK, query_done_handler, inputs
<1>4. ChildSound'
  BY <1>1, <1>2 DEF IInv, ChildSound, query_done_handler, lines, childVars, output
<1>5. LoadSound'
  BY <1>1, <1>2 DEF IInv, LoadSound, Idle, query_done_handler, lines, childVars
<1>6. CallSound'
  BY <1>1, <1>2
  DEF IInv, CallSound, Idle, query_done_handler, lines, childVars, output
<1>7. QED BY <1>3, <1>4, <1>5, <1>6 DEF IInv

LEMMA LoadInv == IInv /\ Load => IInv'
<1>1. SUFFICES ASSUME IInv, Load PROVE IInv'
  OBVIOUS
<1>2. Sync' = Sync /\ LastLine' = LastLine /\ \A k : Line(k)' = Line(k)
  BY <1>1, InputsKept DEF Load, Write
<1>3. Sync \in Nat \ {0} /\ LastLine \in Nat /\ LastLine >= Sync
  BY <1>1, LinesNat DEF IInv
<1>4. TypeOK'
  <2>1. Control'
    BY <1>1
    DEF IInv, TypeOK, Control, Load, Write, signals, childVars, Loading, Ended
  <2>2. Counts'
    BY <1>1, <1>2, <1>3, CapAssumption
    DEF IInv, TypeOK, Counts, LoadSound, Load, Write, childVars, output
  <2>3. QED BY <1>1, <2>1, <2>2 DEF IInv, TypeOK, Load, Write, inputs
<1>5. ChildSound'
  BY <1>1, <1>2
  DEF IInv, TypeOK, Counts, ChildSound, Load, Write, Ended, childVars, output
<1>6. LoadSound'
  BY <1>1, <1>2, <1>3
  DEF IInv, TypeOK, Counts, LoadSound, Load, Write, Ended, signals, childVars
<1>7. CallSound'
  BY <1>1 DEF CallSound, Load, Write
<1>8. QED BY <1>4, <1>5, <1>6, <1>7 DEF IInv

LEMMA SigwaitInv == IInv /\ Sigwait => IInv'
<1>1. SUFFICES ASSUME IInv, Sigwait PROVE IInv'
  OBVIOUS
<1>2. Sync' = Sync /\ LastLine' = LastLine /\ \A k : Line(k)' = Line(k)
  BY <1>1, InputsKept DEF Sigwait
<1>3. Sync \in Nat \ {0} /\ LastLine \in Nat /\ LastLine >= Sync
  BY <1>1, LinesNat DEF IInv
<1>4. TypeOK'
  <2>1. Control'
    BY <1>1 DEF IInv, TypeOK, Control, Sigwait, childVars, Loading
  <2>2. Counts'
    BY <1>1, <1>2 DEF IInv, TypeOK, Counts, Sigwait, lines, childVars, output
  <2>3. QED BY <1>1, <2>1, <2>2 DEF IInv, TypeOK, Sigwait, inputs
<1>5. ChildSound'
  BY <1>1 DEF IInv, ChildSound, LoadSound, Sigwait, lines, childVars, output
<1>6. LoadSound'
  BY <1>1, <1>2, <1>3
  DEF IInv, LoadSound, Idle, Sigwait, Delivered, lines, childVars
<1>7. CallSound'
  BY <1>1 DEF CallSound, Sigwait
<1>8. QED BY <1>4, <1>5, <1>6, <1>7 DEF IInv

LEMMA DrainInv == IInv /\ Drain => IInv'
<1>1. SUFFICES ASSUME IInv, Drain PROVE IInv'
  OBVIOUS
<1>2. Sync' = Sync /\ LastLine' = LastLine /\ \A k : Line(k)' = Line(k)
  BY <1>1, InputsKept DEF Drain, Read
<1>3. TypeOK'
  <2>1. Control'
    BY <1>1 DEF IInv, TypeOK, Control, Drain, Read, signals, childVars, Ended
  <2>2. Counts'
    BY <1>1, <1>2, CapAssumption
    DEF IInv, TypeOK, Counts, Drain, Read, lines, childVars
  <2>3. QED BY <1>1, <2>1, <2>2 DEF IInv, TypeOK, Drain, Read, inputs
<1>4. ChildSound'
  BY <1>1 DEF IInv, ChildSound, LoadSound, Idle, Drain, Read, lines, childVars
<1>5. LoadSound'
  BY <1>1, <1>2, CapAssumption
  DEF IInv, TypeOK, Counts, ChildSound, LoadSound, Idle, Drain, Read, Ended, signals,
      lines, childVars
<1>6. CallSound'
  BY <1>1 DEF CallSound, Drain, Read
<1>7. QED BY <1>3, <1>4, <1>5, <1>6 DEF IInv

LEMMA ExecuteInv == IInv /\ Execute => IInv'
<1>1. SUFFICES ASSUME IInv, Execute PROVE IInv'
  OBVIOUS
<1>2. Sync' = Sync /\ LastLine' = LastLine /\ \A k : Line(k)' = Line(k)
  BY <1>1, InputsKept DEF Execute
<1>3. TypeOK'
  <2>1. Control'
    BY <1>1 DEF IInv, TypeOK, Control, Execute, signals, childVars, Executing
  <2>2. Counts'
    BY <1>1, <1>2 DEF IInv, TypeOK, Counts, Execute, lines, childVars, output
  <2>3. QED BY <1>1, <2>1, <2>2 DEF IInv, TypeOK, Execute, inputs
<1>4. ChildSound'
  BY <1>1 DEF IInv, ChildSound, LoadSound, Idle, Execute, lines, childVars, output
<1>5. LoadSound'
  BY <1>1, <1>2 DEF IInv, LoadSound, Execute, Ended, signals, lines
<1>6. CallSound'
  BY <1>1, <1>2
  DEF IInv, LoadSound, CallSound, Idle, Execute, signals, lines, childVars,
      output
<1>7. QED BY <1>3, <1>4, <1>5, <1>6 DEF IInv

LEMMA WriteQueryInv == IInv /\ WriteQuery => IInv'
<1>1. SUFFICES ASSUME IInv, WriteQuery PROVE IInv'
  OBVIOUS
<1>2. Sync' = Sync /\ LastLine' = LastLine /\ \A k : Line(k)' = Line(k)
  BY <1>1, InputsKept DEF WriteQuery, Write
<1>3. Sync \in Nat \ {0} /\ LastLine \in Nat /\ LastLine >= Sync
  BY <1>1, LinesNat DEF IInv
<1>4. TypeOK'
  <2>1. Control'
    BY <1>1
    DEF IInv, TypeOK, Control, WriteQuery, Write, signals, childVars, Executing, Ended
  <2>2. Counts'
    BY <1>1, <1>2, <1>3, CapAssumption
    DEF IInv, TypeOK, Counts, CallSound, WriteQuery, Write, childVars, output
  <2>3. QED BY <1>1, <2>1, <2>2 DEF IInv, TypeOK, WriteQuery, Write, inputs
<1>5. ChildSound'
  BY <1>1
  DEF IInv, TypeOK, Counts, ChildSound, CallSound, Idle, WriteQuery, Write, childVars,
      output
<1>6. LoadSound'
  BY <1>1, <1>2, <1>3
  DEF IInv, TypeOK, Counts, LoadSound, CallSound, Idle, WriteQuery, Write, Ended,
      signals
<1>7. CallSound'
  BY <1>1, <1>2, <1>3
  DEF IInv, TypeOK, Counts, LoadSound, CallSound, Idle, WriteQuery, Write, Ended,
      signals, childVars, output
<1>8. QED BY <1>4, <1>5, <1>6, <1>7 DEF IInv

LEMMA ReadResponseInv == IInv /\ ReadResponse => IInv'
<1>1. SUFFICES ASSUME IInv, ReadResponse PROVE IInv'
  OBVIOUS
<1>2. Sync' = Sync /\ LastLine' = LastLine /\ \A k : Line(k)' = Line(k)
  BY <1>1, InputsKept DEF ReadResponse, Read
<1>3. TypeOK'
  <2>1. Control'
    BY <1>1
    DEF IInv, TypeOK, Control, ReadResponse, Read, signals, childVars, Executing
  <2>2. Counts'
    BY <1>1, <1>2, CapAssumption
    DEF IInv, TypeOK, Counts, ReadResponse, Read, lines, childVars
  <2>3. QED BY <1>1, <2>1, <2>2 DEF IInv, TypeOK, ReadResponse, Read, inputs
<1>4. ChildSound'
  BY <1>1, <1>2 DEF IInv, ChildSound, ReadResponse, Read, Ended, lines, childVars
<1>5. LoadSound'
  BY <1>1, <1>2 DEF IInv, LoadSound, ReadResponse, Read, Ended, signals, lines
<1>6. CallSound'
  BY <1>1, <1>2, CapAssumption
  DEF IInv, TypeOK, Counts, CallSound, ReadResponse, Read, signals, lines, childVars
<1>7. QED BY <1>3, <1>4, <1>5, <1>6 DEF IInv

LEMMA CheckFlagInv == IInv /\ CheckFlag => IInv'
<1>1. SUFFICES ASSUME IInv, CheckFlag PROVE IInv'
  OBVIOUS
<1>2. Sync' = Sync /\ LastLine' = LastLine /\ \A k : Line(k)' = Line(k)
  BY <1>1, InputsKept DEF CheckFlag
<1>3. TypeOK'
  <2>1. Control'
    BY <1>1
    DEF IInv, TypeOK, Control, CheckFlag, Seen, signals, childVars, Executing
  <2>2. Counts'
    BY <1>1, <1>2 DEF IInv, TypeOK, Counts, CheckFlag, lines, childVars, output
  <2>3. QED BY <1>1, <2>1, <2>2 DEF IInv, TypeOK, CheckFlag, inputs
<1>4. ChildSound'
  BY <1>1, <1>2 DEF IInv, ChildSound, CheckFlag, Ended, lines, childVars, output
<1>5. LoadSound'
  BY <1>1, <1>2 DEF IInv, LoadSound, CheckFlag, Seen, Ended, signals, lines
<1>6. CallSound'
  BY <1>1, <1>2
  DEF IInv, CallSound, CheckFlag, Seen, signals, lines, childVars, output
<1>7. QED BY <1>3, <1>4, <1>5, <1>6 DEF IInv

LEMMA ReadAgainInv == IInv /\ ReadAgain => IInv'
<1>1. SUFFICES ASSUME IInv, ReadAgain PROVE IInv'
  OBVIOUS
<1>2. Sync' = Sync /\ LastLine' = LastLine /\ \A k : Line(k)' = Line(k)
  BY <1>1, InputsKept DEF ReadAgain, Read
<1>3. TypeOK'
  <2>1. Control'
    BY <1>1
    DEF IInv, TypeOK, Control, ReadAgain, Read, signals, childVars, Executing
  <2>2. Counts'
    BY <1>1, <1>2, CapAssumption
    DEF IInv, TypeOK, Counts, ReadAgain, Read, lines, childVars
  <2>3. QED BY <1>1, <2>1, <2>2 DEF IInv, TypeOK, ReadAgain, Read, inputs
<1>4. ChildSound'
  BY <1>1 DEF IInv, ChildSound, CallSound, ReadAgain, Read, lines, childVars
<1>5. LoadSound'
  BY <1>1, <1>2 DEF IInv, LoadSound, ReadAgain, Read, Ended, signals, lines
<1>6. CallSound'
  BY <1>1, <1>2, CapAssumption
  DEF IInv, TypeOK, Counts, ChildSound, CallSound, ReadAgain, Read, signals, lines,
      childVars
<1>7. QED BY <1>3, <1>4, <1>5, <1>6 DEF IInv

LEMMA JudgeInv == IInv /\ Judge => IInv'
<1>1. SUFFICES ASSUME IInv, Judge PROVE IInv'
  OBVIOUS
<1>2. Sync' = Sync /\ LastLine' = LastLine /\ \A k : Line(k)' = Line(k)
  BY <1>1, InputsKept DEF Judge
<1>3. Sync \in Nat \ {0} /\ LastLine \in Nat /\ LastLine >= Sync
  BY <1>1, LinesNat DEF IInv
<1>4. TypeOK'
  <2>1. Control'
    BY <1>1 DEF IInv, TypeOK, Control, Judge, signals, childVars, Ended
  <2>2. Counts'
    BY <1>1, <1>2 DEF IInv, TypeOK, Counts, Judge, lines, childVars, output
  <2>3. QED BY <1>1, <2>1, <2>2 DEF IInv, TypeOK, Judge, inputs
<1>5. ChildSound'
  BY <1>1 DEF IInv, ChildSound, CallSound, Judge, lines, childVars, output
<1>6. LoadSound'
  BY <1>1, <1>2, <1>3
  DEF IInv, TypeOK, Counts, LoadSound, CallSound, Idle, Judge, signals, lines,
      childVars, output
<1>7. CallSound'
  BY <1>1 DEF CallSound, Judge
<1>8. QED BY <1>4, <1>5, <1>6, <1>7 DEF IInv

LEMMA FinishInv == IInv /\ Finish => IInv'
<1>1. SUFFICES ASSUME IInv, Finish PROVE IInv'
  OBVIOUS
<1>2. Sync' = Sync /\ LastLine' = LastLine /\ \A k : Line(k)' = Line(k)
  BY <1>1, InputsKept DEF Finish
<1>3. Sync \in Nat \ {0} /\ LastLine \in Nat /\ LastLine >= Sync
  BY <1>1, LinesNat DEF IInv
<1>4. TypeOK'
  <2>1. Control'
    BY <1>1 DEF IInv, TypeOK, Control, Finish, signals, childVars, Ended
  <2>2. Counts'
    BY <1>1, <1>2 DEF IInv, TypeOK, Counts, Finish, lines, childVars, output
  <2>3. QED BY <1>1, <2>1, <2>2 DEF IInv, TypeOK, Finish, inputs
<1>5. ChildSound'
  BY <1>1 DEF IInv, ChildSound, LoadSound, Idle, Finish, lines, childVars, output
<1>6. LoadSound'
  BY <1>1, <1>2, <1>3 DEF IInv, LoadSound, Idle, Finish, signals, lines, childVars
<1>7. CallSound'
  BY <1>1 DEF CallSound, Finish
<1>8. QED BY <1>4, <1>5, <1>6, <1>7 DEF IInv

-----------------------------------------------------------------------------
LEMMA NextInv == IInv /\ [Next]_vars => IInv'
<1>1. SUFFICES ASSUME IInv, [Next]_vars PROVE IInv'
  OBVIOUS
<1>2. CASE Child
  BY <1>1, <1>2, GetLineInv, PutPieceInv, SpillInv, RunDoneInv, FlushDoneInv,
     KillParentInv, EndOfInputInv DEF Child
<1>3. CASE Parent
  BY <1>1, <1>3, LoadInv, SigwaitInv, DrainInv, ExecuteInv, WriteQueryInv,
     ReadResponseInv, CheckFlagInv, ReadAgainInv, JudgeInv, FinishInv DEF Parent
<1>4. CASE query_done_handler
  BY <1>1, <1>4, HandlerInv
<1>5. CASE UNCHANGED vars
  BY <1>1, <1>5
  DEF vars, inputs, parentVars, signals, lines, childVars, output, IInv, TypeOK,
      Control, Counts, ChildSound, LoadSound, CallSound, Idle, Sync, LastLine, Line
<1>6. QED BY <1>1, <1>2, <1>3, <1>4, <1>5 DEF Next, Over

\* The inductive invariant holds of every behaviour: however the processes are
\* scheduled, whenever a signal comes, with pipes and buffers of any size.
THEOREM HarnessInvariance == Spec => []IInv
BY InitInv, NextInv, PTL DEF Spec

\* Every variable keeps its type, no pipe holds more than it can.
THEOREM HarnessTypeCorrect == Spec => []TypeOK
BY HarnessInvariance, PTL DEF IInv

\* What execute (komfy_database.py:90) makes a value of is the response of its
\* query, all of it and nothing else.
THEOREM WholeResponses == Spec => []ResponseWhole
<1>1. IInv => ResponseWhole
  BY DEF IInv, CallSound, ResponseWhole, Whole
<1>2. QED BY <1>1, HarnessInvariance, PTL

\* Between two calls there is neither output nor a signal under way, whatever
\* the script before them did (the drain of load, komfy_database.py:79).
THEOREM QuietKept == Spec => []QuietBetweenCalls
<1>1. IInv => QuietBetweenCalls
  BY DEF IInv, LoadSound, Idle, QuietBetweenCalls
<1>2. QED BY <1>1, HarnessInvariance, PTL
=============================================================================
