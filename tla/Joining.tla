------------------------------ MODULE Joining ------------------------------
(* Sequences laid end to end.                                              *)
EXTENDS Integers, Sequences

\* Pieces appended one after the other.
Joined(pieces) ==
  LET upTo[n \in 0 .. Len(pieces)] ==
        IF n = 0 THEN <<>> ELSE upTo[n - 1] \o pieces[n]
  IN upTo[Len(pieces)]

\* How much the first n of them make.
JoinedLen(pieces, n) == Len(Joined(SubSeq(pieces, 1, n)))

=============================================================================
