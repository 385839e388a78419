----------------------------- MODULE MCHarness -----------------------------
(* Instances of Harness for TLC. *)
EXTENDS Harness

Ok(n) == [pieces |-> n, end |-> "ok"]
Refused == [pieces |-> 0, end |-> "refused"]
Dies(n) == [pieces |-> n, end |-> "dies"]

\* A script that prints four pieces in all, or fewer.
Scripts ==
  {<<>>, <<Ok(0), Ok(1), Ok(1), Ok(2)>>, <<Ok(4), Refused>>, <<Refused, Ok(3)>>}

\* A script that prints five.
LongScripts == {<<Ok(0), Ok(1), Ok(1), Ok(1), Ok(2)>>}

\* Responses shorter and longer than the pipe, the buffer and a read.
Asked == {Ok(0), Ok(1), Ok(3), Ok(7), Refused, Dies(1), Dies(6)}
QueryLists == {<<>>} \cup {<<p, q>> : p, q \in Asked}
ShortLists == {<<Ok(1)>>}
=============================================================================
