------------------------------- MODULE Values -------------------------------
(***************************************************************************)
(* Values and records (src/komfydb/common): a value is <<"int", n>> or     *)
(* <<"str", n>>, the text being the first n characters of a word that      *)
(* repeats none.  Null is a field never set, and where there is no object. *)
(***************************************************************************)
EXTENDS Integers, Sequences

CONSTANTS
  Null,
  Word    \* the word whose beginnings are the texts

Value == ({"int"} \X Int) \cup ({"str"} \X (0 .. Len(Word)))
Record == Seq({Null} \cup Value)

TypeOf(v) == v[1]

\* Tuple::GetField; Null is its error.
Field(row, i) == IF i \in DOMAIN row THEN row[i] ELSE Null

=============================================================================
