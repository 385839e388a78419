\* A join with an aggregate of some rows, or of none.
SPECIFICATION Spec
CHECK_DEADLOCK FALSE
CONSTANTS
  Null = Null
  PageRows = 2
  Statement <- SubqueryStatements
  Database <- MCDatabase
  Terminal <- NoTerminal
  Char <- MCChar
  Spelled <- MCSpelled
  Word <- MCWord
  ParseQuery <- Plan
  OpIteratorOpen <- Open
  OpIteratorNext <- Next
  MaxStatements = 1
INVARIANT JoinedValuesThere
