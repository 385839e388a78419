\* GROUP BY with ORDER BY.
SPECIFICATION Spec
CHECK_DEADLOCK FALSE
CONSTANTS
  Null = Null
  PageRows = 2
  Statement <- GroupedStatements
  Database <- MCDatabase
  Terminal <- NoTerminal
  Char <- MCChar
  Spelled <- MCSpelled
  Word <- MCWord
  ParseQuery <- Plan
  OpIteratorOpen <- Open
  OpIteratorNext <- Next
  MaxStatements = 1
INVARIANT GroupsOrdered
