\* Three statements in a row, most of them changing a table, in one
\* session or several, under TestRepl and the Repl.
SPECIFICATION Spec
CHECK_DEADLOCK FALSE
CONSTANTS
  Null = Null
  PageRows = 2
  Statement <- InsertStatements
  Database <- MCDatabases
  Terminal <- MCTerminals
  Char <- MCChar
  Spelled <- MCSpelled
  Word <- MCWord
  ParseQuery <- Plan
  OpIteratorOpen <- Open
  OpIteratorNext <- Next
  MaxStatements = 3
INVARIANTS PlansSound InsertExact ScreenAligned ScreenTells
PROPERTY RowsKept
