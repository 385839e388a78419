\* One query, of every shape the parser takes and some it refuses.
SPECIFICATION Spec
CHECK_DEADLOCK FALSE
CONSTANTS
  Null = Null
  PageRows = 2
  Statement <- QueryStatements
  Database <- MCDatabase
  Terminal <- NoTerminal
  Char <- MCChar
  Spelled <- MCSpelled
  Word <- MCWord
  ParseQuery <- Plan
  OpIteratorOpen <- Open
  OpIteratorNext <- Next
  MaxStatements = 1
INVARIANTS PlansSound AnswerCorrect OrderKept SupportedAnswered
INVARIANTS PlanMatchesGraph OnlyQueriesAnswered
