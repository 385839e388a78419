\* Scripts whose output just fits in the pipe, and two queries of every kind.
SPECIFICATION Spec
CONSTANTS
  Script <- Scripts
  Queries <- QueryLists
  InCap = 2
  OutCap = 4
  BufCap = 2
  ReadCap = 3
INVARIANTS ResponseWhole QuietBetweenCalls
PROPERTIES LoadReturns ExecuteReturns
