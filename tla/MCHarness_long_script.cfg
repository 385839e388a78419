\* A script whose output does not fit in the pipe.
SPECIFICATION Spec
CHECK_DEADLOCK FALSE
CONSTANTS
  Script <- LongScripts
  Queries <- ShortLists
  InCap = 2
  OutCap = 4
  BufCap = 2
  ReadCap = 3
PROPERTY LoadReturns
