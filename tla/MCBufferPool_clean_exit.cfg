\* As malformed: does a clean exit keep the rows?
SPECIFICATION FairSpec
CONSTANTS
  NumSlots = 1
  Tuple = {a, m}
  Malformed = {m}
  Empty = Empty
  Table = {t1}
  MaxPages = 3
  PagesCnt = 2
  MaxBatch = 2
PROPERTY CleanExitKeepsRows
