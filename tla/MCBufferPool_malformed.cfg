\* As evict, with a tuple m that no page image can hold, and fairness.
SPECIFICATION FairSpec
CONSTANTS
  NumSlots = 1
  Tuple = {a, m}
  Malformed = {m}
  Empty = Empty
  Table = {t1}
  MaxPages = 3
  PagesCnt = 2
  MaxBatch = 2
INVARIANTS LruSound FileWellFormed FaultInv
PROPERTIES StatementsReturn ShutdownEnds
