\* One table of three one-row pages over a pool of two pages.
SPECIFICATION Spec
CONSTANTS
  NumSlots = 1
  Tuple = {a, b}
  Malformed = {}
  Empty = Empty
  Table = {t1}
  MaxPages = 3
  PagesCnt = 2
  MaxBatch = 2
INVARIANTS PoolExact NoPageLost CleanPagesOnFile IInv
PROPERTY ScanReturnsTable
