\* Two tables of two two-row pages share a pool of one page; the tables are
\* interchangeable.
SPECIFICATION Spec
CONSTANTS
  NumSlots = 2
  Tuple = {a}
  Malformed = {}
  Empty = Empty
  Table = {t1, t2}
  MaxPages = 2
  PagesCnt = 1
  MaxBatch = 2
SYMMETRY Symmetry
INVARIANTS FreeSpaceExact HeldPagesCached
PROPERTY ImplementsStore
