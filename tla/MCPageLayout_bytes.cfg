\* Bytes of two bits, so integers of eight; three slots fill the page.
SPECIFICATION Spec
CHECK_DEADLOCK FALSE
CONSTANTS
  Bits = 2
  PageSize = 32
  STR_LEN = 2
  Desc <- Columns
  Row <- Rows
  Null = Null
  Beyond <- After
INVARIANTS ImageIsPage ReadsInside
VIEW View
PROPERTY ImplementsPage
