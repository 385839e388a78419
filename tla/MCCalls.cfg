\* Every pair of lists of at most two records under a join; every list of at
\* most three, and limits below and above its length, under a filter, a
\* projection or a limit; every table of at most three pages of at most two
\* records, empty pages and the table without pages among them; up to three
\* joins of four tables with each other and with subqueries.  After a failure
\* nothing is called, and planning is over when it is.
SPECIFICATION MCSpec
CHECK_DEADLOCK FALSE
CONSTANTS
  Row <- Records
  Null = Null
  Inputs <- UpToTwo
  Filter <- AtMost
  ChildInputs <- UpToThree
  Evaluate <- Odd
  Copies <- Whole
  Image <- Other
  Limits <- MCLimits
  Tables <- SmallTables
  Alias <- FourTables
  Subquery = Subquery
  JoinLists <- UpToThreeJoins
INVARIANTS IInv OpIInv ScanIInv PlanIInv
PROPERTIES JoinIsCursor OneChildIsCursor ScanIsCursor PlannedByGraph
PROPERTY EveryCallReturns
