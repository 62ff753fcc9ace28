SPECIFICATION FairSpec
CONSTANTS
  Configs <- Programs
  Workers <- Threads
  NumRows = 3
  Succ <- ThreeRows
INVARIANTS FenceMeansCompleted ReductionIsComplete ScanIsExclusive PoolIsQuiet ThiefReadsCurrentRange TeamsStayTogether TakenIsAPrefix RowsRunInOrder
PROPERTIES CallsReturn ImplementsGraph
CHECK_DEADLOCK FALSE
