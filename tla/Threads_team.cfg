SPECIFICATION Spec
CONSTANTS
  Configs <- TeamsOfThree
  Workers <- Threads
  NumRows = 3
  Succ <- ThreeRows
INVARIANT FenceMeansCompleted
CHECK_DEADLOCK FALSE
