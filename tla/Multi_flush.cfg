SPECIFICATION Spec
CONSTANTS
  NumTeams = 2  NumQueues = 1  Size = 1  MaxTasks = 4  MaxHost = 1  MaxRespawns = 1
INVARIANTS FailedListIsNotConcurrent
