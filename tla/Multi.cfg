SPECIFICATION FairSpec
CONSTANTS
  NumTeams = 2  NumQueues = 2  Size = 1  MaxTasks = 4  MaxHost = 2  MaxRespawns = 1
INVARIANTS InOnePlace DoneMeansQuiescent
PROPERTIES WaitTerminates
