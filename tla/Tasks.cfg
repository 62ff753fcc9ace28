SPECIFICATION FairSpec
CONSTANTS
  w1 = w1  w2 = w2  Main = Main
  Workers <- Workers2
  Actors <- Actors2
  MaxTasks = 3  NumQueues = 1  MaxRespawns = 1  MaxWaits = 1  MaxVla = 2
INVARIANTS NoUseAfterFree RefCountIsExact InOnePlace ReadyAfterPredecessors DoneMeansQuiescent NothingLeftAtEnd
PROPERTIES WaitTerminates
