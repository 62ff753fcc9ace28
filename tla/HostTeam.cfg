SPECIFICATION FairSpec
CONSTANTS
  Threads <- Threads4
  Barriers <- Barriers4
  Programs <- Small
INVARIANTS LeaderIsAlone WorkIsDoneOnce ResultsAreExact CollectivesAgree TeamsDoNotLap
PROPERTIES RegionsEnd
CHECK_DEADLOCK FALSE
