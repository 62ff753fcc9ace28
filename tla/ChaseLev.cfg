SPECIFICATION FairSpec
CONSTANTS
  p1 = p1  p2 = p2
  Thieves <- Thieves2
  Size = 2
  MaxPush = 5
PROPERTIES ImplementsDeque EverythingIsTaken
