SPECIFICATION Spec
CONSTANTS
  t1 = t1  t2 = t2  n1 = n1  n2 = n2  n3 = n3
  EndTag = EndTag  LockTag = LockTag  NullPtr = NullPtr  InQueue = InQueue
  Threads <- Threads2
  Nodes <- Nodes3
PROPERTIES PushRespectsConsume ImplementsWaitQueue
