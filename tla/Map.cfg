SPECIFICATION Spec
CONSTANTS
  t1 = t1  t2 = t2  k1 = k1  k2 = k2  k3 = k3  NoKey = NoKey
  Threads <- Threads2
  Keys <- Keys3
  Hashes <- Collide
  Primes = {3, 7}
  BlockSize = 2
  Round = 2
  Hints = {0, 3}
  Requests = {3}
  bounded_find_attempts = 1
INVARIANTS IndicesAreExact
PROPERTIES ImplementsTable CallsReturn
CONSTANTS
  MaxCalls = 3
  MaxHost = 2
CHECK_DEADLOCK FALSE
