SPECIFICATION FairSpec
CONSTANTS
  t1 = t1  t2 = t2  t3 = t3
  Threads = {t1, t2, t3}
  BitsPerInt = 2
  Pools <- Small
INVARIANTS BlocksAreDisjoint UsageIsExact NullMeansFull
PROPERTIES CallsReturn
CHECK_DEADLOCK FALSE
