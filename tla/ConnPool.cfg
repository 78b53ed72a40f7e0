CONSTANTS
  t1 = t1
  t2 = t2
  t3 = t3
  t4 = t4
  Threads <- MCThreads
  MinConn = 1
  MaxConn = 2
  HoldLimit = 2
SPECIFICATION FairSpec
INVARIANTS
  Conserved
  NoLostWakeup
  SleepMeansExhausted
PROPERTIES
  FreeIsTaken
  ImplementsResourcePool
