CONSTANTS
  t1 = t1
  t2 = t2
  Threads <- MCThreads
  Sizes <- MCSizes
  Apis <- MCApis
CHECK_DEADLOCK FALSE
SPECIFICATION FairSpec
INVARIANTS
  StuckOnlyNested
  EnoughSlaves
PROPERTIES
  SomeRequestEnds
