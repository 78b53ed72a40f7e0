CONSTANTS
  w1 = w1
  w2 = w2
  u1 = u1
  u2 = u2
  f1 = f1
  f2 = f2
  Workers <- MCWorkers
  Users <- MCUsers
  Files <- MCFiles
  Modes = {FALSE}
  MaxRequests = 3
  MaxFaults = 0
SPECIFICATION Spec
CHECK_DEADLOCK FALSE
PROPERTIES
  RebuildRestores
