CONSTANTS
  w1 = w1
  w2 = w2
  u1 = u1
  u2 = u2
  f1 = f1
  f2 = f2
  Workers <- MCWorkers
  Users <- MCUsers
  Files <- MCFiles
  Modes = {TRUE, FALSE}
  MaxRequests = 4
  MaxFaults = 1
SPECIFICATION Spec
SYMMETRY MCSymmetry
CHECK_DEADLOCK FALSE
INVARIANTS
  TypeOK
  RankingAgrees
  ScoreNotAhead
  ListingSucceeds
  ViewsCountedOnce
