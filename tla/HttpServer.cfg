CONSTANTS
  c1 = c1
  c2 = c2
  c3 = c3
  Conns <- MCConns
  Loops = 4
  Uuids = 4
  MaxMessages = 2
SPECIFICATION Spec
CHECK_DEADLOCK FALSE
SYMMETRY MCSymmetry
INVARIANTS
  EntryIsLive
  SameNumberAnswers
  OwnAnswers
