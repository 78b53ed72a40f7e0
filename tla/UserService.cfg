CONSTANTS
  w1 = w1  w2 = w2  u1 = u1  Nobody = Nobody
  Workers = {w1, w2}
  Users = {u1, Nobody}
  Keys = {1, 2}
  Worlds <- MCWorlds
SYMMETRY Symmetry
SPECIFICATION Spec
INVARIANTS OneAccountPerName ToldIsRegistered EverySessionHolds SharedStaysFound PageViewsCountedOnce
CHECK_DEADLOCK FALSE
