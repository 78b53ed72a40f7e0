CONSTANTS
  w1 = w1
  w2 = w2
  u1 = u1
  u2 = u2
  m1 = m1
  m2 = m2
  n1 = n1
  Workers <- MCWorkers
  Users <- MCUsers
  Md5s <- MCMd5s
  Names <- MCNames
  Worlds <- MCWorlds
SPECIFICATION Spec
SYMMETRY Symmetry
CHECK_DEADLOCK FALSE
INVARIANTS
  TypeOK
  NoDanglingRow
  CountCoversOwners
  RefCountsOwners
  NothingOrphaned
  SingleSharer
PROPERTIES
  ImplementsRefCatalog
