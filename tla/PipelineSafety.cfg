SPECIFICATION Spec
CONSTANTS
  Workers = {w1, w2}
  Contexts = {x1, x2}
  NumSrv = 2
  Routes <- MCRoutes
  MwOf <- MCMwOf
  FileRoutes <- MCFileRoutes
  Recovering = {1}
  None = None
SYMMETRY Symmetry
INVARIANTS
  TypeOK
  ExclusiveUse
  InOrder
  NextFindsTarget
  PooledClean
