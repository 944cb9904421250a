SPECIFICATION Spec
CONSTANTS
  Workers = {w1}
  Contexts = {x1}
  NumSrv = 2
  Routes <- MCRoutes
  MwOf <- MCMwOf
  FileRoutes <- MCFileRoutes
  Recovering = {}
  None = None
INVARIANTS
  NotFoundHandlerRuns
