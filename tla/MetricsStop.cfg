SPECIFICATION Spec
CONSTANTS
  Callers = {c1}
  Workers = {w1, w2}
  Loop = loop
  Users = {c1, loop}
  Collectors = {k1}
  MaxInFlight = 1
  Names = {"f", "g", "main"}
  Unresolved = unresolved
  Profiles <- SomeProfiles
INVARIANTS
  NoCallbackAfterStop
  CallbackIsSet
  StopStopsServer
  ProfilerOwned
  ShutdownCutsNothing
  FlameGraphExact
PROPERTIES
  StopCompletes
CHECK_DEADLOCK FALSE
