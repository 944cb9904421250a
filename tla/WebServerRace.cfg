SPECIFICATION FilesSpec
CONSTANTS
  Callers = {c1, c2, c3}
  Workers = {w1, w2}
  Loop = loop
  Names <- MCNames
  Sites <- MCSites
  Rests <- MCRests
INVARIANTS
  TypeOK
  SignalNeverBlocks
  HandlerStopSafe
  GracefulDrain
  OwnFile
PROPERTIES
  StateNeverRegresses
  StopReturnsStopped
  StopReturns
  ServeGoroutineEnds
  ImplementsOneShot
  GoesDown
