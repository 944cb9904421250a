SPECIFICATION Spec
CONSTANTS
  Servers <- MCServers
  Contents <- MCContents
  Paths <- MCPaths
  Unescape <- MCUnescape
  None = None
INVARIANTS
  ReadableByScripts
  CacheControlKept
  FreshCopy
  HandlerGuarded
  PreflightStops
  RedirectOnce
CHECK_DEADLOCK FALSE
