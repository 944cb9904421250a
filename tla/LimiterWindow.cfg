SPECIFICATION ClientsSpec
CONSTANTS
  Requests = {r1, r2, r3}
  Keys = {"client", "mapped", "proxy"}
  Slots = {"slot"}
  SlotOf <- MCSlotOf
  Limit = 1
  Expiration = 2
  SkipFailed = FALSE
  External = TRUE
  Outcomes = {"ok"}
  MaxTime = 8
  Prompt = TRUE
  None = None
  Proxies <- MCProxies
  Text <- MCText
  Headers <- MCHeaders
  Peers = {"client", "proxy"}
SYMMETRY Symmetry
INVARIANTS
  NoLostHit
  WindowLimit
  LimitedMeansRecent
  ClientLimit
PROPERTIES
  ImplementsAtomic
