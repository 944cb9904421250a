SPECIFICATION FairSpec
CONSTANTS
  Requests = {r1, r2, r3}
  Keys = {k1}
  Slots = {"slot"}
  SlotOf <- MCSlotOf
  Limit = 1
  Expiration = 2
  SkipFailed = TRUE
  External = TRUE
  Outcomes = {"ok", "failed", "error", "panic"}
  MaxTime = 4
  Prompt = FALSE
  None = None
INVARIANTS
  TypeOK
  NoLostHit
  HeadersInRange
PROPERTIES
  WindowForward
  EveryRequestAnswered
  ImplementsAtomic
