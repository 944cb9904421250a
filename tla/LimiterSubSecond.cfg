SPECIFICATION FairSpec
CONSTANTS
  Requests = {r1, r2}
  Keys = {k1}
  Slots = {"slot"}
  SlotOf <- MCSlotOf
  Limit = 2
  Expiration = 0
  SkipFailed = FALSE
  External = FALSE
  Outcomes = {"ok"}
  MaxTime = 1
  Prompt = TRUE
  None = None
CHECK_DEADLOCK FALSE
PROPERTIES
  EveryRequestAnswered
