SPECIFICATION Spec
CONSTANTS
  Requests = {r1, r2}
  Keys = {k1}
  Slots = {"slot"}
  SlotOf <- MCSlotOf
  Limit = 2
  Expiration = 2
  SkipFailed = TRUE
  External = FALSE
  Outcomes = {"ok", "failed", "error"}
  MaxTime = 1
  Prompt = TRUE
  None = None
SYMMETRY Symmetry
INVARIANTS
  FailedNotCounted
