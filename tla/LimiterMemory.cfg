SPECIFICATION Spec
CONSTANTS
  Requests = {r1, r2, r3, r4}
  Keys = {k1}
  Slots = {"slot"}
  SlotOf <- MCSlotOf
  Limit = 2
  Expiration = 2
  SkipFailed = FALSE
  External = FALSE
  Outcomes = {"ok"}
  MaxTime = 6
  Prompt = TRUE
  None = None
SYMMETRY Symmetry
INVARIANTS
  LimitedMeansBusy
