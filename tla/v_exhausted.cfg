SPECIFICATION Spec
CONSTANTS
  Id = {t1}
  NoId = NoId
  Slot = {s1, s2}
  MaxRetries = 3
  Lossy = FALSE
  Faults = FALSE
  Flaky = TRUE
  NewTask <- HttpTask
  RetryCap = 3
  MsgCap = 1
  Api = {"create", "requeue"}
  Reserve <- NoneLeft
SYMMETRY SlotSymmetry
CHECK_DEADLOCK FALSE
INVARIANT ExhaustedIsFailed
