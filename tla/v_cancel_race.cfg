SPECIFICATION Spec
CONSTANTS
  Id = {t1}
  NoId = NoId
  Slot = {s1, s2}
  MaxRetries = 3
  Lossy = FALSE
  Faults = FALSE
  Flaky = FALSE
  NewTask <- HttpTask
  RetryCap = 0
  MsgCap = 0
  Api = {"create", "cancel"}
  Reserve <- NoneLeft
CHECK_DEADLOCK FALSE
PROPERTY OnlyPendingCancelled
