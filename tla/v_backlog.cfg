SPECIFICATION StatusSpec
CONSTANTS
  Id = {t1, t2, t3}
  NoId = NoId
  Slot = {s1}
  MaxRetries = 1
  Lossy = FALSE
  Faults = FALSE
  Flaky = TRUE
  NewTask <- HttpTask
  RetryCap = 1
  MsgCap = 1
  Api = {"create", "retry", "cancel"}
  Reserve <- NoneLeft
  PendingCap = 1
  PendingLimit = 2
  FailedLimit = 2
CHECK_DEADLOCK FALSE
INVARIANT BacklogIsUnhealthy
