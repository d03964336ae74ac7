SPECIFICATION FairSpec
CONSTANTS
  Id = {t1, t2}
  NoId = NoId
  Slot = {s1, s2}
  MaxRetries = 3
  Lossy = FALSE
  Faults = FALSE
  Flaky = TRUE
  NewTask <- HttpTask
  RetryCap = 0
  MsgCap = 0
  Api = {"create"}
  Reserve <- NoneLeft
CHECK_DEADLOCK FALSE
PROPERTY AutomaticRetry
