SPECIFICATION FairScheduler
CONSTANTS
  Id = {t1, t2, t3, t4, t5, t6}
  NoId = NoId
  Slot = {s1}
  Ticker = {k1}
  MaxRetries = 3
  Lossy = FALSE
  Faults = FALSE
  NewTask <- Report
  RetryCap = 0
  MsgCap = 0
  Spare = 3
  Horizon = 2
CHECK_DEADLOCK FALSE
INVARIANT ClearedIsExecuted
PROPERTY DueIsExecuted
