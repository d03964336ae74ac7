SPECIFICATION SchedulerSpec
CONSTANTS
  Id = {t1, t2, t3, t4, t5, t6}
  NoId = NoId
  Slot = {s1}
  Ticker = {k1, k2}
  MaxRetries = 3
  Lossy = TRUE
  Faults = TRUE
  NewTask <- Report
  RetryCap = 0
  MsgCap = 0
  Spare = 4
  Horizon = 2
SYMMETRY TickerSymmetry
CHECK_DEADLOCK FALSE
INVARIANTS
  SchedulerTypeOK
  CopiedOnlyWhenDue
  CopiesBounded
PROPERTIES
  CancelledIsSettled
  ImplementsAgenda
