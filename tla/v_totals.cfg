SPECIFICATION Spec
CONSTANTS
  Id = {t1, t2, t3, t4, t5}
  NoId = NoId
  Slot = {s1, s2}
  MaxRetries = 3
  Lossy = FALSE
  Faults = FALSE
  Flaky = FALSE
  NewTask <- NoTasks
  RetryCap = 0
  MsgCap = 0
  Api = {"start"}
  Reserve <- ChainLeft
CHECK_DEADLOCK FALSE
INVARIANT FourTasksFourCompleted
